--------------------------- MODULE MCRtInterrupt ---------------------------
(* Instances of RtInterrupt for TLC: the flags the device raises, and the  *)
(* queues the framework disarms and stops.                                 *)
EXTENDS RtInterrupt, TLC

CONSTANTS d1, d2

DpcSymmetry == Permutations({d1, d2})

RaiseOdd  == {<<1, "ROK">>, <<UNEXPECTED, "TDU">>}
RaiseLink == {<<TX, "TOK">>, <<LINK, "LINK_CHG">>}
NoFlag    == {}

TxOnly    == {TX}
RxLast    == {NumQueues - 1}
NoQueue   == {}
=============================================================================
