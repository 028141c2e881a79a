------------------------------ MODULE MCNode -------------------------------
(***************************************************************************)
(* The components of an audio node beside its recorder and its board, for  *)
(* TLC.                                                                    *)
(*                                                                         *)
(* They share no variable, so their interleavings would say no more than   *)
(* each of them alone: part is the one that moves.  What joins them is in  *)
(* other modules: what a packet does to the recorder in Distribution, the  *)
(* card and the recorder in Record, the recorder and the light in Power.   *)
(***************************************************************************)
EXTENDS Mgr, SdCard, AudioPipeline, Codec, Ftp

VARIABLE part

NodeInit ==
  /\ part \in {"mgr", "card", "audio", "codec", "ftp"}
  /\ MgrInit /\ SdInit /\ AudioInit /\ CodecInit /\ FtpInit

\* While another part moves, the variables of p stay.
Idle(p, stay) == part = p \/ UNCHANGED stay

NodeNext ==
  /\ \/ part = "mgr"   /\ MgrNext
     \/ part = "card"  /\ SdNext
     \/ part = "audio" /\ AudioNext
     \/ part = "codec" /\ CodecNext
     \/ part = "ftp"   /\ FtpNext
  /\ Idle("mgr", mgrVars) /\ Idle("card", sdVars) /\ Idle("audio", audioVars)
  /\ Idle("codec", codecVars) /\ Idle("ftp", ftpVars)
  /\ UNCHANGED part

NodeFairness ==
  /\ WF_mgrVars(part = "mgr" /\ MgrServed)
  /\ WF_mgrVars(part = "mgr" /\ Enter)

NodeSpec ==
  NodeInit /\ [][NodeNext]_<<mgrVars, sdVars, audioVars, codecVars, ftpVars, part>>
    /\ NodeFairness

\* The node manager's coroutine yields: no thread of the Bluetooth host, of
\* which the others wait for the mutex, is kept in its loop for ever
\* (mgr.cpp:663-696).
CoroutineYields == (part = "mgr" /\ lock # "none") ~> lock = "none"

=============================================================================
