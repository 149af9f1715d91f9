------------------------------ MODULE MCBridge ------------------------------
(* Instances of Bridge for TLC. *)
EXTENDS Bridge

(* Every keepalive frame over the ids and counters in use; one frame stands *)
(* for all that lack sid or req.                                            *)
MCClientFrames ==
  { f \in [meta : BOOLEAN, ver : BOOLEAN, sid : 0 .. MaxSid, req : Id \cap 0 .. MaxReq,
           server : Live, client : Live] :
      /\ ~f.meta => ~f.ver /\ f.sid = 0 /\ f.req = 0
      /\ ~f.ver => f.server = 0 /\ f.client = 0 }

=============================================================================
