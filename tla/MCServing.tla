----------------------------- MODULE MCServing -----------------------------
(***************************************************************************)
(* Two parts of the key-value server that must not stop, side by side: a   *)
(* behaviour accepts and answers clients, or uses one cache set.           *)
(***************************************************************************)
EXTENDS SocketServer, KVCacheSet

VARIABLE part
both == <<allvars, cacheVars, part>>

MCInit ==
  /\ part \in {"server", "cache"}
  /\ part = "cache" => master = FALSE
  /\ ServerInit /\ CacheInit

MCNext ==
  /\ UNCHANGED part
  /\ \/ part = "server" /\ ServerNext /\ UNCHANGED cacheVars
     \/ part = "cache" /\ CacheNext /\ UNCHANGED allvars

\* The fairness of FairServerSpec and of CacheFairSpec, each for its part.
MCSpec ==
  /\ MCInit /\ [][MCNext]_both
  /\ WF_allvars(part = "server"
                /\ (TestListening \/ AcceptFails \/ (\E c \in Items : Accept(c))))
  /\ WF_allvars(part = "server" /\ (PushStart \/ Push))
  /\ \A t \in Poppers : WF_allvars(part = "server" /\ (Handle(t) \/ Pop(t)))
  /\ <>[][~ \E t \in Poppers : part = "server" /\ Spurious(t)]_allvars
  /\ WF_cacheVars(part = "cache" /\ (Visit \/ LoopEnd \/ Insert))
=============================================================================
