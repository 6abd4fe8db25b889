--------------------------- MODULE MCStreamSession ---------------------------
(* StreamSession on two streams that share a creator and a few keys.        *)
EXTENDS StreamSession

CONSTANTS s1, s2

\* Bound: a request manages keys or one fails; s1 is made before s2, and with both of them
\* nothing fails and no keys are managed.
FewRequests ==
  /\ requests = 0 \/ failures = 0
  /\ s2 \in made => s1 \in made /\ requests = 0 /\ failures = 0

\* A fragment of Next in which every request to auth-service succeeds, and OBS stays connected
\* with all keys but the last.
ReliableNext ==
  \/ \E k \in KeyIds : Publish(k) \/ PublishStep(k) \/ (k = MaxKeys /\ PublishDone(k))
  \/ \E f \in Finalizers : FinalizeStep(f)
  \/ AnnounceEnd
  \/ \E s \in Streams : NewStream(s) \/ \E f \in Requests : EndByOwner(f, s)
  \/ CreateKey \/ StudioStep
ReliableSpec == Init /\ [][ReliableNext]_vars
=============================================================================
