------------------------------ MODULE MCFeeds ------------------------------
(***************************************************************************)
(* Three ways in that share no state, in one run: a behaviour is one of a  *)
(* capture host's (part = "capture"), one of an HTTP service's ("mail") or *)
(* one of the documents' ("memory").                                       *)
(***************************************************************************)
EXTENDS CaptureFeed, MailFeeds, MemoryIngest, TLC

CONSTANTS c1, c2, k1, k2
CaptureChats == {c1, c2}
CaptureMsgs == {k1, k2}
CaptureChatOf == (k1 :> c1) @@ (k2 :> c2)

VARIABLE part

\* The parts that do not run keep the first of their initial states.
FeedsInit ==
  /\ Init /\ MailInit /\ MemoryInit
  /\ part \in {"capture", "mail", "memory"}
  /\ part # "capture" => source = "kakaotalk" /\ malformed = {}
  /\ part # "mail" => service = "gmail"
  /\ part # "memory" => provider = "drive"

FeedsNext ==
  \/ part = "capture" /\ Next /\ UNCHANGED <<mvars, gvars, part>>
  \/ part = "mail" /\ MailNext /\ UNCHANGED <<cvars, gvars, part>>
  \/ part = "memory" /\ MemoryNext /\ UNCHANGED <<cvars, mvars, part>>

FeedsFairness == WF_gvars(part = "memory" /\ MemoryProgress)

FeedsSpec ==
  FeedsInit /\ [][FeedsNext]_<<cvars, mvars, gvars, part>> /\ CaptureFairness /\ FeedsFairness

=============================================================================
