---------------------------- MODULE ObjectStorage ----------------------------
(***************************************************************************)
(* What a Cloudflare Durable Object gives the classes of this repository:  *)
(* storage, and the gates around it.  None of it is under src/; it is      *)
(* modelled from how durable-genserver/worker.js, attic/durable-object and *)
(* attic/spikes/03-durable-statem-eval use it.                             *)
(*                                                                         *)
(*   - storage.put changes what the object reads at once and the disk some *)
(*     time later, one put after the other (a put of several keys and a    *)
(*     transaction are one write);                                         *)
(*   - input gate: while an event awaits storage no other event is         *)
(*     delivered to the object;                                            *)
(*   - output gate: a response leaves when every write issued before it is *)
(*     on disk;                                                            *)
(*   - a restart forgets what is not on disk and fails every call under    *)
(*     way: its caller sees an exception and cannot tell how far it came.  *)
(***************************************************************************)
EXTENDS Naturals, Sequences, SequencesExt

CONSTANTS Requests,     \* calls that may be under way at the same time
          MaxRestarts   \* bound on the restarts of the object

ASSUME StorageAssumption == Requests \subseteq Nat \ {0} /\ MaxRestarts \in Nat

VARIABLES versions,   \* contents of the storage: on disk, then after each later write
          request,    \* the calls under way
          restarts

storageVars == <<versions, request, restarts>>

Durable == Head(versions)
Cached == Last(versions)

NoCall == [op |-> "none", crash |-> FALSE]
NoResult == [ok |-> FALSE]
Unsent == [call |-> NoCall, pc |-> "unsent", local |-> <<>>, result |-> NoResult, holds |-> 0]
Sent(call) == [Unsent EXCEPT !.call = call, !.pc = "sent"]

AtRest == {"unsent", "sent", "responding", "answered", "threw"}
InputGateOpen == \A r \in Requests : request[r].pc \in AtRest

StorageInit(empty) ==
    /\ versions = <<empty>>
    /\ request = [r \in Requests |-> Unsent]
    /\ restarts = 0

(* An event handler runs from one await to the next: it reads Cached, may  *)
(* write, and suspends at label pc, responds or throws.                    *)
Delivered(r) == request[r].pc = "sent" /\ InputGateOpen
At(r, pc) == request[r].pc = pc

Suspend(r, pc, local) ==
    request' = [request EXCEPT ![r] = [@ EXCEPT !.pc = pc, !.local = local]]
Write(v) == versions' = Append(versions, v)
NoWrite == UNCHANGED versions

Leave(r, pc, result, written) ==
    request' = [request EXCEPT ![r] = [@ EXCEPT !.pc = pc, !.local = <<>>, !.result = result,
                                                !.holds = Len(versions) - 1 + written]]
Respond(r, result) == Leave(r, "responding", result, 0)
WriteAndRespond(r, v, result) == Write(v) /\ Leave(r, "responding", result, 1)
Throw(r) == Suspend(r, "threw", <<>>)

(* The platform's own steps.                                               *)
Flush ==
    /\ Len(versions) > 1
    /\ versions' = Tail(versions)
    /\ request' = [r \in Requests |->
          [request[r] EXCEPT !.holds = IF @ > 0 THEN @ - 1 ELSE 0]]
    /\ UNCHANGED restarts

OutputGateOpens(r) ==
    /\ At(r, "responding") /\ request[r].holds = 0
    /\ request' = [request EXCEPT ![r] = [@ EXCEPT !.pc = "answered"]]
    /\ UNCHANGED <<versions, restarts>>

Restart ==
    /\ restarts < MaxRestarts
    /\ restarts' = restarts + 1
    /\ versions' = <<Durable>>
    /\ request' = [r \in Requests |->
          IF request[r].pc \in {"unsent", "answered", "threw"} THEN request[r]
          ELSE [request[r] EXCEPT !.pc = "threw", !.local = <<>>, !.result = NoResult, !.holds = 0]]

PlatformStep == Flush \/ Restart \/ \E r \in Requests : OutputGateOpens(r)
=============================================================================
