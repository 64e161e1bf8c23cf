---------------------------- MODULE SourceFetcher ----------------------------
(***************************************************************************)
(* The contract of core/SourceFetcher.h: what any fetcher publishes about  *)
(* the spool it fills, whatever it fills it from.  SshFetcher is shown to  *)
(* implement this specification, and SpooledTail, which models the reader, *)
(* is composed with it, so that what is checked of the reader holds over   *)
(* every fetcher that keeps the contract.                                  *)
(*                                                                         *)
(* A generation is one spool file (gen-N.log).  Its bytes are abstracted   *)
(* to their number: `written[g]' bytes have landed in the file of          *)
(* generation g, of which readers may look at the first `committed' bytes  *)
(* of the current one.                                                     *)
(***************************************************************************)
EXTENDS Naturals

CONSTANTS MaxGeneration,  \* bound: generations 0 .. MaxGeneration exist
          MaxSize         \* bound: bytes a spool file ever holds

ASSUME BoundsAssumption == MaxGeneration \in Nat /\ MaxSize \in Nat

VARIABLES state,       \* FetchStatus::state
          generation,  \* FetchStatus::generation
          committed,   \* FetchStatus::committedSize, of the current generation
          written,     \* written[g]: bytes in the spool file of generation g
          stopping     \* requestStop() was called

vars == <<state, generation, committed, written, stopping>>

Generations == 0 .. MaxGeneration

States == {"Idle", "Connecting", "Priming", "Live", "Error", "Disconnected",
           "Waiting", "Complete"}

\* What every field of a snapshot may hold (FetchStatus and the spool files).
TypeOK == /\ state \in States
          /\ generation \in Generations
          /\ committed \in 0 .. MaxSize
          /\ written \in [Generations -> 0 .. MaxSize]
          /\ stopping \in BOOLEAN

\* A fetcher as constructed: nothing published, no spool file of its own.
Init == /\ state = "Idle"
        /\ generation = 0
        /\ committed = 0
        /\ written = [g \in Generations |-> 0]
        /\ stopping = FALSE

\* Complete is final: nothing is ever published after it.
Open == state # "Complete"

\* start(): returns at once with a legal, empty spool.  An implementation that
\* finds out without I/O that there is nothing to fetch publishes Waiting or
\* Error instead, as ArchiveFetcher::start does.
Start == /\ state = "Idle"
         /\ state' \in {"Connecting", "Waiting", "Error"}
         /\ UNCHANGED <<generation, committed, written, stopping>>

\* The implementation reports where it stands: connecting, priming, following,
\* in trouble, or waiting for an input that is not there.
Publish(s) == /\ Open /\ state # "Idle"
              /\ s \in {"Connecting", "Priming", "Live", "Error", "Waiting"}
              /\ state' = s
              /\ UNCHANGED <<generation, committed, written, stopping>>

\* The spool file a new generation is written to: one of its own.
NextFile == generation + 1

\* A fresh spool file for the generation about to begin; never a rewrite of
\* the current one.
CreateNext == /\ Open /\ state # "Idle"
              /\ generation < MaxGeneration
              /\ written' = [written EXCEPT ![NextFile] = 0]
              /\ UNCHANGED <<state, generation, committed, stopping>>

\* The generation is published last, once its file exists and is empty, and
\* with a committed size of zero in the same snapshot.
BeginGeneration == /\ Open /\ state # "Idle"
                   /\ generation < MaxGeneration
                   /\ written[generation + 1] = 0
                   /\ generation' = generation + 1
                   /\ committed' = 0
                   /\ UNCHANGED <<state, written, stopping>>

\* Bytes land in the current generation's file ...
Append(n) == /\ Open /\ generation > 0
             /\ written[generation] + n <= MaxSize
             /\ written' = [written EXCEPT ![generation] = @ + n]
             /\ UNCHANGED <<state, generation, committed, stopping>>

\* How far a snapshot may claim the spool goes: what has landed.
\* Mutant: the size is published before the write.
CommitLimitAhead == written[generation] + 1

CommitLimit == written[generation]

\* ... and only then become part of the snapshot.
Commit(n) == /\ Open /\ generation > 0
             /\ n \in committed .. CommitLimit
             /\ committed' = n
             /\ UNCHANGED <<state, generation, written, stopping>>

\* Every byte of the input has been written and committed.  Published last.
PublishComplete == /\ Open /\ generation > 0
                   /\ committed = written[generation]
                   /\ state' = "Complete"
                   /\ UNCHANGED <<generation, committed, written, stopping>>

\* requestStop(): idempotent; a finished expansion stays Complete.
RequestStop == /\ ~stopping
               /\ stopping' = TRUE
               /\ state' = IF state = "Complete" THEN state ELSE "Disconnected"
               /\ UNCHANGED <<generation, committed, written>>

Next == \/ Start
        \/ \E s \in States : Publish(s)
        \/ CreateNext
        \/ BeginGeneration
        \/ \E n \in 1 .. MaxSize : Append(n)
        \/ \E n \in 1 .. CommitLimit : Commit(n)
        \/ PublishComplete
        \/ RequestStop

Spec == Init /\ [][Next]_vars

------------------------------------------------------------------------------
\* A reader that clamps to committedSize never looks past the bytes that have
\* landed ("Published only AFTER the write lands, so a reader clamping to it
\* can never see a torn chunk", SourceFetcher.h).
NoTornChunk == committed <= written[generation]

\* "A reader that observes Complete is thereby guaranteed to observe the final
\* size" (SourceFetcher.h): nothing a reader sees changes after it.
CompleteIsFinal ==
  [][state = "Complete" => UNCHANGED <<state, generation, committed, written>>]_vars

\* Within a generation the committed size only grows and no written byte is
\* taken back, and a superseded generation's file is never touched again: the
\* index worker may still be mapping it, and record offsets index it.
SpoolOnlyGrows ==
  [][/\ generation' \in {generation, generation + 1}
     /\ generation' = generation => committed' >= committed
     /\ generation' = generation + 1 => committed' = 0
     /\ \A g \in Generations :
          /\ g < generation  => written'[g] = written[g]
          /\ g = generation => written'[g] >= written[g]]_vars

\* What every snapshot guarantees, as one inductive invariant.
SnapshotInv == TypeOK /\ NoTornChunk
==============================================================================
