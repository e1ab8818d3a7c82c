--------------------------- MODULE SnapshotStream ---------------------------
(* One stream of signed snapshots (the keys a region may admit, or the       *)
(* accounts it may schedule): publishers at the primary site export the      *)
(* database under a revision they allocate in the same transaction, and one  *)
(* region pulls, stores in a file and serves them.  A payload is abstracted  *)
(* to the version of the database it was exported from.                      *)
EXTENDS Naturals

CONSTANTS
  Publishers,   \* publisher processes of the stream
  MaxData,      \* bound: changes of the exported data
  Horizon,      \* bound on the primary site's clock
  RegionHorizon, \* bound on the region's clock
  MaxDoubts,    \* bound: commits whose outcome stays unknown
  Lifetime,     \* of a snapshot
  MaxAge,       \* the region's policy: max_snapshot_age_seconds
  Skew,         \* and max_clock_skew_seconds
  None

ASSUME StreamAssumption ==
  /\ MaxData \in Nat /\ Horizon \in Nat /\ RegionHorizon \in Nat /\ MaxDoubts \in Nat /\ Skew \in Nat
  /\ Lifetime \in Nat \ {0} /\ MaxAge \in Nat \ {0}
  /\ Lifetime <= MaxAge

VARIABLES
  data,         \* version of the exported data in the database
  stream,       \* the last packet of the stream's row, None before the first
  lock,         \* holder of the advisory lock
  tx,           \* publisher -> its open transaction
  doubts,       \* commits whose outcome stayed unknown so far
  wire,         \* publisher -> the packet it serves
  clock,        \* of the primary site
  rclock,       \* of the region
  response,     \* the packet on its way to the region
  disk,         \* the region's state file: what a process sees, what survives a power loss
  current,      \* the packet the region's process has accepted
  failed,       \* its last write did not complete
  accepted      \* history: the last revision whose Accept succeeded

primaryVars == <<data, stream, lock, tx, wire, doubts>>
regionVars == <<response, disk, current, failed, accepted>>
vars == <<primaryVars, clock, rclock, regionVars>>

\* a worthwhile publication has newer data, a later date, or follows a doubt
Revisions == 1 .. MaxData + Horizon + 1 + MaxDoubts
Packets == [revision : Revisions, data : 0 .. MaxData, issued : 0 .. Horizon]

ASSUME NoneAssumption == None \notin Publishers /\ None \notin Packets

MaybePacket == Packets \cup {None}

RevisionOf(p) == IF p = None THEN 0 ELSE p.revision

\* The types of the state.
TypeOK ==
  /\ data \in 0 .. MaxData
  /\ stream \in MaybePacket
  /\ lock \in Publishers \cup {None}
  /\ tx \in [Publishers -> [phase : {"none", "begun", "built"}, data : 0 .. MaxData,
                            packet : MaybePacket]]
  /\ wire \in [Publishers -> MaybePacket]
  /\ doubts \in 0 .. MaxDoubts
  /\ clock \in 0 .. Horizon /\ rclock \in 0 .. RegionHorizon
  /\ response \in MaybePacket
  /\ disk \in [visible : MaybePacket, durable : MaybePacket]
  /\ current \in MaybePacket
  /\ failed \in BOOLEAN
  /\ accepted \in Revisions \cup {0}

NoTx == [phase |-> "none", data |-> 0, packet |-> None]

Init ==
  /\ data = 0 /\ stream = None /\ lock = None
  /\ tx = [p \in Publishers |-> NoTx]
  /\ wire = [p \in Publishers |-> None]
  /\ doubts = 0 /\ clock = 0 /\ rclock = 0
  /\ response = None /\ disk = [visible |-> None, durable |-> None]
  /\ current = None /\ failed = FALSE /\ accepted = 0

-----------------------------------------------------------------------------
(* Snapshot.Validate: neither tolerance nor lifetime extends the other. *)

\* mutant: clock tolerance extends expiry and age
ValidWithin(p, now) ==
  /\ p.issued <= now + Skew
  /\ now < p.issued + Lifetime + Skew
  /\ now < p.issued + MaxAge + Skew

Valid(p, now) ==
  /\ p.issued <= now + Skew
  /\ now < p.issued + Lifetime
  /\ now < p.issued + MaxAge

Tick ==
  /\ clock < Horizon /\ clock < rclock + Skew
  /\ clock' = clock + 1
  /\ UNCHANGED <<primaryVars, rclock, regionVars>>

RegionTick ==
  /\ rclock < RegionHorizon /\ rclock < clock + Skew
  /\ rclock' = rclock + 1
  /\ UNCHANGED <<primaryVars, clock, regionVars>>

-----------------------------------------------------------------------------
(* The publishers. *)

\* an administrator changes what the stream exports
Change ==
  /\ data < MaxData
  /\ data' = data + 1
  /\ UNCHANGED <<stream, lock, tx, wire, doubts, clock, rclock, regionVars>>

\* bound: publications that would repeat the packet are left out
Worthwhile ==
  stream # None => \/ stream.data # data \/ stream.issued # clock
                   \/ \A p \in Publishers : wire[p] # stream

\* the first statement of the transaction fixes what all of it reads
BeginPublish(p) ==
  /\ tx[p].phase = "none" /\ Worthwhile
  /\ tx' = [tx EXCEPT ![p] = [phase |-> "begun", data |-> data, packet |-> stream]]
  /\ UNCHANGED <<data, stream, lock, wire, doubts, clock, rclock, regionVars>>

\* mutant: the stream's row is read without locking it
RowReadable(p) == TRUE

\* SELECT ... FOR UPDATE fails when the row changed after the snapshot
RowUnchanged(p) == tx[p].packet = stream

NextRevision == RevisionOf(stream) + 1

\* the lock, the row, the export, the seal
Build(p) ==
  /\ tx[p].phase = "begun" /\ lock = None /\ RowUnchanged(p)
  /\ lock' = p
  /\ tx' = [tx EXCEPT ![p].phase = "built",
                      ![p].packet = [revision |-> NextRevision,
                                     data |-> tx[p].data, issued |-> clock]]
  /\ UNCHANGED <<data, stream, wire, doubts, clock, rclock, regionVars>>

\* the lock is busy, the row has changed, or the attempt times out
GiveUp(p) ==
  /\ tx[p].phase # "none"
  /\ tx' = [tx EXCEPT ![p] = NoTx]
  /\ lock' = (IF lock = p THEN None ELSE lock)
  /\ UNCHANGED <<data, stream, wire, doubts, clock, rclock, regionVars>>

Ended(p) == lock' = None /\ tx' = [tx EXCEPT ![p] = NoTx]

Commit(p) ==
  /\ tx[p].phase = "built"
  /\ Ended(p)
  /\ stream' = tx[p].packet
  /\ wire' = [wire EXCEPT ![p] = tx[p].packet]
  /\ UNCHANGED <<data, doubts, clock, rclock, regionVars>>

\* tick returns the error before it adopts the packet
NotAdopted(p) == UNCHANGED wire

\* the commit is not acknowledged: it landed or it did not
CommitInDoubt(p) ==
  /\ tx[p].phase = "built" /\ doubts < MaxDoubts
  /\ doubts' = doubts + 1
  /\ Ended(p)
  /\ stream' = tx[p].packet \/ UNCHANGED stream
  /\ NotAdopted(p)
  /\ UNCHANGED <<data, clock, rclock, regionVars>>

\* the process dies; its successor restores the row's packet
RestartPublisher(p) ==
  /\ tx' = [tx EXCEPT ![p] = NoTx]
  /\ lock' = (IF lock = p THEN None ELSE lock)
  /\ wire' = [wire EXCEPT ![p] = stream]
  /\ UNCHANGED <<data, stream, doubts, clock, rclock, regionVars>>

-----------------------------------------------------------------------------
(* The region: Pull in two halves, Accept, Current. *)

\* a publisher answers with the packet it holds, if that is still valid
Fetch(p) ==
  /\ response = None /\ ~ failed    \* bound: what a closed replica pulls it refuses
  /\ wire[p] # None /\ Valid(wire[p], clock)
  /\ response' = wire[p]
  /\ UNCHANGED <<primaryVars, clock, rclock, disk, current, failed, accepted>>

LoseResponse ==
  /\ response # None
  /\ response' = None
  /\ UNCHANGED <<primaryVars, clock, rclock, disk, current, failed, accepted>>

\* mutant: only the next revision is taken
Successor(s) == s.revision = RevisionOf(current) + 1

Advances(s) == s.revision > RevisionOf(current)

Acceptable(s) == s # None /\ Valid(s, rclock) /\ ~ failed /\ Advances(s)

Accept ==
  /\ Acceptable(response)
  /\ disk' = [visible |-> response, durable |-> response]
  /\ current' = response /\ accepted' = response.revision
  /\ response' = None
  /\ UNCHANGED <<primaryVars, clock, rclock, failed>>

\* mutant: the packet is served although it may not be on disk
TakenAnyway == current' = response /\ failed' = FALSE

\* a write that failed closes the replica until it is opened again
NotTaken == UNCHANGED current /\ failed' = TRUE

\* writeAtomic fails: before the rename, or after it and before the directory
\* is known to be on disk
WriteFails ==
  /\ Acceptable(response)
  /\ disk' = disk \/ disk' = [disk EXCEPT !.visible = response]
  /\ NotTaken
  /\ response' = None
  /\ UNCHANGED <<primaryVars, clock, rclock, accepted>>

\* a rollback, a repetition, an expired packet, or a closed replica
Refuse ==
  /\ response # None /\ ~ Acceptable(response)
  /\ response' = None
  /\ UNCHANGED <<primaryVars, clock, rclock, disk, current, failed, accepted>>

\* OpenReplica keeps an expired packet for its revision; it only reads, so a
\* rename whose directory was never synced is served and still not durable
Restart ==
  /\ current' = disk.visible
  /\ failed' = FALSE /\ response' = None
  /\ UNCHANGED <<primaryVars, clock, rclock, disk, accepted>>

\* the machine stops: a rename that was not synced is lost (had it reached the
\* disk all the same, the region would go on as after Restart)
PowerLoss ==
  /\ current' = disk.durable
  /\ disk' = [disk EXCEPT !.visible = disk.durable]
  /\ failed' = FALSE /\ response' = None
  /\ UNCHANGED <<primaryVars, clock, rclock, accepted>>

\* Current(): what a request is answered from
Servable == ~ failed /\ current # None /\ Valid(current, rclock)

-----------------------------------------------------------------------------
Publish(p) == BeginPublish(p) \/ Build(p) \/ Commit(p)

Next ==
  \/ Tick \/ RegionTick \/ Change
  \/ \E p \in Publishers :
       \/ Publish(p) \/ GiveUp(p) \/ CommitInDoubt(p) \/ RestartPublisher(p) \/ Fetch(p)
  \/ LoseResponse \/ Accept \/ WriteFails \/ Refuse \/ Restart \/ PowerLoss

Spec == Init /\ [][Next]_vars

\* The loops of publishers and region go on, and no kind of failure hits
\* every attempt: what becomes possible again and again is done.
FairSpec ==
  /\ Spec
  /\ WF_vars(Tick \/ RegionTick)
  /\ WF_vars(\E p \in Publishers : BeginPublish(p))
  /\ SF_vars(\E p \in Publishers : Build(p))
  /\ SF_vars(\E p \in Publishers : Commit(p))
  /\ SF_vars(\E p \in Publishers : wire[p] = stream /\ Fetch(p))
  /\ WF_vars(\E p \in Publishers : ~ RowUnchanged(p) /\ GiveUp(p))
  /\ SF_vars(Accept) /\ WF_vars(Refuse)

-----------------------------------------------------------------------------
(* What must hold. *)

\* every packet somebody holds and may pass on
Circulating ==
  ({stream, response, current, disk.visible, disk.durable}
     \cup {wire[p] : p \in Publishers}) \ {None}

\* A revision never stands for two contents, although publishers compete,
\* commits stay in doubt and processes come back with what they find; and a
\* later revision never exports older data, so what was revoked stays revoked.
\* (All state is of its type.)
RevisionsFaithful ==
  /\ TypeOK
  /\ \A x, y \in Circulating :
       /\ x.revision = y.revision => x = y
       /\ x.revision < y.revision => x.data <= y.data

\* The view requests are answered from never goes back behind a revision whose
\* Accept succeeded, through failed writes, reopened replicas and power losses.
\* It goes back at all only when a power loss finds a rename that was never
\* synced: a failed write's revision, served since the replica was reopened.
ViewNeverRegresses ==
  [][/\ RevisionOf(current') >= accepted
     /\ \/ RevisionOf(current') >= RevisionOf(current)
        \/ PowerLoss /\ disk.durable # disk.visible]_vars

\* A view is not served for longer than the policy's age after its issue, plus
\* the skew the policy allows between the clocks: that long a revoked key may
\* still be admitted.
ServedInTime == Servable => clock < current.issued + MaxAge + Skew

\* A region whose replica is open comes to hold the latest data.
CatchesUp == <>[](failed \/ (current # None /\ current.data = data))
=============================================================================
