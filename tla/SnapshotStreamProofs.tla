------------------------ MODULE SnapshotStreamProofs ------------------------
(* Proofs about SnapshotStream for any number of publishers, any bounds and  *)
(* any policy: revisions are faithful, the region's view never goes back and *)
(* no view is served for longer than the policy allows.                      *)
EXTENDS SnapshotStream, TLAPS

-----------------------------------------------------------------------------
(* The inductive invariant. *)

\* the row of the stream is the latest packet anybody holds
StreamLatest ==
  \A x \in Circulating : stream # None /\ x.revision <= stream.revision

\* and was exported from this database, not later than now
StreamPast == stream # None => stream.data <= data /\ stream.issued <= clock

\* each revision but those that follow a commit in doubt has newer data or a
\* later date than the one before
RevisionsCounted ==
  stream # None =>
    /\ stream.revision <= stream.data + stream.issued + 1 + doubts
    /\ (\A p \in Publishers : wire[p] # stream)
         => stream.revision <= stream.data + stream.issued + doubts

\* a transaction whose row is unchanged may still become the next revision
BegunSound(p) ==
  tx[p].phase = "begun" =>
    /\ RevisionOf(tx[p].packet) <= RevisionOf(stream)
    /\ tx[p].data <= data
    /\ RowUnchanged(p) =>
         /\ stream # None => stream.data <= tx[p].data
         /\ RevisionOf(stream) <= tx[p].data + clock + doubts

\* one that has sealed its packet holds the lock, and the row waits for it
BuiltSound(p) ==
  tx[p].phase = "built" =>
    /\ lock = p
    /\ tx[p].packet # None
    /\ tx[p].packet.revision = RevisionOf(stream) + 1
    /\ tx[p].packet.data <= data /\ tx[p].packet.issued <= clock
    /\ stream # None => stream.data <= tx[p].packet.data
    /\ tx[p].packet.revision <= tx[p].packet.data + tx[p].packet.issued + 1 + doubts

TransactionsSound == \A p \in Publishers : BegunSound(p) /\ BuiltSound(p)

\* what was accepted survives, what survives is not ahead of what is served, and
\* that is not ahead of what a reopened replica reads and serves
RegionOrdered ==
  /\ accepted <= RevisionOf(disk.durable)
  /\ RevisionOf(disk.durable) <= RevisionOf(current)
  /\ RevisionOf(current) <= RevisionOf(disk.visible)
  /\ ~ failed => disk.visible = current

ClocksClose == clock <= rclock + Skew

\* the part of RevisionsFaithful that is not about types
Faithful ==
  \A x, y \in Circulating :
    /\ x.revision = y.revision => x = y
    /\ x.revision < y.revision => x.data <= y.data

Inv ==
  /\ TypeOK /\ Faithful
  /\ StreamLatest /\ StreamPast /\ RevisionsCounted
  /\ TransactionsSound /\ RegionOrdered /\ ClocksClose

-----------------------------------------------------------------------------
(* What the steps have in common. *)

\* A packet has the fields of a packet, and None has revision 0.
LEMMA PacketFacts ==
  ASSUME NEW x \in MaybePacket
  PROVE  /\ x # None => /\ x \in Packets /\ x.revision \in Revisions /\ x.data \in 0 .. MaxData
                        /\ x.issued \in 0 .. Horizon /\ RevisionOf(x) = x.revision
         /\ x = None => RevisionOf(x) = 0
         /\ RevisionOf(x) \in Nat
BY StreamAssumption DEF MaybePacket, Packets, RevisionOf, Revisions

LEMMA CirculatingPackets ==
  ASSUME TypeOK
  PROVE  \A x \in Circulating : /\ x \in Packets /\ x \in MaybePacket /\ x # None
                                /\ x.revision \in Nat /\ x.data \in Nat
BY StreamAssumption DEF TypeOK, Circulating, MaybePacket, Packets, Revisions

\* A step that neither publishes nor invents a packet keeps what circulates
\* faithful.
LEMMA NothingNew ==
  ASSUME Faithful, StreamLatest, Circulating' \subseteq Circulating, UNCHANGED stream
  PROVE  Faithful' /\ StreamLatest'
BY DEF Faithful, StreamLatest

\* The commit of a transaction that has sealed its packet keeps what circulates
\* faithful: the packet is the only new one, and newer than all others.
LEMMA LandingFaithful ==
  ASSUME TypeOK, Faithful, StreamLatest, NEW n \in Packets, stream' = n,
         n.revision = RevisionOf(stream) + 1, stream # None => stream.data <= n.data,
         Circulating' \subseteq Circulating \cup {n}
  PROVE  Faithful' /\ StreamLatest'
<1>1. n # None /\ n.revision \in Nat /\ n.data \in Nat
  BY NoneAssumption, StreamAssumption DEF Packets, Revisions
<1>2. \A x \in Circulating : x.revision < n.revision /\ x.data <= n.data
  <2> SUFFICES ASSUME NEW x \in Circulating
               PROVE  x.revision < n.revision /\ x.data <= n.data
    OBVIOUS
  <2>1. stream # None /\ stream \in Circulating /\ x.revision <= stream.revision
    BY DEF StreamLatest, Circulating
  <2>2. x.data <= stream.data
    BY <2>1, CirculatingPackets DEF Faithful
  <2> QED
    BY <1>1, <2>1, <2>2, CirculatingPackets DEF RevisionOf
<1>3. StreamLatest'
  BY <1>1, <1>2, CirculatingPackets DEF StreamLatest
<1>4. Faithful'
  <2> SUFFICES ASSUME NEW x \in Circulating', NEW y \in Circulating'
               PROVE  /\ x.revision = y.revision => x = y
                      /\ x.revision < y.revision => x.data <= y.data
    BY DEF Faithful
  <2>1. CASE x = n
    BY <1>1, <1>2, <2>1, CirculatingPackets
  <2>2. CASE y = n
    BY <1>1, <1>2, <2>2, CirculatingPackets
  <2>3. CASE x \in Circulating /\ y \in Circulating
    BY <2>3 DEF Faithful
  <2> QED
    BY <2>1, <2>2, <2>3
<1> QED
  BY <1>3, <1>4

\* The transactions and the count of revisions rest on the primary site alone.
LEMMA PrimaryStutter ==
  ASSUME StreamPast, RevisionsCounted, TransactionsSound,
         UNCHANGED primaryVars, UNCHANGED clock
  PROVE  StreamPast' /\ RevisionsCounted' /\ TransactionsSound'
BY DEF StreamPast, RevisionsCounted, TransactionsSound, BegunSound, BuiltSound, RowUnchanged,
       primaryVars

-----------------------------------------------------------------------------
(* Each step keeps the invariant. *)

LEMMA InitInv == Init => Inv
<1> SUFFICES ASSUME Init PROVE Inv
  OBVIOUS
<1>1. TypeOK
  <2>1. NoTx \in [phase : {"none", "begun", "built"}, data : 0 .. MaxData, packet : MaybePacket]
    BY StreamAssumption DEF NoTx, MaybePacket
  <2>2. /\ tx \in [Publishers -> [phase : {"none", "begun", "built"}, data : 0 .. MaxData,
                                  packet : MaybePacket]]
        /\ wire \in [Publishers -> MaybePacket]
    BY <2>1 DEF Init, MaybePacket
  <2>3. disk \in [visible : MaybePacket, durable : MaybePacket]
    BY DEF Init, MaybePacket
  <2>4. failed \in BOOLEAN
    BY DEF Init
  <2>5. /\ data = 0 /\ stream = None /\ lock = None /\ doubts = 0 /\ clock = 0 /\ rclock = 0
        /\ response = None /\ current = None /\ accepted = 0
    BY DEF Init
  <2> QED
    BY <2>2, <2>3, <2>4, <2>5, StreamAssumption DEF TypeOK, MaybePacket
<1>2. Circulating = {}
  BY DEF Init, Circulating
<1>3. TransactionsSound
  BY DEF Init, TransactionsSound, BegunSound, BuiltSound, NoTx
<1> QED
  BY <1>1, <1>2, <1>3, StreamAssumption
  DEF Init, Inv, Faithful, StreamLatest, StreamPast, RevisionsCounted, RegionOrdered,
      ClocksClose, RevisionOf

\* clocks, and changes of the data
LEMMA PassiveStep ==
  ASSUME Inv, Tick \/ RegionTick \/ Change
  PROVE  Inv'
<1> USE DEF Inv
<1> USE StreamAssumption
<1>0. /\ data' \in 0 .. MaxData /\ clock' \in 0 .. Horizon /\ rclock' \in 0 .. RegionHorizon
      /\ data <= data' /\ clock <= clock' /\ clock' <= rclock' + Skew
      /\ UNCHANGED <<stream, lock, tx, wire, doubts, response, disk, current, failed, accepted>>
  BY DEF TypeOK, ClocksClose, Tick, RegionTick, Change, primaryVars, regionVars
<1>1. TypeOK'
  BY <1>0 DEF TypeOK
<1>2. Circulating' = Circulating
  BY <1>0 DEF Circulating
<1>3. Faithful' /\ StreamLatest'
  BY <1>0, <1>2, NothingNew
<1>4. TransactionsSound'
  <2> SUFFICES ASSUME NEW p \in Publishers
               PROVE  BegunSound(p)' /\ BuiltSound(p)'
    BY DEF TransactionsSound
  <2>1. tx[p].data \in Nat /\ tx[p].packet \in MaybePacket /\ doubts \in Nat
    BY DEF TypeOK
  <2>2. BegunSound(p)'
    BY <1>0, <2>1, PacketFacts DEF TypeOK, TransactionsSound, BegunSound, RowUnchanged
  <2>3. BuiltSound(p)'
    BY <1>0, <2>1, PacketFacts DEF TypeOK, TransactionsSound, BuiltSound
  <2> QED
    BY <2>2, <2>3
<1>5. StreamPast' /\ RevisionsCounted'
  BY <1>0, PacketFacts DEF TypeOK, StreamPast, RevisionsCounted
<1>6. RegionOrdered' /\ ClocksClose'
  BY <1>0 DEF RegionOrdered, ClocksClose, RevisionOf
<1> QED
  BY <1>1, <1>3, <1>4, <1>5, <1>6

\* what the region does leaves the primary site alone
LEMMA RegionStep ==
  ASSUME Inv,
         \/ LoseResponse \/ Accept \/ WriteFails \/ Refuse \/ Restart \/ PowerLoss
         \/ \E p \in Publishers : Fetch(p)
  PROVE  Inv'
<1> USE DEF Inv
<1>0. UNCHANGED <<primaryVars, clock, rclock>>
  BY DEF LoseResponse, Accept, WriteFails, Refuse, Restart, PowerLoss, Fetch
<1>1. /\ response' \in MaybePacket /\ current' \in MaybePacket /\ failed' \in BOOLEAN
      /\ disk' \in [visible : MaybePacket, durable : MaybePacket]
      /\ accepted' \in Revisions \cup {0}
      /\ Circulating' \subseteq Circulating
      /\ RegionOrdered'
  <2>0. /\ response \in MaybePacket /\ current \in MaybePacket /\ failed \in BOOLEAN
        /\ disk \in [visible : MaybePacket, durable : MaybePacket]
        /\ disk.visible \in MaybePacket /\ disk.durable \in MaybePacket
        /\ wire \in [Publishers -> MaybePacket] /\ None \in MaybePacket
        /\ accepted \in Revisions \cup {0} /\ accepted \in Nat /\ RegionOrdered
    BY DEF TypeOK, MaybePacket, Revisions
  <2>1. CASE LoseResponse \/ Refuse \/ \E p \in Publishers : Fetch(p)
    <3>1. UNCHANGED <<disk, current, failed, accepted>> /\ response' \in {None} \cup {wire[p] : p \in Publishers}
      BY <2>1 DEF LoseResponse, Refuse, Fetch
    <3> QED
      BY <1>0, <2>0, <3>1 DEF Circulating, RegionOrdered, RevisionOf, primaryVars
  <2>2. CASE Accept
    <3>1. /\ response' = None /\ current' = response /\ accepted' = response.revision
          /\ disk' = [visible |-> response, durable |-> response]
          /\ failed' = failed /\ response # None
      BY <2>2 DEF Accept, Acceptable
    <3>2. response.revision \in Revisions /\ RevisionOf(response) = response.revision
      BY <2>0, <3>1, PacketFacts DEF Packets, MaybePacket, RevisionOf
    <3> QED
      BY <1>0, <2>0, <3>1, <3>2, PacketFacts DEF Circulating, RegionOrdered, primaryVars, Revisions
  <2>3. CASE WriteFails
    <3>1. /\ response' = None /\ failed' = TRUE /\ current' = current
          /\ disk' = disk \/ disk' = [visible |-> response, durable |-> disk.durable]
          /\ RevisionOf(current) < RevisionOf(response) /\ ~ failed /\ response # None
          /\ accepted' = accepted
      BY <2>0, <2>3, PacketFacts DEF WriteFails, NotTaken, Acceptable, Advances
    <3> QED
      BY <1>0, <2>0, <3>1, PacketFacts DEF Circulating, RegionOrdered, primaryVars
  <2>4. CASE Restart
    <3>1. /\ response' = None /\ failed' = FALSE /\ current' = disk.visible
          /\ UNCHANGED <<disk, accepted>>
      BY <2>4 DEF Restart
    <3>2. RegionOrdered'
      <4>1. /\ RevisionOf(disk.durable) \in Nat /\ RevisionOf(current) \in Nat
            /\ RevisionOf(disk.visible) \in Nat
        BY <2>0, PacketFacts
      <4>2. /\ accepted <= RevisionOf(disk.durable)
            /\ RevisionOf(disk.durable) <= RevisionOf(disk.visible)
        BY <2>0, <4>1 DEF RegionOrdered
      <4> QED
        BY <3>1, <4>1, <4>2 DEF RegionOrdered, RevisionOf
    <3>3. Circulating' \subseteq Circulating
      BY <1>0, <3>1 DEF Circulating, primaryVars
    <3> QED
      BY <2>0, <3>1, <3>2, <3>3
  <2>5. CASE PowerLoss
    <3>1. /\ response' = None /\ failed' = FALSE /\ current' = disk.durable
          /\ disk' = [visible |-> disk.durable, durable |-> disk.durable]
          /\ accepted' = accepted
      BY <2>0, <2>5 DEF PowerLoss
    <3>2. RevisionOf(current') >= RevisionOf(disk.durable)
      BY <2>0, <3>1, PacketFacts DEF RegionOrdered
    <3>3. Circulating' \subseteq Circulating
      BY <1>0, <3>1 DEF Circulating, primaryVars
    <3> QED
      BY <2>0, <3>1, <3>2, <3>3, PacketFacts DEF RegionOrdered
  <2> QED
    BY <2>1, <2>2, <2>3, <2>4, <2>5
<1>2. TypeOK' /\ ClocksClose'
  BY <1>0, <1>1 DEF TypeOK, ClocksClose, primaryVars
<1>3. Faithful' /\ StreamLatest'
  BY <1>0, <1>1, NothingNew DEF primaryVars
<1> QED
  BY <1>0, <1>1, <1>2, <1>3, PrimaryStutter

\* a transaction that ends without its packet
LEMMA AbandonStep ==
  ASSUME Inv, NEW p \in Publishers, GiveUp(p) \/ RestartPublisher(p)
  PROVE  Inv'
<1> USE DEF Inv
<1>0. /\ UNCHANGED <<data, stream, doubts, clock, rclock, regionVars>>
      /\ tx' = [tx EXCEPT ![p] = NoTx] /\ lock' = (IF lock = p THEN None ELSE lock)
      /\ wire' = wire \/ wire' = [wire EXCEPT ![p] = stream]
  BY DEF GiveUp, RestartPublisher
<1>1. TypeOK'
  BY <1>0, StreamAssumption DEF TypeOK, regionVars, NoTx, MaybePacket
<1>2. Circulating' \subseteq Circulating
  BY <1>0 DEF TypeOK, Circulating, regionVars
<1>3. Faithful' /\ StreamLatest'
  BY <1>0, <1>2, NothingNew
<1>4. TransactionsSound'
  <2> SUFFICES ASSUME NEW q \in Publishers
               PROVE  BegunSound(q)' /\ BuiltSound(q)'
    BY DEF TransactionsSound
  <2>1. CASE q = p
    BY <1>0, <2>1 DEF TypeOK, NoTx, BegunSound, BuiltSound
  <2>2. CASE q # p
    <3>1. tx'[q] = tx[q] /\ (lock = q => lock' = q)
      BY <1>0, <2>2 DEF TypeOK
    <3> QED
      BY <1>0, <3>1 DEF TransactionsSound, BegunSound, BuiltSound, RowUnchanged, RevisionOf
  <2> QED
    BY <2>1, <2>2
<1>5. StreamPast' /\ RegionOrdered' /\ ClocksClose'
  BY <1>0 DEF StreamPast, RegionOrdered, ClocksClose, RevisionOf, regionVars
<1>6. RevisionsCounted'
  <2>1. (\A q \in Publishers : wire'[q] # stream) => \A q \in Publishers : wire[q] # stream
    BY <1>0 DEF TypeOK
  <2> QED
    BY <1>0, <2>1 DEF RevisionsCounted
<1> QED
  BY <1>1, <1>3, <1>4, <1>5, <1>6

LEMMA BeginStep ==
  ASSUME Inv, NEW p \in Publishers, BeginPublish(p)
  PROVE  Inv'
<1> USE DEF Inv
<1>0. /\ UNCHANGED <<data, stream, lock, wire, doubts, clock, rclock, regionVars>>
      /\ tx' = [tx EXCEPT ![p] = [phase |-> "begun", data |-> data, packet |-> stream]]
  BY DEF BeginPublish
<1>1. TypeOK'
  BY <1>0 DEF TypeOK, regionVars
<1>2. Circulating' = Circulating
  BY <1>0 DEF Circulating, regionVars
<1>3. Faithful' /\ StreamLatest'
  BY <1>0, <1>2, NothingNew
<1>4. StreamPast' /\ RevisionsCounted' /\ RegionOrdered' /\ ClocksClose'
  BY <1>0 DEF StreamPast, RevisionsCounted, RegionOrdered, ClocksClose, RevisionOf, regionVars
<1>5. RevisionOf(stream) <= data + clock + doubts
  <2>1. data \in Nat /\ clock \in Nat /\ doubts \in Nat /\ stream \in MaybePacket
    BY DEF TypeOK
  <2>2. CASE stream = None
    BY <2>1, <2>2 DEF RevisionOf
  <2>3. CASE stream # None
    <3>1. /\ stream.revision \in Nat /\ stream.data \in Nat /\ stream.issued \in Nat
          /\ RevisionOf(stream) = stream.revision
      BY <2>1, <2>3, PacketFacts, StreamAssumption DEF Revisions
    <3>2. stream.data <= data /\ stream.issued <= clock
      BY <2>3 DEF StreamPast
    <3>3. /\ stream.revision <= stream.data + stream.issued + 1 + doubts
          /\ (\A q \in Publishers : wire[q] # stream)
               => stream.revision <= stream.data + stream.issued + doubts
      BY <2>3 DEF RevisionsCounted
    <3>4. stream.data # data \/ stream.issued # clock \/ \A q \in Publishers : wire[q] # stream
      BY <2>3 DEF BeginPublish, Worthwhile
    <3> QED
      BY <2>1, <3>1, <3>2, <3>3, <3>4
  <2> QED
    BY <2>2, <2>3
<1>6. TransactionsSound'
  <2> SUFFICES ASSUME NEW q \in Publishers
               PROVE  BegunSound(q)' /\ BuiltSound(q)'
    BY DEF TransactionsSound
  <2>1. CASE q = p
    <3>1. tx'[q] = [phase |-> "begun", data |-> data, packet |-> stream]
      BY <1>0, <2>1 DEF TypeOK
    <3> QED
      BY <1>0, <1>5, <3>1, PacketFacts
      DEF TypeOK, BegunSound, BuiltSound, StreamPast, RowUnchanged, RevisionOf
  <2>2. CASE q # p
    <3>1. tx'[q] = tx[q]
      BY <1>0, <2>2 DEF TypeOK
    <3> QED
      BY <1>0, <3>1 DEF TransactionsSound, BegunSound, BuiltSound, RowUnchanged, RevisionOf
  <2> QED
    BY <2>1, <2>2
<1> QED
  BY <1>1, <1>3, <1>4, <1>6

LEMMA BuildStep ==
  ASSUME Inv, NEW p \in Publishers, Build(p)
  PROVE  Inv'
<1> USE DEF Inv
<1> DEFINE n == [revision |-> NextRevision, data |-> tx[p].data, issued |-> clock]
<1>0. /\ UNCHANGED <<data, stream, wire, doubts, clock, rclock, regionVars>>
      /\ tx[p].phase = "begun" /\ lock = None /\ lock' = p
      /\ tx' = [tx EXCEPT ![p].phase = "built", ![p].packet = n]
  BY DEF Build
<1>1. /\ data \in 0 .. MaxData /\ clock \in 0 .. Horizon /\ doubts \in 0 .. MaxDoubts
      /\ stream \in MaybePacket /\ tx[p].data \in 0 .. MaxData
  BY DEF TypeOK
<1>2. /\ RevisionOf(stream) <= tx[p].data + clock + doubts /\ tx[p].data <= data
      /\ stream # None => stream.data <= tx[p].data
  BY <1>0 DEF Build, TransactionsSound, BegunSound
<1>3. NextRevision \in Revisions
  BY <1>1, <1>2, PacketFacts, StreamAssumption DEF NextRevision, Revisions
<1>4. n \in Packets /\ n # None
  BY <1>1, <1>3, NoneAssumption DEF Packets
<1>5. tx'[p].phase = "built" /\ tx'[p].packet = n
  BY <1>0 DEF TypeOK
<1>6. TypeOK'
  <2>1. tx' \in [Publishers -> [phase : {"none", "begun", "built"}, data : 0 .. MaxData,
                                packet : MaybePacket]]
    <3>1. n \in MaybePacket
      BY <1>4 DEF MaybePacket
    <3>2. tx \in [Publishers -> [phase : {"none", "begun", "built"}, data : 0 .. MaxData,
                                 packet : MaybePacket]]
      BY DEF TypeOK
    <3> HIDE DEF n, Inv
    <3> QED
      BY <1>0, <3>1, <3>2
  <2> QED
    BY <1>0, <2>1 DEF TypeOK, regionVars
<1>7. Faithful' /\ StreamLatest'
  <2>1. Circulating' = Circulating
    BY <1>0 DEF Circulating, regionVars
  <2> QED
    BY <1>0, <2>1, NothingNew
<1>8. StreamPast' /\ RevisionsCounted' /\ RegionOrdered' /\ ClocksClose'
  BY <1>0 DEF StreamPast, RevisionsCounted, RegionOrdered, ClocksClose, RevisionOf, regionVars
<1>9. TransactionsSound'
  <2> SUFFICES ASSUME NEW q \in Publishers
               PROVE  BegunSound(q)' /\ BuiltSound(q)'
    BY DEF TransactionsSound
  <2>1. CASE q = p
    <3>1. /\ n.revision = RevisionOf(stream) + 1 /\ n.data = tx[p].data /\ n.issued = clock
          /\ RevisionOf(stream) \in Nat
      BY <1>1, PacketFacts DEF NextRevision
    <3> HIDE DEF n
    <3>2. BuiltSound(q)'
      BY <1>0, <1>1, <1>2, <1>4, <1>5, <2>1, <3>1 DEF BuiltSound, RevisionOf
    <3>3. BegunSound(q)'
      BY <1>5, <2>1 DEF BegunSound
    <3> QED
      BY <3>2, <3>3
  <2>2. CASE q # p
    <3>1. tx'[q] = tx[q] /\ tx[q].phase # "built"
      BY <1>0, <2>2, NoneAssumption DEF TypeOK, TransactionsSound, BuiltSound
    <3> QED
      BY <1>0, <3>1 DEF TransactionsSound, BegunSound, BuiltSound, RowUnchanged, RevisionOf
  <2> QED
    BY <2>1, <2>2
<1> QED
  BY <1>6, <1>7, <1>8, <1>9

\* A commit, acknowledged or not, by which the packet becomes the stream's row.
LEMMA LandingStep ==
  ASSUME Inv, NEW p \in Publishers, tx[p].phase = "built", Ended(p), stream' = tx[p].packet,
         \/ wire' = [wire EXCEPT ![p] = tx[p].packet] /\ doubts' = doubts
         \/ wire' = wire /\ doubts' = doubts + 1 /\ doubts < MaxDoubts,
         UNCHANGED <<data, clock, rclock, regionVars>>
  PROVE  Inv'
<1> USE DEF Inv
<1> DEFINE n == tx[p].packet
<1>0. /\ lock = p /\ n # None /\ n.revision = RevisionOf(stream) + 1
      /\ n.data <= data /\ n.issued <= clock
      /\ stream # None => stream.data <= n.data
      /\ n.revision <= n.data + n.issued + 1 + doubts
  BY DEF TransactionsSound, BuiltSound
<1>1. /\ n \in Packets /\ n \in MaybePacket /\ stream \in MaybePacket
      /\ n.revision \in Nat /\ n.data \in Nat /\ n.issued \in Nat /\ RevisionOf(n) = n.revision
  <2>1. n \in MaybePacket /\ stream \in MaybePacket
    BY DEF TypeOK
  <2> QED
    BY <1>0, <2>1, PacketFacts, StreamAssumption DEF Revisions
<1>2. lock' = None /\ tx' = [tx EXCEPT ![p] = NoTx]
  BY DEF Ended
<1> HIDE DEF n
<1>3. TypeOK'
  <2>1. tx' \in [Publishers -> [phase : {"none", "begun", "built"}, data : 0 .. MaxData,
                                packet : MaybePacket]]
    BY <1>2, StreamAssumption DEF TypeOK, NoTx, MaybePacket
  <2>2. wire' \in [Publishers -> MaybePacket] /\ doubts' \in 0 .. MaxDoubts /\ stream' \in MaybePacket
    BY <1>1, StreamAssumption DEF TypeOK, n
  <2> QED
    BY <1>2, <2>1, <2>2 DEF TypeOK, regionVars
<1>4. Faithful' /\ StreamLatest'
  <2>1. Circulating' \subseteq Circulating \cup {n}
    BY DEF TypeOK, Circulating, regionVars, n
  <2> QED
    BY <1>0, <1>1, <2>1, LandingFaithful DEF n
<1>5. TransactionsSound'
  <2> SUFFICES ASSUME NEW q \in Publishers
               PROVE  BegunSound(q)' /\ BuiltSound(q)'
    BY DEF TransactionsSound
  <2>1. CASE q = p
    BY <1>2, <2>1 DEF TypeOK, NoTx, BegunSound, BuiltSound
  <2>2. CASE q # p
    <3>1. /\ tx'[q] = tx[q] /\ tx[q].phase # "built"
          /\ tx[q].packet \in MaybePacket
      BY <1>0, <1>2, <2>2 DEF TypeOK, TransactionsSound, BuiltSound
    <3>2. ASSUME tx[q].phase = "begun"
          PROVE  /\ RevisionOf(tx[q].packet) < RevisionOf(n) /\ tx[q].data <= data
                 /\ tx[q].packet # n
      BY <1>0, <1>1, <3>1, <3>2, PacketFacts DEF TransactionsSound, BegunSound
    <3>3. BegunSound(q)'
      BY <1>1, <3>1, <3>2, PacketFacts DEF BegunSound, RowUnchanged, n
    <3> QED
      BY <3>1, <3>3 DEF BuiltSound
  <2> QED
    BY <2>1, <2>2
<1>6. StreamPast' /\ RevisionsCounted'
  <2>1. StreamPast'
    BY <1>0 DEF StreamPast, n
  <2>2. CASE wire' = [wire EXCEPT ![p] = n] /\ doubts' = doubts
    <3>1. wire'[p] = stream'
      BY <2>2 DEF TypeOK, n
    <3> QED
      BY <1>0, <1>1, <2>1, <2>2, <3>1 DEF RevisionsCounted, n
  <2>3. CASE doubts' = doubts + 1
    <3>1. doubts \in Nat
      BY DEF TypeOK
    <3> QED
      BY <1>0, <1>1, <2>1, <2>3, <3>1 DEF RevisionsCounted, n
  <2> QED
    BY <2>2, <2>3 DEF n
<1>7. RegionOrdered' /\ ClocksClose'
  BY DEF RegionOrdered, ClocksClose, RevisionOf, regionVars
<1> QED
  BY <1>3, <1>4, <1>5, <1>6, <1>7

LEMMA CommitStep ==
  ASSUME Inv, NEW p \in Publishers, Commit(p)
  PROVE  Inv'
BY LandingStep DEF Commit

LEMMA DoubtStep ==
  ASSUME Inv, NEW p \in Publishers, CommitInDoubt(p)
  PROVE  Inv'
<1> USE DEF Inv
<1>1. CASE stream' = tx[p].packet
  BY <1>1, LandingStep DEF CommitInDoubt, NotAdopted
<1>2. CASE stream' = stream
  <2>0. /\ tx[p].phase = "built" /\ doubts < MaxDoubts /\ doubts' = doubts + 1
        /\ lock' = None /\ tx' = [tx EXCEPT ![p] = NoTx]
        /\ UNCHANGED <<data, stream, wire, clock, rclock, regionVars>>
    BY <1>2 DEF CommitInDoubt, Ended, NotAdopted
  <2>1. /\ doubts \in Nat /\ data \in Nat /\ clock \in Nat /\ stream \in MaybePacket
        /\ doubts' \in 0 .. MaxDoubts /\ RevisionOf(stream) \in Nat
    BY <2>0, PacketFacts, StreamAssumption DEF TypeOK
  <2>2. TypeOK'
    <3>1. tx' \in [Publishers -> [phase : {"none", "begun", "built"}, data : 0 .. MaxData,
                                  packet : MaybePacket]]
      BY <2>0, StreamAssumption DEF TypeOK, NoTx, MaybePacket
    <3> QED
      BY <2>0, <2>1, <3>1 DEF TypeOK, regionVars
  <2>3. Faithful' /\ StreamLatest'
    <3>1. Circulating' = Circulating
      BY <2>0 DEF Circulating, regionVars
    <3> QED
      BY <2>0, <3>1, NothingNew
  <2>4. StreamPast' /\ RegionOrdered' /\ ClocksClose'
    BY <2>0 DEF StreamPast, RegionOrdered, ClocksClose, RevisionOf, regionVars
  <2>5. RevisionsCounted'
    <3>1. CASE stream # None
      BY <2>0, <2>1, <3>1, PacketFacts, StreamAssumption DEF RevisionsCounted, Revisions
    <3> QED
      BY <2>0, <3>1 DEF RevisionsCounted
  <2>6. TransactionsSound'
    <3> SUFFICES ASSUME NEW q \in Publishers
                 PROVE  BegunSound(q)' /\ BuiltSound(q)'
      BY DEF TransactionsSound
    <3>1. CASE q = p
      BY <2>0, <3>1 DEF TypeOK, NoTx, BegunSound, BuiltSound
    <3>2. CASE q # p
      <4>1. tx'[q] = tx[q] /\ tx[q].phase # "built" /\ tx[q].data \in Nat
        BY <2>0, <3>2 DEF TypeOK, TransactionsSound, BuiltSound
      <4>2. BegunSound(q)'
        BY <2>0, <2>1, <4>1 DEF TransactionsSound, BegunSound, RowUnchanged, RevisionOf
      <4> QED
        BY <4>1, <4>2 DEF BuiltSound
    <3> QED
      BY <3>1, <3>2
  <2> QED
    BY <2>2, <2>3, <2>4, <2>5, <2>6
<1> QED
  BY <1>1, <1>2 DEF CommitInDoubt

LEMMA NextInv == Inv /\ [Next]_vars => Inv'
<1> SUFFICES ASSUME Inv, [Next]_vars PROVE Inv'
  OBVIOUS
<1>1. CASE Tick \/ RegionTick \/ Change
  BY <1>1, PassiveStep
<1>2. CASE LoseResponse \/ Accept \/ WriteFails \/ Refuse \/ Restart \/ PowerLoss
  BY <1>2, RegionStep
<1>3. ASSUME NEW p \in Publishers,
             Publish(p) \/ GiveUp(p) \/ CommitInDoubt(p) \/ RestartPublisher(p) \/ Fetch(p)
      PROVE  Inv'
  BY <1>3, BeginStep, BuildStep, CommitStep, AbandonStep, DoubtStep, RegionStep DEF Publish
<1>4. CASE UNCHANGED vars
  <2>1. UNCHANGED <<primaryVars, clock, rclock, regionVars>>
    BY <1>4 DEF vars
  <2>2. Circulating' = Circulating
    BY <2>1 DEF Circulating, primaryVars, regionVars
  <2> QED
    BY <2>1, <2>2, NothingNew, PrimaryStutter
    DEF Inv, TypeOK, RegionOrdered, ClocksClose, RevisionOf, primaryVars, regionVars
<1> QED
  BY <1>1, <1>2, <1>3, <1>4 DEF Next

-----------------------------------------------------------------------------
(* The results. *)

\* The invariant holds in every state of the stream.
THEOREM Invariance == Spec => []Inv
<1>1. Init => Inv
  BY InitInv
<1>2. Inv /\ [Next]_vars => Inv'
  BY NextInv
<1> QED
  BY <1>1, <1>2, PTL DEF Spec

\* No revision is ever signed with two contents and no later revision exports
\* older data, for any number of competing publishers (regionalAuthAuthority.Publish).
THEOREM RevisionsAreFaithful == Spec => []RevisionsFaithful
<1>1. Inv => RevisionsFaithful
  BY DEF Inv, Faithful, RevisionsFaithful
<1> QED
  BY <1>1, Invariance, PTL

\* A region answers from no view older than the policy's age and skew
\* (Replica.Current).
THEOREM ViewsAreServedInTime == Spec => []ServedInTime
<1>1. Inv => ServedInTime
  <2> SUFFICES ASSUME Inv, Servable
               PROVE  clock < current.issued + MaxAge + Skew
    BY DEF ServedInTime
  <2>1. current # None /\ rclock < current.issued + MaxAge /\ clock <= rclock + Skew
    BY DEF Servable, Valid, Inv, ClocksClose
  <2>2. current.issued \in Nat /\ rclock \in Nat /\ clock \in Nat
    BY <2>1, PacketFacts, StreamAssumption DEF Inv, TypeOK
  <2> QED
    BY <2>1, <2>2, StreamAssumption
<1> QED
  BY <1>1, Invariance, PTL

\* The view a region answers from never goes back behind an accepted revision,
\* and back at all only by a power loss that finds a rename no sync followed
\* (Replica.Accept, writeAtomic, OpenReplica).
THEOREM ViewsNeverRegress == Spec => ViewNeverRegresses
<1> DEFINE Kept == /\ RevisionOf(current') >= accepted
                   /\ \/ RevisionOf(current') >= RevisionOf(current)
                      \/ PowerLoss /\ disk.durable # disk.visible
<1>1. Inv /\ [Next]_vars => [Kept]_vars
  <2> SUFFICES ASSUME Inv, Next
               PROVE  Kept
    OBVIOUS
  <2>1. /\ current \in MaybePacket /\ response \in MaybePacket /\ accepted \in Nat
        /\ disk.visible \in MaybePacket /\ disk.durable \in MaybePacket
    BY DEF Inv, TypeOK, Revisions
  <2>2. \/ current' = current \/ current' = disk.visible
        \/ current' = disk.durable /\ PowerLoss
        \/ current' = response /\ Acceptable(response)
    BY DEF Next, Tick, RegionTick, Change, Publish, BeginPublish, Build, Commit, GiveUp, CommitInDoubt,
           RestartPublisher, Fetch, LoseResponse, Accept, WriteFails, NotTaken, Refuse, Restart,
           PowerLoss, regionVars
  <2>3. /\ accepted <= RevisionOf(disk.durable)
        /\ RevisionOf(disk.durable) <= RevisionOf(current)
        /\ RevisionOf(current) <= RevisionOf(disk.visible)
    BY DEF Inv, RegionOrdered
  <2>4. Acceptable(response) => RevisionOf(response) > RevisionOf(current)
    BY <2>1, PacketFacts DEF Acceptable, Advances
  <2> QED
    BY <2>1, <2>2, <2>3, <2>4, PacketFacts
<1> QED
  BY <1>1, Invariance, PTL DEF Spec, ViewNeverRegresses
=============================================================================
