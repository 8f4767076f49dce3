----------------------- MODULE ScenarioRecordsProofs -----------------------
(***************************************************************************)
(* What one call of the protocol preserves, for every set of bodies and    *)
(* owners and every retention.                                             *)
(***************************************************************************)
EXTENDS ScenarioRecords, TLAPS

LEMMA EmptyStateSound == StateType(EmptyState) /\ Sound(EmptyState)
  BY DEF EmptyState, StateType, Sound, IdsBelowNext, LineageSound

\* AppendVersion changes one record and lengthens one history.
LEMMA AppendVersionState ==
  ASSUME NEW st, StateType(st), Sound(st),
         NEW i \in DOMAIN st.records,
         NEW rec \in Record,
         rec.id = i
  PROVE  LET new == AppendVersion(st, rec)
             h == st.history[i]
         IN  /\ new = [next_id |-> st.next_id, records |-> new.records,
                       history |-> new.history]
             /\ DOMAIN new.records = DOMAIN st.records
             /\ new.records \in [DOMAIN st.records -> Record]
             /\ new.records[i] = rec
             /\ \A j \in DOMAIN st.records : j # i => new.records[j] = st.records[j]
             /\ DOMAIN new.history = DOMAIN st.history
             /\ new.history \in [DOMAIN st.history -> Seq(Record)]
             /\ new.history[i] = Append(h, rec)
             /\ \A j \in DOMAIN st.history : j # i => new.history[j] = st.history[j]
             /\ i \in DOMAIN st.history
             /\ h \in Seq(Record)
             /\ Append(h, rec) \in Seq(Record)
             /\ Len(Append(h, rec)) = Len(h) + 1
             /\ Append(h, rec)[Len(h) + 1] = rec
             /\ \A k \in 1 .. Len(h) : Append(h, rec)[k] = h[k]
<1> DEFINE new == AppendVersion(st, rec)
           h == st.history[i]
<1>1. i \in DOMAIN st.history /\ h \in Seq(Record) /\ i \in Nat \ {0}
  BY DEF StateType, Sound, LineageSound
<1>2. HistoryOf(st, i) = h
  BY <1>1 DEF HistoryOf
<1>3. Append(h, rec) \in Seq(Record) /\ Len(Append(h, rec)) = Len(h) + 1
      /\ Append(h, rec)[Len(h) + 1] = rec
      /\ \A k \in 1 .. Len(h) : Append(h, rec)[k] = h[k]
  BY <1>1
<1>4. /\ new = [next_id |-> st.next_id,
                records |-> Put(st.records, i, rec),
                history |-> Put(st.history, i, Append(h, rec))]
  BY <1>2 DEF AppendVersion, StateType
<1>5. /\ DOMAIN new.records = DOMAIN st.records
      /\ new.records \in [DOMAIN st.records -> Record]
      /\ new.records[i] = rec
      /\ \A j \in DOMAIN st.records : j # i => new.records[j] = st.records[j]
  <2>1. st.records \in [DOMAIN st.records -> Record]
    BY DEF StateType
  <2>2. DOMAIN st.records \cup {i} = DOMAIN st.records
    OBVIOUS
  <2>3. new.records = Put(st.records, i, rec)
    BY <1>4
  <2>4. /\ Put(st.records, i, rec) \in [DOMAIN st.records -> Record]
        /\ Put(st.records, i, rec)[i] = rec
        /\ \A j \in DOMAIN st.records : j # i => Put(st.records, i, rec)[j] = st.records[j]
    BY <2>1, <2>2 DEF Put
  <2> QED BY <2>3, <2>4
<1>6. /\ DOMAIN new.history = DOMAIN st.history
      /\ new.history \in [DOMAIN st.history -> Seq(Record)]
      /\ new.history[i] = Append(h, rec)
      /\ \A j \in DOMAIN st.history : j # i => new.history[j] = st.history[j]
  <2>1. st.history \in [DOMAIN st.history -> Seq(Record)]
    BY DEF StateType
  <2>2. DOMAIN st.history \cup {i} = DOMAIN st.history
    BY <1>1
  <2>3. new.history = Put(st.history, i, Append(h, rec))
    BY <1>4
  <2>4. /\ Put(st.history, i, Append(h, rec)) \in [DOMAIN st.history -> Seq(Record)]
        /\ Put(st.history, i, Append(h, rec))[i] = Append(h, rec)
        /\ \A j \in DOMAIN st.history :
             j # i => Put(st.history, i, Append(h, rec))[j] = st.history[j]
    BY <1>3, <2>1, <2>2 DEF Put
  <2> QED BY <2>3, <2>4
<1> QED BY <1>1, <1>3, <1>4, <1>5, <1>6

(***************************************************************************)
(* Two kinds of outcome: one more version of a scenario, and a mark on     *)
(* its current version.                                                    *)
(***************************************************************************)
SameLineage(st, i, rec) ==
  /\ rec \in Record
  /\ rec.id = i
  /\ rec.owner = st.records[i].owner
  /\ rec.created = st.records[i].created
VersionAdded(st, i, o) ==
  \E rec : /\ SameLineage(st, i, rec)
           /\ rec.version = st.records[i].version + 1
           /\ o = Done(AppendVersion(st, rec), {rec})
MarkSet(st, i, o) ==
  \E rec : /\ SameLineage(st, i, rec)
           /\ rec.version = st.records[i].version
           /\ \/ o = Done(SetCurrent(st, rec), {})
              \/ o = Done(SetCurrent(st, rec), {rec})

\* A version appended to a sound state continues the lineage.
LEMMA AppendVersionSound ==
  ASSUME NEW st, StateType(st), Sound(st),
         NEW i \in DOMAIN st.records,
         NEW rec \in Record,
         rec.id = i,
         rec.version = st.records[i].version + 1,
         rec.owner = st.records[i].owner,
         rec.created = st.records[i].created
  PROVE  StateType(AppendVersion(st, rec)) /\ Sound(AppendVersion(st, rec))
<1> DEFINE new == AppendVersion(st, rec)
           h == st.history[i]
<1>1. i \in DOMAIN st.history /\ h \in Seq(Record) /\ i \in Nat \ {0}
  BY DEF StateType, Sound, LineageSound
<1>3. Append(h, rec) \in Seq(Record) /\ Len(Append(h, rec)) = Len(h) + 1
      /\ Append(h, rec)[Len(h) + 1] = rec
      /\ \A k \in 1 .. Len(h) : Append(h, rec)[k] = h[k]
  BY <1>1
<1>4. new = [next_id |-> st.next_id, records |-> new.records, history |-> new.history]
  BY AppendVersionState
<1>5. /\ DOMAIN new.records = DOMAIN st.records
      /\ new.records \in [DOMAIN st.records -> Record]
      /\ new.records[i] = rec
      /\ \A j \in DOMAIN st.records : j # i => new.records[j] = st.records[j]
  BY AppendVersionState
<1>6. /\ DOMAIN new.history = DOMAIN st.history
      /\ new.history \in [DOMAIN st.history -> Seq(Record)]
      /\ new.history[i] = Append(h, rec)
      /\ \A j \in DOMAIN st.history : j # i => new.history[j] = st.history[j]
  BY AppendVersionState
<1>7. new.next_id = st.next_id
  BY <1>4
<1>8. StateType(new)
  BY <1>4, <1>5, <1>6, <1>7 DEF StateType
<1>9. IdsBelowNext(new)
  BY <1>5, <1>7 DEF IdsBelowNext, Sound
<1>10. ASSUME NEW j \in DOMAIN new.records
       PROVE  RecordSound(new, j)
  <2>0. RecordSound(st, j) /\ RecordSound(st, i)
    BY <1>5 DEF Sound, LineageSound
  <2>1. CASE j # i
    <3>1. /\ new.records[j] = st.records[j]
          /\ new.history[j] = st.history[j]
          /\ (j \in DOMAIN new.history) = (j \in DOMAIN st.history)
      BY <2>1, <1>1, <1>5, <1>6 DEF Sound, LineageSound
    <3> HIDE DEF new
    <3> QED BY <2>0, <3>1 DEF RecordSound
  <2>2. CASE j = i
    <3>1. Len(h) \in Nat /\ rec.version = Len(h) + 1
      BY <1>1, <2>0 DEF RecordSound
    <3>2. Append(h, rec) # <<>>
      BY <1>3, <3>1
    <3>3. \A k \in 1 .. Len(h) + 1 :
            /\ Append(h, rec)[k].id = i
            /\ Append(h, rec)[k].version = k
            /\ Append(h, rec)[k].owner = rec.owner
            /\ Append(h, rec)[k].created = rec.created
      <4>1. TAKE k \in 1 .. Len(h) + 1
      <4>2. CASE k = Len(h) + 1
        BY <1>3, <3>1, <4>2
      <4>3. CASE k \in 1 .. Len(h)
        BY <1>3, <2>0, <4>3 DEF RecordSound
      <4> QED BY <3>1, <4>2, <4>3
    <3> QED BY <2>2, <1>3, <1>5, <1>6, <3>1, <3>2, <3>3 DEF RecordSound
  <2> QED BY <2>1, <2>2
<1> QED BY <1>5, <1>6, <1>8, <1>9, <1>10 DEF Sound, LineageSound

\* A current record that only changes its deletion mark and its time.
LEMMA SetCurrentSound ==
  ASSUME NEW st, StateType(st), Sound(st),
         NEW i \in DOMAIN st.records,
         NEW rec \in Record,
         rec.id = i,
         rec.version = st.records[i].version,
         rec.owner = st.records[i].owner,
         rec.created = st.records[i].created
  PROVE  StateType(SetCurrent(st, rec)) /\ Sound(SetCurrent(st, rec))
<1> DEFINE new == SetCurrent(st, rec)
<1>1. new = [next_id |-> st.next_id,
             records |-> Put(st.records, i, rec),
             history |-> st.history]
  BY DEF SetCurrent
<1>2. st.records \in [DOMAIN st.records -> Record] /\ DOMAIN st.records \cup {i} = DOMAIN st.records
  BY DEF StateType
<1>3. /\ Put(st.records, i, rec) \in [DOMAIN st.records -> Record]
      /\ Put(st.records, i, rec)[i] = rec
      /\ \A j \in DOMAIN st.records : j # i => Put(st.records, i, rec)[j] = st.records[j]
  BY <1>2 DEF Put
<1>4. /\ DOMAIN new.records = DOMAIN st.records
      /\ new.records[i] = rec
      /\ \A j \in DOMAIN st.records : j # i => new.records[j] = st.records[j]
      /\ new.history = st.history
      /\ new.next_id = st.next_id
  BY <1>1, <1>3
<1>5. StateType(new)
  BY <1>1, <1>3, <1>4 DEF StateType
<1>6. IdsBelowNext(new)
  BY <1>4 DEF IdsBelowNext, Sound
<1>7. ASSUME NEW j \in DOMAIN new.records
      PROVE  RecordSound(new, j)
  <2>1. RecordSound(st, j)
    BY <1>4 DEF Sound, LineageSound
  <2>2. CASE j = i
    BY <1>4, <2>1, <2>2 DEF RecordSound
  <2>3. CASE j # i
    BY <1>4, <2>1, <2>3 DEF RecordSound
  <2> QED BY <2>2, <2>3
<1> QED BY <1>4, <1>5, <1>6, <1>7 DEF Sound, LineageSound

\* A new scenario adds one record and one history of one version.
LEMMA SaveNewState ==
  ASSUME NEW st, StateType(st), NEW req \in Request
  PROVE  LET i == st.next_id
             rec == FirstVersion(st, req)
             new == SaveNew(st, req).state
         IN  /\ rec \in Record /\ rec.id = i /\ rec.version = 1
             /\ SaveNew(st, req).value = {rec} /\ SaveNew(st, req).status = "ok"
             /\ new = [next_id |-> i + 1, records |-> new.records, history |-> new.history]
             /\ DOMAIN new.records = DOMAIN st.records \cup {i}
             /\ new.records \in [DOMAIN st.records \cup {i} -> Record]
             /\ new.records[i] = rec
             /\ \A j \in DOMAIN st.records : j # i => new.records[j] = st.records[j]
             /\ DOMAIN new.history = DOMAIN st.history \cup {i}
             /\ new.history \in [DOMAIN st.history \cup {i} -> Seq(Record)]
             /\ new.history[i] = <<rec>>
             /\ \A j \in DOMAIN st.history : j # i => new.history[j] = st.history[j]
<1> DEFINE i == st.next_id
           rec == FirstVersion(st, req)
           new == SaveNew(st, req).state
<1>1. i \in Nat \ {0} /\ rec \in Record /\ rec.id = i /\ rec.version = 1
  BY DEF StateType, Record, Request, FirstVersion
<1>2. /\ SaveNew(st, req).value = {rec} /\ SaveNew(st, req).status = "ok"
      /\ new = [next_id |-> i + 1,
                records |-> Put(st.records, i, rec),
                history |-> Put(st.history, i, <<rec>>)]
  BY <1>1 DEF SaveNew, Done
<1>3. /\ DOMAIN Put(st.records, i, rec) = DOMAIN st.records \cup {i}
      /\ Put(st.records, i, rec) \in [DOMAIN st.records \cup {i} -> Record]
      /\ Put(st.records, i, rec)[i] = rec
      /\ \A j \in DOMAIN st.records : j # i => Put(st.records, i, rec)[j] = st.records[j]
  BY <1>1 DEF Put, StateType
<1>4. /\ DOMAIN Put(st.history, i, <<rec>>) = DOMAIN st.history \cup {i}
      /\ Put(st.history, i, <<rec>>) \in [DOMAIN st.history \cup {i} -> Seq(Record)]
      /\ Put(st.history, i, <<rec>>)[i] = <<rec>>
      /\ \A j \in DOMAIN st.history : j # i => Put(st.history, i, <<rec>>)[j] = st.history[j]
  <2>1. <<rec>> \in Seq(Record)
    BY <1>1
  <2> QED BY <1>1, <2>1 DEF Put, StateType
<1>5. /\ new.records = Put(st.records, i, rec)
      /\ new.history = Put(st.history, i, <<rec>>)
      /\ new = [next_id |-> i + 1, records |-> new.records, history |-> new.history]
  BY <1>2
<1> QED BY <1>1, <1>2, <1>3, <1>4, <1>5

\* A new scenario gets an id nobody uses.
LEMMA SaveNewSound ==
  ASSUME NEW st, StateType(st), Sound(st), NEW req \in Request
  PROVE  /\ StateType(SaveNew(st, req).state)
         /\ Sound(SaveNew(st, req).state)
         /\ SaveNew(st, req).value \subseteq Record
         /\ SaveNew(st, req).status = "ok"
<1> DEFINE i == st.next_id
           rec == FirstVersion(st, req)
           new == SaveNew(st, req).state
<1>0. i \in Nat \ {0} /\ i + 1 \in Nat \ {0}
  BY DEF StateType
<1>1. /\ rec \in Record /\ rec.id = i /\ rec.version = 1
      /\ SaveNew(st, req).value = {rec} /\ SaveNew(st, req).status = "ok"
  BY SaveNewState
<1>2. /\ new = [next_id |-> i + 1, records |-> new.records, history |-> new.history]
      /\ DOMAIN new.records = DOMAIN st.records \cup {i}
      /\ new.records \in [DOMAIN st.records \cup {i} -> Record]
      /\ new.records[i] = rec
      /\ \A j \in DOMAIN st.records : j # i => new.records[j] = st.records[j]
      /\ DOMAIN new.history = DOMAIN st.history \cup {i}
      /\ new.history \in [DOMAIN st.history \cup {i} -> Seq(Record)]
      /\ new.history[i] = <<rec>>
      /\ \A j \in DOMAIN st.history : j # i => new.history[j] = st.history[j]
  BY SaveNewState
<1> HIDE DEF new, rec
<1>3. new.next_id = i + 1
  BY <1>2
<1>4. StateType(new)
  <2>1. DOMAIN new.records \subseteq Nat \ {0} /\ DOMAIN new.history \subseteq Nat \ {0}
    BY <1>0, <1>2 DEF StateType
  <2> QED BY <1>0, <1>2, <1>3, <2>1 DEF StateType
<1>5. IdsBelowNext(new)
  <2>1. SUFFICES ASSUME NEW j \in DOMAIN new.records
                PROVE  j < i + 1 /\ new.records[j].id < i + 1
    BY <1>3 DEF IdsBelowNext
  <2>2. CASE j = i
    BY <1>0, <1>1, <1>2, <2>2
  <2>3. CASE j # i
    <3>1. j \in DOMAIN st.records /\ new.records[j] = st.records[j]
      BY <1>2, <2>3
    <3>2. j < i /\ st.records[j].id < i /\ j \in Nat /\ st.records[j].id \in Nat
      BY <3>1 DEF IdsBelowNext, Sound, StateType, Record
    <3> QED BY <1>0, <3>1, <3>2
  <2> QED BY <2>2, <2>3
<1>6. ASSUME NEW j \in DOMAIN new.records
      PROVE  RecordSound(new, j)
  <2>1. CASE j = i
    <3>1. <<rec>> # <<>> /\ Len(<<rec>>) = 1 /\ <<rec>>[1] = rec
      OBVIOUS
    <3>2. \A k \in 1 .. Len(<<rec>>) : k = 1 /\ <<rec>>[k] = rec
      BY <3>1
    <3> QED BY <1>1, <1>2, <2>1, <3>1, <3>2 DEF RecordSound
  <2>2. CASE j # i
    <3>1. j \in DOMAIN st.records /\ j \in DOMAIN st.history /\ RecordSound(st, j)
      BY <1>2, <2>2 DEF Sound, LineageSound
    <3>2. new.records[j] = st.records[j] /\ new.history[j] = st.history[j]
      BY <1>2, <2>2, <3>1
    <3> QED BY <3>1, <3>2 DEF RecordSound
  <2> QED BY <2>1, <2>2
<1>7. DOMAIN new.history = DOMAIN new.records
  BY <1>2 DEF Sound, LineageSound
<1>8. Sound(new)
  BY <1>5, <1>6, <1>7 DEF Sound, LineageSound
<1> QED BY <1>1, <1>4, <1>8 DEF new

\* save of a known scenario files one new version of it.
LEMMA SaveExistingAppends ==
  ASSUME NEW st, StateType(st), Sound(st), NEW req \in Request,
         req.id \in DOMAIN st.records
  PROVE  VersionAdded(st, req.id, SaveExisting(st, req))
<1> DEFINE old == st.records[req.id]
           rec == Revised(old, req.body, old.version + 1, req.now, old.deleted)
<1>1. old \in Record /\ old.id = req.id
  BY DEF StateType, Sound, LineageSound, RecordSound
<1>2. /\ rec \in Record /\ rec.id = req.id
      /\ rec.version = old.version + 1
      /\ rec.owner = old.owner /\ rec.created = old.created
  <2>1. /\ req.body \in Bodies /\ req.now \in Nat /\ old.version + 1 \in Nat
        /\ old.deleted \in Nat \cup {NotDeleted}
    BY <1>1 DEF Record, Request
  <2> HIDE DEF old
  <2> QED BY <1>1, <2>1 DEF Revised, Record
<1>3. SaveExisting(st, req) = Done(AppendVersion(st, rec), {rec})
  BY DEF SaveExisting
<1> HIDE DEF rec
<1> QED BY <1>2, <1>3 DEF VersionAdded, SameLineage

\* So does restore_version.
LEMMA RestoreVersionAppends ==
  ASSUME NEW st, StateType(st), Sound(st), NEW req \in Request,
         req.id \in DOMAIN st.records, HasVersion(st, req.id, req.version)
  PROVE  VersionAdded(st, req.id, RestoreVersion(st, req))
<1> DEFINE h == st.history[req.id]
           k == CHOOSE i \in DOMAIN h :
                  /\ h[i].version = req.version
                  /\ \A j \in DOMAIN h : h[j].version = req.version => i <= j
           rec == Revised(h[k], h[k].body, st.records[req.id].version + 1, req.now,
                          NotDeleted)
<1>1. /\ req.id \in DOMAIN st.history
      /\ h \in Seq(Record)
      /\ DOMAIN h = 1 .. Len(h)
      /\ RecordSound(st, req.id)
      /\ st.records[req.id] \in Record
  BY DEF StateType, Sound, LineageSound
<1>2. \E i \in DOMAIN h : h[i].version = req.version
  BY <1>1 DEF HasVersion, HistoryOf
<1>3. \A i, j \in DOMAIN h : h[i].version = req.version /\ h[j].version = req.version => i = j
  BY <1>1 DEF RecordSound
<1>4. k \in DOMAIN h
  <2>1. \E i \in DOMAIN h :
          /\ h[i].version = req.version
          /\ \A j \in DOMAIN h : h[j].version = req.version => i <= j
    <3>1. PICK i \in DOMAIN h : h[i].version = req.version
      BY <1>2
    <3>2. \A j \in DOMAIN h : h[j].version = req.version => i <= j
      <4>1. i <= i
        BY <1>1
      <4> QED BY <1>3, <3>1, <4>1
    <3> QED BY <3>1, <3>2
  <2> QED BY <2>1
<1>5. /\ h[k] \in Record /\ h[k].id = req.id
      /\ h[k].owner = st.records[req.id].owner
      /\ h[k].created = st.records[req.id].created
  <2> HIDE DEF k
  <2> QED BY <1>1, <1>4 DEF RecordSound
<1>6. /\ rec \in Record /\ rec.id = req.id
      /\ rec.version = st.records[req.id].version + 1
      /\ rec.owner = st.records[req.id].owner
      /\ rec.created = st.records[req.id].created
  <2>1. req.now \in Nat
    BY DEF Request
  <2>2. st.records[req.id].version + 1 \in Nat
    BY <1>1 DEF Record
  <2>3. h[k].body \in Bodies
    <3> HIDE DEF k, h
    <3> QED BY <1>5 DEF Record
  <2> HIDE DEF k
  <2> QED BY <1>5, <2>1, <2>2, <2>3 DEF Revised, Record
<1>7. RestoreVersion(st, req) = Done(AppendVersion(st, rec), {rec})
  BY DEF RestoreVersion
<1> HIDE DEF rec
<1> QED BY <1>6, <1>7 DEF VersionAdded, SameLineage

\* soft_delete and restore only mark the current record.
LEMMA DeletionMarks ==
  ASSUME NEW st, StateType(st), Sound(st), NEW req \in Request, NEW clock \in Nat,
         req.id \in DOMAIN st.records
  PROVE  /\ MarkSet(st, req.id, SoftDelete(st, req, clock))
         /\ MarkSet(st, req.id, Restore(st, req, clock))
<1> DEFINE old == st.records[req.id]
           dead == IF old.deleted # NotDeleted THEN old
                   ELSE Revised(old, old.body, old.version, clock, clock)
           back == Revised(old, old.body, old.version, clock, NotDeleted)
<1>1. old \in Record /\ old.id = req.id
  BY DEF StateType, Sound, LineageSound, RecordSound
<1>2. \A rec \in {dead, back} :
        /\ rec \in Record /\ rec.id = req.id /\ rec.version = old.version
        /\ rec.owner = old.owner /\ rec.created = old.created
  <2>1. old.body \in Bodies /\ old.version \in Nat
    BY <1>1 DEF Record
  <2> HIDE DEF old
  <2> QED BY <1>1, <2>1 DEF Revised, Record
<1>3. /\ SoftDelete(st, req, clock) = Done(SetCurrent(st, dead), {})
      /\ Restore(st, req, clock) = Done(SetCurrent(st, back), {back})
  BY DEF SoftDelete, Restore
<1> HIDE DEF dead, back
<1> QED BY <1>2, <1>3 DEF MarkSet, SameLineage

LEMMA PurgeSound ==
  ASSUME NEW st, StateType(st), Sound(st), NEW req \in Request
  PROVE  /\ StateType(PurgeExpired(st, req).state)
         /\ Sound(PurgeExpired(st, req).state)
         /\ PurgeExpired(st, req).value \subseteq Record
         /\ PurgeExpired(st, req).status = "ok"
<1> DEFINE gone == Expired(st, req.now)
           new == [next_id |-> st.next_id,
                   records |-> Without(st.records, gone),
                   history |-> Without(st.history, gone)]
<1>1. /\ PurgeExpired(st, req).state = new
      /\ PurgeExpired(st, req).value = {st.records[i] : i \in gone}
      /\ PurgeExpired(st, req).status = "ok"
  BY DEF PurgeExpired, Done
<1>2. {st.records[i] : i \in gone} \subseteq Record
  BY DEF StateType, Expired
<1> HIDE DEF gone
<1>3. /\ Without(st.records, gone) \in [DOMAIN st.records \ gone -> Record]
      /\ \A i \in DOMAIN st.records \ gone : Without(st.records, gone)[i] = st.records[i]
      /\ Without(st.history, gone) \in [DOMAIN st.history \ gone -> Seq(Record)]
      /\ \A i \in DOMAIN st.history \ gone : Without(st.history, gone)[i] = st.history[i]
  BY DEF Without, StateType
<1>4. /\ DOMAIN new.records = DOMAIN st.records \ gone
      /\ DOMAIN new.history = DOMAIN st.records \ gone
      /\ \A i \in DOMAIN st.records \ gone : /\ new.records[i] = st.records[i]
                                             /\ new.history[i] = st.history[i]
      /\ new.next_id = st.next_id
  BY <1>3 DEF Sound, LineageSound
<1>5. StateType(new)
  BY <1>3, <1>4 DEF StateType
<1>6. IdsBelowNext(new)
  BY <1>4 DEF IdsBelowNext, Sound
<1>7. \A i \in DOMAIN new.records : RecordSound(new, i)
  <2> HIDE DEF new
  <2> QED BY <1>4 DEF RecordSound, Sound, LineageSound
<1> HIDE DEF new
<1> QED BY <1>1, <1>2, <1>4, <1>5, <1>6, <1>7 DEF Sound, LineageSound

LEMMA ReadsSound ==
  ASSUME NEW st, StateType(st), NEW req \in Request
  PROVE  \A o \in {Load(st, req), ListActive(st, req), ListVersions(st, req)} :
           o.state = st /\ o.value \subseteq Record /\ o.status = "ok"
<1>1. \A i \in DOMAIN st.records : st.records[i] \in Record
  BY DEF StateType
<1>2. \A k \in DOMAIN HistoryOf(st, req.id) : HistoryOf(st, req.id)[k] \in Record
  <2>1. CASE req.id \in DOMAIN st.history
    <3>1. st.history[req.id] \in Seq(Record)
      BY <2>1 DEF StateType
    <3> QED BY <2>1, <3>1 DEF HistoryOf
  <2>2. CASE req.id \notin DOMAIN st.history
    BY <2>2 DEF HistoryOf
  <2> QED BY <2>1, <2>2
<1> QED BY <1>1, <1>2 DEF Load, ListActive, ListVersions, Done

LEMMA OutcomeShape ==
  ASSUME NEW st, NEW req \in Request, NEW clock
  PROVE  Outcome(st, req, clock) = [status |-> Outcome(st, req, clock).status,
                                    value |-> Outcome(st, req, clock).value,
                                    state |-> Outcome(st, req, clock).state]
<1> DEFINE o == Outcome(st, req, clock)
<1>1. req.op \in Operations
  BY DEF Request
<1>2. \/ o \in {Load(st, req), ListActive(st, req), ListVersions(st, req),
                PurgeExpired(st, req), SaveNew(st, req), SaveExisting(st, req)}
      \/ o \in {RestoreVersion(st, req), SoftDelete(st, req, clock),
                Restore(st, req, clock), Missing(st)}
  BY <1>1 DEF Outcome, Operations
<1>3. \E status, value, state :
        o = [status |-> status, value |-> value, state |-> state]
  <2> HIDE DEF o
  <2>1. CASE o \in {Load(st, req), ListActive(st, req), ListVersions(st, req),
                    PurgeExpired(st, req), SaveNew(st, req), SaveExisting(st, req)}
    <3>1. \E s, v : o = Done(s, v)
      BY <2>1, Zenon
      DEF Load, ListActive, ListVersions, PurgeExpired, SaveNew, SaveExisting
    <3> QED BY <3>1 DEF Done
  <2>2. CASE o \in {RestoreVersion(st, req), SoftDelete(st, req, clock),
                    Restore(st, req, clock), Missing(st)}
    <3>1. (\E s, v : o = Done(s, v)) \/ o = Missing(st)
      BY <2>2, Zenon DEF RestoreVersion, SoftDelete, Restore
    <3> QED BY <3>1 DEF Done, Missing
  <2> QED BY <1>2, <2>1, <2>2
<1> HIDE DEF o
<1>4. o = [status |-> o.status, value |-> o.value, state |-> o.state]
  BY <1>3
<1> QED BY <1>4 DEF o

\* The ways a call can end, and the operations that end so.
LEMMA OutcomeCases ==
  ASSUME NEW st, NEW req \in Request, NEW clock
  PROVE  LET o == Outcome(st, req, clock)
         IN  \/ /\ req.op \in {"load", "list_active", "list_versions"}
                /\ o \in {Load(st, req), ListActive(st, req), ListVersions(st, req)}
             \/ req.op = "purge_expired" /\ o = PurgeExpired(st, req)
             \/ req.op = "save" /\ o = SaveNew(st, req)
             \/ o = Missing(st)
             \/ req.op = "save" /\ Known(st, req.id) /\ o = SaveExisting(st, req)
             \/ /\ req.op = "restore_version" /\ Known(st, req.id)
                /\ HasVersion(st, req.id, req.version)
                /\ o = RestoreVersion(st, req)
             \/ /\ req.op \in {"soft_delete", "restore"} /\ Known(st, req.id)
                /\ o \in {SoftDelete(st, req, clock), Restore(st, req, clock)}
<1>1. req.op \in Operations
  BY DEF Request
<1> QED BY <1>1 DEF Outcome, Operations

(***************************************************************************)
(* The same by what happens to the state: nothing, a new scenario, a       *)
(* purge, one more version or a mark on the current one.                   *)
(***************************************************************************)
LEMMA OutcomeChanges ==
  ASSUME NEW st, StateType(st), Sound(st), NEW req \in Request, NEW clock \in Nat
  PROVE  LET o == Outcome(st, req, clock)
         IN  \/ /\ o.state = st /\ o.value \subseteq Record /\ o.status \in {"ok", "missing"}
                /\ req.op \in {"save", "restore_version"} => o.value = {}
             \/ req.op = "purge_expired" /\ o = PurgeExpired(st, req)
             \/ req.op = "save" /\ o = SaveNew(st, req)
             \/ /\ req.op \in {"save", "restore_version"}
                /\ Known(st, req.id) /\ VersionAdded(st, req.id, o)
             \/ /\ req.op \in {"soft_delete", "restore"}
                /\ Known(st, req.id) /\ MarkSet(st, req.id, o)
<1> DEFINE o == Outcome(st, req, clock)
<1>1. CASE o \in {Load(st, req), ListActive(st, req), ListVersions(st, req)}
           /\ req.op \in {"load", "list_active", "list_versions"}
  BY <1>1, ReadsSound
<1>2. CASE o = Missing(st)
  BY <1>2 DEF Missing
<1>3. CASE req.op = "save" /\ Known(st, req.id) /\ o = SaveExisting(st, req)
  BY <1>3, SaveExistingAppends DEF Known
<1>4. CASE /\ req.op = "restore_version" /\ Known(st, req.id)
           /\ HasVersion(st, req.id, req.version)
           /\ o = RestoreVersion(st, req)
  BY <1>4, RestoreVersionAppends DEF Known
<1>5. CASE /\ req.op \in {"soft_delete", "restore"} /\ Known(st, req.id)
           /\ o \in {SoftDelete(st, req, clock), Restore(st, req, clock)}
  BY <1>5, DeletionMarks DEF Known
<1> HIDE DEF o
<1>6. \/ /\ req.op \in {"load", "list_active", "list_versions"}
         /\ o \in {Load(st, req), ListActive(st, req), ListVersions(st, req)}
      \/ req.op = "purge_expired" /\ o = PurgeExpired(st, req)
      \/ req.op = "save" /\ o = SaveNew(st, req)
      \/ o = Missing(st)
      \/ req.op = "save" /\ Known(st, req.id) /\ o = SaveExisting(st, req)
      \/ /\ req.op = "restore_version" /\ Known(st, req.id)
         /\ HasVersion(st, req.id, req.version)
         /\ o = RestoreVersion(st, req)
      \/ /\ req.op \in {"soft_delete", "restore"} /\ Known(st, req.id)
         /\ o \in {SoftDelete(st, req, clock), Restore(st, req, clock)}
  BY OutcomeCases DEF o
<1> QED BY <1>1, <1>2, <1>3, <1>4, <1>5, <1>6 DEF o

(***************************************************************************)
(* Whatever the request, a sound state stays sound: no sequence of calls,  *)
(* however long, makes next_id reuse an id, breaks the run of version      *)
(* numbers or moves a scenario to another owner.                           *)
(***************************************************************************)
THEOREM OutcomeSound ==
  ASSUME NEW st, StateType(st), Sound(st), NEW req \in Request, NEW clock \in Nat
  PROVE  /\ StateType(Outcome(st, req, clock).state)
         /\ Sound(Outcome(st, req, clock).state)
         /\ Outcome(st, req, clock).value \subseteq Record
         /\ Outcome(st, req, clock).status \in {"ok", "missing"}
<1> DEFINE o == Outcome(st, req, clock)
<1>1. CASE /\ o.state = st /\ o.value \subseteq Record
           /\ o.status \in {"ok", "missing"}
  BY <1>1
<1>2. CASE o = PurgeExpired(st, req)
  BY <1>2, PurgeSound
<1>3. CASE o = SaveNew(st, req)
  BY <1>3, SaveNewSound
<1>4. CASE Known(st, req.id) /\ (VersionAdded(st, req.id, o) \/ MarkSet(st, req.id, o))
  <2> HIDE DEF o
  <2>1. PICK rec : /\ SameLineage(st, req.id, rec)
                   /\ \/ /\ rec.version = st.records[req.id].version + 1
                         /\ o.state = AppendVersion(st, rec)
                      \/ /\ rec.version = st.records[req.id].version
                         /\ o.state = SetCurrent(st, rec)
                   /\ o.value \subseteq {rec} /\ o.status = "ok"
    BY <1>4 DEF VersionAdded, MarkSet, Done
  <2>2. StateType(o.state) /\ Sound(o.state)
    BY <1>4, <2>1, AppendVersionSound, SetCurrentSound DEF Known, SameLineage
  <2> QED BY <2>1, <2>2 DEF SameLineage, o
<1>5. \/ o.state = st /\ o.value \subseteq Record /\ o.status \in {"ok", "missing"}
      \/ o = PurgeExpired(st, req)
      \/ o = SaveNew(st, req)
      \/ Known(st, req.id) /\ (VersionAdded(st, req.id, o) \/ MarkSet(st, req.id, o))
  BY OutcomeChanges
<1> HIDE DEF o
<1> QED BY <1>1, <1>2, <1>3, <1>4, <1>5 DEF o

(***************************************************************************)
(* Whatever the request, ids are issued upwards only and no scenario       *)
(* changes hands: next_id survives a purge of the highest id.              *)
(***************************************************************************)
THEOREM OutcomeIssuesOnwards ==
  ASSUME NEW st, StateType(st), Sound(st), NEW req \in Request, NEW clock \in Nat
  PROVE  IssuesOnwards(st, Outcome(st, req, clock).state)
<1> DEFINE o == Outcome(st, req, clock)
<1>0. st.next_id \in Nat
  BY DEF StateType
<1>1. CASE o.state = st
  BY <1>0, <1>1 DEF IssuesOnwards
<1>2. CASE o = PurgeExpired(st, req)
  BY <1>0, <1>2 DEF PurgeExpired, Done, Without, IssuesOnwards
<1>3. CASE o = SaveNew(st, req)
  <2> DEFINE new == SaveNew(st, req).state
  <2>1. /\ new.next_id = st.next_id + 1
        /\ DOMAIN new.records = DOMAIN st.records \cup {st.next_id}
        /\ \A j \in DOMAIN st.records : j # st.next_id => new.records[j] = st.records[j]
    <3> HIDE DEF new
    <3>1. new = [next_id |-> st.next_id + 1, records |-> new.records, history |-> new.history]
      BY SaveNewState DEF new
    <3>2. new.next_id = st.next_id + 1
      BY <3>1
    <3> QED BY <3>2, SaveNewState DEF new
  <2>2. st.next_id \notin DOMAIN st.records
    BY <1>0 DEF Sound, IdsBelowNext
  <2> HIDE DEF new
  <2>3. IssuesOnwards(st, new)
    BY <1>0, <2>1, <2>2 DEF IssuesOnwards
  <2> QED BY <1>3, <2>3 DEF new
<1>4. CASE Known(st, req.id) /\ (VersionAdded(st, req.id, o) \/ MarkSet(st, req.id, o))
  <2> HIDE DEF o
  <2>1. PICK rec : /\ SameLineage(st, req.id, rec)
                   /\ o.state \in {AppendVersion(st, rec), SetCurrent(st, rec)}
    BY <1>4 DEF VersionAdded, MarkSet, Done
  <2>2. /\ o.state.next_id = st.next_id
        /\ o.state.records = Put(st.records, rec.id, rec)
    BY <2>1 DEF AppendVersion, SetCurrent
  <2>3. /\ DOMAIN o.state.records = DOMAIN st.records
        /\ o.state.records[rec.id] = rec
        /\ \A j \in DOMAIN st.records : j # rec.id => o.state.records[j] = st.records[j]
    BY <1>4, <2>1, <2>2 DEF Put, Known, SameLineage
  <2>4. IssuesOnwards(st, o.state)
    BY <1>0, <2>1, <2>2, <2>3 DEF IssuesOnwards, SameLineage
  <2> QED BY <2>4 DEF o
<1>5. \/ o.state = st
      \/ o = PurgeExpired(st, req)
      \/ o = SaveNew(st, req)
      \/ Known(st, req.id) /\ (VersionAdded(st, req.id, o) \/ MarkSet(st, req.id, o))
  BY OutcomeChanges
<1> HIDE DEF o
<1> QED BY <1>1, <1>2, <1>3, <1>4, <1>5 DEF o

(***************************************************************************)
(* A filed version stays filed, unless the call is the purge that removes  *)
(* its scenario and says so in its answer.                                 *)
(***************************************************************************)
THEOREM OutcomeKeepsHistory ==
  ASSUME NEW st, StateType(st), Sound(st), NEW req \in Request, NEW clock \in Nat,
         NEW v, InHistory(st, v)
  PROVE  \/ InHistory(Outcome(st, req, clock).state, v)
         \/ /\ req.op = "purge_expired"
            /\ v.id \in {r.id : r \in Outcome(st, req, clock).value}
<1> DEFINE o == Outcome(st, req, clock)
<1>0. /\ v.id \in DOMAIN st.history /\ v.id \in DOMAIN st.records
      /\ st.records[v.id].id = v.id
  BY DEF InHistory, Sound, LineageSound, RecordSound
<1>1. CASE o.state = st
  BY <1>1
<1>2. CASE req.op = "purge_expired" /\ o = PurgeExpired(st, req)
  <2>1. CASE v.id \in Expired(st, req.now)
    <3>1. st.records[v.id] \in PurgeExpired(st, req).value
      BY <2>1 DEF PurgeExpired, Done
    <3> QED BY <1>0, <1>2, <3>1
  <2>2. CASE v.id \notin Expired(st, req.now)
    <3>1. /\ v.id \in DOMAIN PurgeExpired(st, req).state.history
          /\ PurgeExpired(st, req).state.history[v.id] = st.history[v.id]
      BY <1>0, <2>2 DEF PurgeExpired, Done, Without
    <3> QED BY <1>2, <3>1 DEF InHistory
  <2> QED BY <2>1, <2>2
<1>3. CASE o = SaveNew(st, req)
  <2> DEFINE new == SaveNew(st, req).state
  <2>1. /\ DOMAIN new.history = DOMAIN st.history \cup {st.next_id}
        /\ \A j \in DOMAIN st.history : j # st.next_id => new.history[j] = st.history[j]
    BY SaveNewState
  <2>2. v.id # st.next_id
    BY <1>0 DEF Sound, IdsBelowNext, StateType
  <2> HIDE DEF new
  <2>3. InHistory(new, v)
    BY <1>0, <2>1, <2>2 DEF InHistory
  <2> QED BY <1>3, <2>3 DEF new
<1>4. CASE Known(st, req.id) /\ VersionAdded(st, req.id, o)
  <2> HIDE DEF o
  <2>1. PICK rec : SameLineage(st, req.id, rec) /\ o.state = AppendVersion(st, rec)
    BY <1>4 DEF VersionAdded, Done
  <2> DEFINE new == AppendVersion(st, rec)
             h == st.history[req.id]
  <2>2. /\ DOMAIN new.history = DOMAIN st.history
        /\ new.history[req.id] = Append(h, rec)
        /\ \A j \in DOMAIN st.history : j # req.id => new.history[j] = st.history[j]
        /\ h \in Seq(Record)
        /\ Append(h, rec) \in Seq(Record)
        /\ Len(Append(h, rec)) = Len(h) + 1
        /\ \A k \in 1 .. Len(h) : Append(h, rec)[k] = h[k]
    BY <1>4, <2>1, AppendVersionState DEF Known, SameLineage
  <2> HIDE DEF new
  <2>3. CASE v.id = req.id
    <3>1. PICK k \in DOMAIN h : v = h[k]
      BY <2>3 DEF InHistory
    <3>2. k \in 1 .. Len(h) /\ k \in DOMAIN Append(h, rec)
      BY <2>2, <3>1
    <3>3. v = Append(h, rec)[k]
      BY <2>2, <3>1, <3>2
    <3>4. InHistory(new, v)
      BY <1>0, <2>2, <2>3, <3>2, <3>3 DEF InHistory
    <3> QED BY <2>1, <3>4 DEF o, new
  <2>4. CASE v.id # req.id
    <3>1. InHistory(new, v)
      BY <1>0, <2>2, <2>4 DEF InHistory
    <3> QED BY <2>1, <3>1 DEF o, new
  <2> QED BY <2>3, <2>4
<1>5. CASE MarkSet(st, req.id, o)
  <2> HIDE DEF o
  <2>1. o.state.history = st.history
    BY <1>5 DEF MarkSet, Done, SetCurrent
  <2> QED BY <2>1 DEF InHistory, o
<1>6. \/ o.state = st
      \/ req.op = "purge_expired" /\ o = PurgeExpired(st, req)
      \/ o = SaveNew(st, req)
      \/ Known(st, req.id) /\ VersionAdded(st, req.id, o)
      \/ MarkSet(st, req.id, o)
  BY OutcomeChanges
<1> HIDE DEF o
<1> QED BY <1>1, <1>2, <1>3, <1>4, <1>5, <1>6 DEF o

\* What save and restore_version answer is filed.
THEOREM OutcomeFilesAnswer ==
  ASSUME NEW st, StateType(st), Sound(st), NEW req \in Request, NEW clock \in Nat,
         req.op \in {"save", "restore_version"},
         NEW v \in Outcome(st, req, clock).value
  PROVE  InHistory(Outcome(st, req, clock).state, v)
<1> DEFINE o == Outcome(st, req, clock)
<1>1. CASE o = SaveNew(st, req)
  <2> DEFINE rec == FirstVersion(st, req)
  <2>1. /\ rec.id = st.next_id
        /\ SaveNew(st, req).value = {rec}
        /\ DOMAIN SaveNew(st, req).state.history = DOMAIN st.history \cup {st.next_id}
        /\ SaveNew(st, req).state.history[st.next_id] = <<rec>>
    BY SaveNewState
  <2>2. v = rec /\ 1 \in DOMAIN <<rec>> /\ <<rec>>[1] = rec
    BY <1>1, <2>1
  <2> QED BY <1>1, <2>1, <2>2 DEF InHistory
<1>2. CASE Known(st, req.id) /\ VersionAdded(st, req.id, o)
  <2> HIDE DEF o
  <2>1. PICK rec : SameLineage(st, req.id, rec) /\ o = Done(AppendVersion(st, rec), {rec})
    BY <1>2 DEF VersionAdded
  <2> DEFINE new == AppendVersion(st, rec)
             h == st.history[req.id]
  <2>2. /\ req.id \in DOMAIN new.history
        /\ new.history[req.id] = Append(h, rec)
        /\ h \in Seq(Record)
        /\ Append(h, rec) \in Seq(Record)
        /\ Len(Append(h, rec)) = Len(h) + 1
        /\ Append(h, rec)[Len(h) + 1] = rec
    BY <1>2, <2>1, AppendVersionState DEF Known, SameLineage
  <2>3. Len(h) + 1 \in DOMAIN Append(h, rec)
    BY <2>2
  <2>4. v = rec /\ rec.id = req.id /\ o.state = new
    BY <2>1 DEF Done, SameLineage, o
  <2> HIDE DEF new
  <2> QED BY <2>2, <2>3, <2>4 DEF InHistory, o
<1>3. \/ o.value = {}
      \/ o = SaveNew(st, req)
      \/ Known(st, req.id) /\ VersionAdded(st, req.id, o)
  BY OutcomeChanges
<1> HIDE DEF o
<1> QED BY <1>1, <1>2, <1>3 DEF o

-----------------------------------------------------------------------------
\* now is the scenario rec was read from, in the same or a later version.
SameScenario(rec, now) ==
  /\ now.owner = rec.owner
  /\ now.created = rec.created
  /\ now.version >= rec.version

(***************************************************************************)
(* A call changes the scenario it names and no other, and leaves it the    *)
(* scenario it is; only a purge takes a scenario away.                     *)
(***************************************************************************)
THEOREM OutcomeTouches ==
  ASSUME NEW st, StateType(st), Sound(st), NEW req \in Request, NEW clock \in Nat,
         NEW i \in DOMAIN st.records
  PROVE  LET new == Outcome(st, req, clock).state
         IN  \/ /\ i \in DOMAIN new.records
                /\ SameScenario(st.records[i], new.records[i])
                /\ (new.records[i] # st.records[i]
                    => i = req.id /\ req.op # "purge_expired")
             \/ i \notin DOMAIN new.records /\ req.op = "purge_expired"
<1> DEFINE o == Outcome(st, req, clock)
<1>0. /\ st.records[i].version \in Nat
      /\ SameScenario(st.records[i], st.records[i])
  BY DEF StateType, Record, SameScenario
<1>1. CASE o.state = st
  BY <1>0, <1>1
<1>2. CASE req.op = "purge_expired" /\ o = PurgeExpired(st, req)
  BY <1>0, <1>2 DEF PurgeExpired, Done, Without
<1>3. CASE o = SaveNew(st, req)
  <2>1. i # st.next_id
    BY DEF Sound, IdsBelowNext, StateType
  <2>2. /\ DOMAIN SaveNew(st, req).state.records = DOMAIN st.records \cup {st.next_id}
        /\ \A j \in DOMAIN st.records :
             j # st.next_id => SaveNew(st, req).state.records[j] = st.records[j]
    BY SaveNewState
  <2> QED BY <1>0, <1>3, <2>1, <2>2
<1>4. CASE /\ req.op # "purge_expired" /\ Known(st, req.id)
           /\ VersionAdded(st, req.id, o) \/ MarkSet(st, req.id, o)
  <2> HIDE DEF o
  <2>1. PICK rec : /\ SameLineage(st, req.id, rec)
                   /\ rec.version \in {st.records[req.id].version, st.records[req.id].version + 1}
                   /\ o.state \in {AppendVersion(st, rec), SetCurrent(st, rec)}
    BY <1>4 DEF VersionAdded, MarkSet, Done
  <2>2. o.state.records = Put(st.records, rec.id, rec)
    BY <2>1 DEF AppendVersion, SetCurrent
  <2>3. /\ i \in DOMAIN o.state.records
        /\ i = req.id => o.state.records[i] = rec
        /\ i # req.id => o.state.records[i] = st.records[i]
    BY <2>1, <2>2 DEF Put, SameLineage
  <2>4. i = req.id => SameScenario(st.records[i], rec)
    BY <1>0, <2>1 DEF SameScenario, SameLineage
  <2> QED BY <1>0, <1>4, <2>3, <2>4 DEF o
<1>5. \/ o.state = st
      \/ req.op = "purge_expired" /\ o = PurgeExpired(st, req)
      \/ o = SaveNew(st, req)
      \/ /\ req.op # "purge_expired" /\ Known(st, req.id)
         /\ VersionAdded(st, req.id, o) \/ MarkSet(st, req.id, o)
  BY OutcomeChanges
<1> HIDE DEF o
<1> QED BY <1>1, <1>2, <1>3, <1>4, <1>5 DEF o

(***************************************************************************)
(* Who asks about a scenario of theirs, or about none, is answered with    *)
(* records of theirs only; a purge asks about everybody's.                 *)
(***************************************************************************)
THEOREM OutcomeAnswersOwner ==
  ASSUME NEW st, StateType(st), Sound(st), NEW req \in Request, NEW clock \in Nat,
         req.op # "purge_expired",
         Known(st, req.id) => st.records[req.id].owner = req.owner,
         NEW v \in Outcome(st, req, clock).value
  PROVE  v.owner = req.owner
<1> DEFINE o == Outcome(st, req, clock)
<1>1. CASE o \in {Load(st, req), ListActive(st, req)}
  BY <1>1 DEF Load, ListActive, Done, Known
<1>2. CASE o = ListVersions(st, req)
  <2>1. CASE req.id \in DOMAIN st.history
    <3>1. PICK k \in DOMAIN st.history[req.id] : v = st.history[req.id][k]
      BY <1>2, <2>1 DEF ListVersions, HistoryOf, Done
    <3>2. Known(st, req.id) /\ RecordSound(st, req.id)
      BY <2>1 DEF Sound, LineageSound, Known
    <3>3. DOMAIN st.history[req.id] = 1 .. Len(st.history[req.id])
      BY <2>1 DEF StateType
    <3> QED BY <3>1, <3>2, <3>3 DEF RecordSound
  <2>2. CASE req.id \notin DOMAIN st.history
    BY <1>2, <2>2 DEF ListVersions, HistoryOf, Done
  <2> QED BY <2>1, <2>2
<1>3. CASE o = SaveNew(st, req)
  BY <1>3 DEF SaveNew, FirstVersion, Done
<1>4. CASE o = Missing(st)
  BY <1>4 DEF Missing
<1>5. CASE Known(st, req.id) /\ (VersionAdded(st, req.id, o) \/ MarkSet(st, req.id, o))
  <2> HIDE DEF o
  <2>1. PICK rec : SameLineage(st, req.id, rec) /\ o.value \subseteq {rec}
    BY <1>5 DEF VersionAdded, MarkSet, Done
  <2> QED BY <1>5, <2>1 DEF SameLineage, o
<1>6. \/ o \in {Load(st, req), ListActive(st, req), ListVersions(st, req)}
      \/ o = SaveNew(st, req)
      \/ o = Missing(st)
      \/ Known(st, req.id) /\ (VersionAdded(st, req.id, o) \/ MarkSet(st, req.id, o))
  <2>1. Known(st, req.id) =>
          /\ VersionAdded(st, req.id, SaveExisting(st, req))
          /\ HasVersion(st, req.id, req.version) =>
               VersionAdded(st, req.id, RestoreVersion(st, req))
          /\ MarkSet(st, req.id, SoftDelete(st, req, clock))
          /\ MarkSet(st, req.id, Restore(st, req, clock))
    BY SaveExistingAppends, RestoreVersionAppends, DeletionMarks DEF Known
  <2> HIDE DEF o
  <2>2. \/ o \in {Load(st, req), ListActive(st, req), ListVersions(st, req)}
        \/ o = SaveNew(st, req)
        \/ o = Missing(st)
        \/ Known(st, req.id) /\ o = SaveExisting(st, req)
        \/ /\ Known(st, req.id) /\ HasVersion(st, req.id, req.version)
           /\ o = RestoreVersion(st, req)
        \/ /\ Known(st, req.id)
           /\ o \in {SoftDelete(st, req, clock), Restore(st, req, clock)}
    BY OutcomeCases DEF o
  <2> QED BY <2>1, <2>2
<1> HIDE DEF o
<1> QED BY <1>1, <1>2, <1>3, <1>4, <1>5, <1>6

\* list_active answers with current, active records of the owner.
LEMMA ListActiveAnswer ==
  ASSUME NEW st, StateType(st), Sound(st), NEW req \in Request, NEW clock,
         req.op = "list_active", NEW v \in Outcome(st, req, clock).value
  PROVE  /\ v.id \in DOMAIN st.records /\ st.records[v.id] = v
         /\ v.owner = req.owner /\ v.deleted = NotDeleted
<1>1. PICK i \in DOMAIN st.records :
        v = st.records[i] /\ v.owner = req.owner /\ v.deleted = NotDeleted
  BY DEF Outcome, ListActive, Done
<1>2. st.records[i].id = i
  BY DEF Sound, LineageSound, RecordSound
<1> QED BY <1>1, <1>2
=============================================================================
