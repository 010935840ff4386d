-------------------------- MODULE ShareLinksProofs --------------------------
(***************************************************************************)
(* ShareLinks for every value of its constants: type correctness, and that *)
(* a capped share never spends more slots than its cap.                    *)
(*                                                                         *)
(* The cap is not inductive: it rests on what the counter, or the copy of  *)
(* the record that seeds it, says about the slots spent, and that rests on *)
(* a counter being wiped only when no clock admits a download any more.    *)
(* Listing and revocation rest on what a creator has written by the time   *)
(* it answers, and on what the copy of a download under way says.          *)
(***************************************************************************)
EXTENDS ShareLinks, FiniteSetTheorems, TLAPS

-----------------------------------------------------------------------------
(* Type correctness.                                                       *)

\* What KV holds can be put and read as a record or as nothing.
LEMMA RecordsTyped ==
    ASSUME ConstantsAssumption
    PROVE  /\ Fresh \in Record
           /\ Migrated \in Record
           /\ NoRecord \notin Record
           /\ NoCount \notin Nat
           /\ NoTime \notin Nat
  BY DEF ConstantsAssumption, Fresh, Migrated, Record

LEMMA PutRecordTyped ==
    ASSUME TypeOK, NEW r \in Record \union {NoRecord}, PutRecord(r)
    PROVE  kv' \in Record \union {NoRecord} /\ stale' \subseteq Record
  BY DEF TypeOK, PutRecord, Visible

\* A request's answer leaves its slot well typed.
LEMMA ReturnTyped ==
    ASSUME TypeOK, NEW h \in Requests, Return(h)
    PROVE  /\ pc' \in [Requests -> Labels]
           /\ rec' \in [Requests -> Record \union {NoRecord}]
           /\ \A g \in Requests : pc'[g] # "idle" => rec'[g] \in Record
  BY DEF TypeOK, Return, Goto, Labels

\* A request that goes on keeps a copy of the record.
LEMMA GotoTyped ==
    ASSUME TypeOK, NEW h \in Requests, NEW label \in Labels, NEW r \in Record,
           Goto(h, label), rec' = [rec EXCEPT ![h] = r]
    PROVE  /\ pc' \in [Requests -> Labels]
           /\ rec' \in [Requests -> Record \union {NoRecord}]
           /\ \A g \in Requests : pc'[g] # "idle" => rec'[g] \in Record
  BY DEF TypeOK, Goto

LEMMA PutStepTyped ==
    ASSUME TypeOK, NEW h \in Requests, NEW from \in Labels \ {"idle"},
           NEW to \in Labels, PutStep(h, from, to)
    PROVE  TypeOK'
  <1>1. rec[h] \in Record
    BY DEF TypeOK, PutStep
  <1>2. kv' \in Record \union {NoRecord} /\ stale' \subseteq Record
    BY <1>1, PutRecordTyped DEF PutStep
  <1>3. pc' \in [Requests -> Labels]
    BY DEF TypeOK, PutStep, Goto
  <1>4. \A g \in Requests : pc'[g] # "idle" => rec'[g] \in Record
    BY <1>1 DEF TypeOK, PutStep, Goto
  <1> QED
    BY <1>2, <1>3, <1>4 DEF TypeOK, PutStep, object, history

LEMMA IndexStepTyped ==
    ASSUME TypeOK, NEW h \in Requests, NEW from \in Labels \ {"idle"},
           NEW to \in Labels, IndexStep(h, from, to)
    PROVE  TypeOK'
  <1>1. pc' \in [Requests -> Labels]
    BY DEF TypeOK, IndexStep, Goto
  <1>2. \A g \in Requests : pc'[g] # "idle" => rec'[g] \in Record
    BY DEF TypeOK, IndexStep, Goto
  <1> QED
    BY <1>1, <1>2 DEF TypeOK, IndexStep, object, history

\* The count a granted download goes by is a number.
LEMMA CurrentTyped ==
    ASSUME TypeOK, NEW h \in Requests, Granted(h)
    PROVE  Current(h) \in Nat /\ rec[h] \in Record
  BY DEF TypeOK, Granted, Current, Record

\* Only a share that has an expiry admits a download.
LEMMA ConsumeTyped ==
    ASSUME ConstantsAssumption, TypeOK, expiresAt \in Nat, NEW h \in Requests,
           Consume(h)
    PROVE  TypeOK'
  <1>1. Current(h) \in Nat /\ rec[h] \in Record
    BY CurrentTyped DEF Consume, TakeSlot
  <1>2. rec' = [rec EXCEPT ![h] = [rec[h] EXCEPT !.count = Current(h) + 1]]
    BY DEF Consume, TakeSlot
  <1>3. [rec[h] EXCEPT !.count = Current(h) + 1] \in Record
    BY <1>1 DEF Record
  <1>4. /\ pc' \in [Requests -> Labels]
        /\ rec' \in [Requests -> Record \union {NoRecord}]
        /\ \A g \in Requests : pc'[g] # "idle" => rec'[g] \in Record
    BY <1>2, <1>3, GotoTyped DEF Consume, TakeSlot, Labels
  <1>5. counter' \in Nat /\ alarm' \in Nat \union {NoTime} /\ spent' \in Nat
    BY <1>1 DEF TypeOK, Consume, TakeSlot, ConstantsAssumption
  <1> QED
    BY <1>4, <1>5 DEF TypeOK, Consume, TakeSlot, records

-----------------------------------------------------------------------------
(* The inductive invariant.                                                *)

\* Before its creation begins a share has left no trace.
NothingYet ==
    expiresAt = NoTime =>
        /\ kv = NoRecord /\ stale = {}
        /\ counter = NoCount /\ alarm = NoTime /\ spent = 0
        /\ \A h \in Requests : pc[h] = "idle" /\ rec[h] = NoRecord

\* The counter is wiped Retention after the expiry.
WipeTime == alarm # NoTime => alarm = expiresAt + Retention

IInv == TypeOK /\ NothingYet /\ WipeTime
          /\ CapNeverExceeded /\ FastPathSound /\ CounterIsSpent

LEMMA InitIInv ==
    ASSUME ConstantsAssumption, SeedAssumption, Init
    PROVE  IInv
  <1>a. /\ kv \in Record \union {NoRecord}
        /\ expiresAt \in Nat \union {NoTime}
        /\ spent \in Nat
    BY RecordsTyped DEF Init, ConstantsAssumption
  <1>b. index \in BOOLEAN /\ created \in BOOLEAN /\ revoked \in BOOLEAN
    BY DEF Init
  <1>c. pc \in [Requests -> Labels] /\ \A h \in Requests : pc[h] = "idle"
    BY DEF Init, Labels
  <1>1. TypeOK
    BY <1>a, <1>b, <1>c DEF Init, TypeOK
  <1>2. \A r \in Copies : r.count = spent
    BY DEF Init, Copies, Visible, Migrated
  <1>3. CapNeverExceeded
    BY DEF Init, CapNeverExceeded, SeedAssumption, ConstantsAssumption
  <1>4. FastPathSound /\ CounterIsSpent
    BY <1>1, <1>2 DEF Init, FastPathSound, CounterIsSpent, TypeOK
  <1>5. NothingYet /\ WipeTime
    BY DEF Init, NothingYet, WipeTime, ConstantsAssumption
  <1> QED
    BY <1>1, <1>3, <1>4, <1>5 DEF IInv

\* A step that counts nothing: the share's accounts stand, and every copy after
\* it shows the count of a copy before it.
Quiet ==
    /\ UNCHANGED <<counter, spent, expiresAt>>
    /\ now' \in Nat /\ now' >= now
    /\ \A r \in Copies' : \E q \in Copies : r.count = q.count

LEMMA QuietKeepsAccounts ==
    ASSUME ConstantsAssumption, IInv, Quiet
    PROVE  CapNeverExceeded' /\ FastPathSound' /\ CounterIsSpent'
  <1>1. CapNeverExceeded'
    BY DEF IInv, Quiet, CapNeverExceeded
  <1>2. FastPathSound'
    BY DEF IInv, Quiet, FastPathSound
  <1>3. ASSUME MaxDownloads > 0
        PROVE  CounterIsSpent'
    <2>1. CASE counter = spent
      BY <2>1 DEF Quiet, CounterIsSpent
    <2>2. CASE counter = NoCount /\ \A r \in Copies : r.count = spent
      BY <2>2 DEF Quiet, CounterIsSpent
    <2>3. CASE /\ counter = NoCount /\ expiresAt # NoTime
               /\ now >= expiresAt + Retention
      BY <2>3 DEF IInv, TypeOK, Quiet, CounterIsSpent, ConstantsAssumption
    <2> QED
      BY <1>3, <2>1, <2>2, <2>3 DEF IInv, CounterIsSpent
  <1> QED
    BY <1>1, <1>2, <1>3 DEF CounterIsSpent

LEMMA QuietKeepsIInv ==
    ASSUME ConstantsAssumption, IInv, Quiet, UNCHANGED alarm,
           TypeOK', NothingYet'
    PROVE  IInv'
  <1>1. WipeTime'
    BY DEF IInv, WipeTime, Quiet
  <1> QED
    BY <1>1, QuietKeepsAccounts DEF IInv

-----------------------------------------------------------------------------
(* The steps that count nothing.                                           *)

LEMMA PutStepIInv ==
    ASSUME ConstantsAssumption, IInv, NEW h \in Requests,
           NEW from \in Labels \ {"idle"}, NEW to \in Labels,
           PutStep(h, from, to)
    PROVE  IInv'
  <1>1. TypeOK'
    BY PutStepTyped DEF IInv
  <1>2. expiresAt # NoTime
    BY DEF IInv, NothingYet, PutStep
  <1>3. rec[h] \in Record
    BY DEF IInv, TypeOK, PutStep
  <1>4. Visible' \subseteq Visible \union {rec[h]}
    BY DEF PutStep, PutRecord, Visible
  <1>5. Copies' \subseteq Copies
    BY <1>4 DEF PutStep, Copies
  <1>6. Quiet
    BY <1>5 DEF Quiet, PutStep, IInv, TypeOK, object, history
  <1>7. NothingYet' /\ UNCHANGED alarm
    BY <1>2 DEF NothingYet, PutStep, object
  <1> QED
    BY <1>1, <1>6, <1>7, QuietKeepsIInv

LEMMA IndexStepIInv ==
    ASSUME ConstantsAssumption, IInv, NEW h \in Requests,
           NEW from \in Labels \ {"idle"}, NEW to \in Labels,
           IndexStep(h, from, to)
    PROVE  IInv'
  <1>1. TypeOK'
    BY IndexStepTyped DEF IInv
  <1>2. expiresAt # NoTime
    BY DEF IInv, NothingYet, IndexStep
  <1>3. Copies' = Copies
    BY DEF IndexStep, Copies, Visible
  <1>4. Quiet
    BY <1>3 DEF Quiet, IndexStep, IInv, TypeOK, object, history
  <1>5. NothingYet' /\ UNCHANGED alarm
    BY <1>2 DEF NothingYet, IndexStep, object
  <1> QED
    BY <1>1, <1>4, <1>5, QuietKeepsIInv

\* The steps that end a request: answers, refusals, deaths.
LEMMA ReturnIInv ==
    ASSUME ConstantsAssumption, IInv, NEW h \in Requests,
           pc[h] # "idle", Return(h),
           UNCHANGED <<now, records, object, spent, crashes>>,
           served' \in Nat, created' \in BOOLEAN, revoked' \in BOOLEAN
    PROVE  IInv'
  <1>1. TypeOK'
    BY ReturnTyped DEF IInv, TypeOK, records, object
  <1>2. expiresAt # NoTime
    BY DEF IInv, NothingYet
  <1>3. Visible' = Visible
    BY DEF records, Visible
  <1>4. Copies' \subseteq Copies
    BY <1>3 DEF Copies, Return, IInv, TypeOK
  <1>5. Quiet
    BY <1>4 DEF Quiet, IInv, TypeOK, records, object
  <1>6. NothingYet' /\ UNCHANGED alarm
    BY <1>2 DEF NothingYet, records, object
  <1> QED
    BY <1>1, <1>5, <1>6, QuietKeepsIInv

LEMMA EnvironmentIInv ==
    ASSUME ConstantsAssumption, IInv, KvConverges \/ KvLapses \/ Tick
    PROVE  IInv'
  <1>1. CASE KvConverges
    <2>1. TypeOK'
      BY <1>1 DEF IInv, TypeOK, KvConverges, object, history
    <2>2. Copies' \subseteq Copies
      BY <1>1 DEF KvConverges, Copies, Visible
    <2>3. Quiet
      BY <1>1, <2>2 DEF Quiet, IInv, TypeOK, KvConverges, object, history
    <2>4. NothingYet' /\ UNCHANGED alarm
      BY <1>1 DEF IInv, NothingYet, KvConverges, object, history
    <2> QED
      BY <2>1, <2>3, <2>4, QuietKeepsIInv
  <1>2. CASE KvLapses
    <2>1. TypeOK'
      BY <1>2 DEF IInv, TypeOK, KvLapses, PutRecord, Visible, object, history
    <2>2. Copies' \subseteq Copies
      BY <1>2 DEF KvLapses, PutRecord, Copies, Visible
    <2>3. Quiet
      BY <1>2, <2>2 DEF Quiet, IInv, TypeOK, KvLapses, object, history
    <2>4. NothingYet' /\ UNCHANGED alarm
      BY <1>2 DEF NothingYet, KvLapses, object
    <2> QED
      BY <2>1, <2>3, <2>4, QuietKeepsIInv
  <1>3. CASE Tick
    <2>1. TypeOK'
      BY <1>3 DEF IInv, TypeOK, Tick, records, object, history
    <2>2. Copies' = Copies
      BY <1>3 DEF Tick, Copies, Visible, records
    <2>3. Quiet
      BY <1>3, <2>2 DEF Quiet, IInv, TypeOK, Tick, records, object, history
    <2>4. NothingYet' /\ UNCHANGED alarm
      BY <1>3 DEF IInv, NothingYet, Tick, records, object, history
    <2> QED
      BY <2>1, <2>3, <2>4, QuietKeepsIInv
  <1> QED
    BY <1>1, <1>2, <1>3

LEMMA RevokeGetIInv ==
    ASSUME ConstantsAssumption, IInv, NEW h \in Requests, RevokeGet(h)
    PROVE  IInv'
  <1>1. PICK r \in Visible \ {NoRecord} :
            rec' = [rec EXCEPT ![h] = [r EXCEPT !.revoked = TRUE]]
    BY DEF RevokeGet
  <1> DEFINE copy == [r EXCEPT !.revoked = TRUE]
  <1>2. r \in Record /\ r \in Copies
    BY DEF IInv, TypeOK, Visible, Copies
  <1>3. copy \in Record /\ copy.count = r.count
    BY <1>2 DEF Record
  <1> HIDE DEF copy
  <1>4. TypeOK'
    <2>1. rec' = [rec EXCEPT ![h] = copy]
      BY <1>1 DEF copy
    <2>2. Goto(h, "revoke.put") /\ "revoke.put" \in Labels
      BY DEF RevokeGet, Labels
    <2>3. /\ pc' \in [Requests -> Labels]
          /\ rec' \in [Requests -> Record \union {NoRecord}]
          /\ \A g \in Requests : pc'[g] # "idle" => rec'[g] \in Record
      BY <1>3, <2>1, <2>2, GotoTyped DEF IInv
    <2> QED
      BY <2>3 DEF IInv, TypeOK, RevokeGet, records, object, history
  <1>5. expiresAt # NoTime
    BY DEF IInv, NothingYet, Visible
  <1>6. Copies' \subseteq Copies \union {copy}
    BY <1>1 DEF Copies, Visible, RevokeGet, records, copy, IInv, TypeOK
  <1>7. Quiet
    BY <1>2, <1>3, <1>6
    DEF Quiet, IInv, TypeOK, RevokeGet, records, object, history
  <1>8. NothingYet' /\ UNCHANGED alarm
    BY <1>5 DEF NothingYet, RevokeGet, records, object
  <1> QED
    BY <1>4, <1>7, <1>8, QuietKeepsIInv

\* The record's count is raised by the load itself only for an unlimited share,
\* of which the accounts say nothing.
LEMMA LoadIInv ==
    ASSUME ConstantsAssumption, IInv, NEW h \in Requests, Load(h)
    PROVE  IInv'
  <1>1. PICK r \in Visible \ {NoRecord} :
            \/ /\ rec' = [rec EXCEPT ![h] = r]
               /\ Goto(h, "readonly.get") \/ Goto(h, "consume")
            \/ /\ MaxDownloads = 0
               /\ rec' = [rec EXCEPT ![h] = [r EXCEPT !.count = r.count + 1]]
               /\ Goto(h, "put")
    BY DEF Load
  <1>2. r \in Record /\ r \in Copies
    BY DEF IInv, TypeOK, Visible, Copies
  <1>3. PICK copy \in Record, label \in Labels :
            /\ rec' = [rec EXCEPT ![h] = copy]
            /\ Goto(h, label)
            /\ MaxDownloads = 0 \/ copy = r
    <2>1. CASE /\ rec' = [rec EXCEPT ![h] = r]
               /\ Goto(h, "readonly.get") \/ Goto(h, "consume")
      BY <1>2, <2>1 DEF Labels
    <2>2. CASE /\ MaxDownloads = 0
               /\ rec' = [rec EXCEPT ![h] = [r EXCEPT !.count = r.count + 1]]
               /\ Goto(h, "put")
      <3>1. [r EXCEPT !.count = r.count + 1] \in Record
        BY <1>2 DEF Record
      <3> QED
        BY <2>2, <3>1 DEF Labels
    <2> QED
      BY <1>1, <2>1, <2>2
  <1>4. TypeOK'
    <2>1. /\ pc' \in [Requests -> Labels]
          /\ rec' \in [Requests -> Record \union {NoRecord}]
          /\ \A g \in Requests : pc'[g] # "idle" => rec'[g] \in Record
      BY <1>3, GotoTyped DEF IInv
    <2> QED
      BY <2>1 DEF IInv, TypeOK, Load, records, object, history
  <1>5. expiresAt # NoTime
    BY DEF IInv, NothingYet, Visible
  <1>6. NothingYet' /\ WipeTime'
    BY <1>5 DEF IInv, NothingYet, WipeTime, Load, records, object
  <1>7. CASE MaxDownloads = 0
    BY <1>4, <1>6, <1>7
    DEF IInv, CapNeverExceeded, FastPathSound, CounterIsSpent
  <1>8. CASE copy = r
    <2>1. Copies' \subseteq Copies
      BY <1>2, <1>3, <1>8 DEF Copies, Visible, Load, records, IInv, TypeOK
    <2>2. Quiet
      BY <2>1 DEF Quiet, IInv, TypeOK, Load, records, object, history
    <2>3. UNCHANGED alarm
      BY DEF Load, object
    <2> QED
      BY <1>4, <1>6, <2>2, <2>3, QuietKeepsIInv
  <1> QED
    BY <1>3, <1>7, <1>8

-----------------------------------------------------------------------------
(* The steps the accounts are about.                                       *)

\* The share begins with nothing spent and a record that says so.
LEMMA CreateBeginIInv ==
    ASSUME ConstantsAssumption, IInv, NEW h \in Requests, CreateBegin(h)
    PROVE  IInv'
  <1>1. /\ spent = 0 /\ counter = NoCount /\ alarm = NoTime
        /\ kv = NoRecord /\ stale = {}
        /\ \A g \in Requests : rec[g] = NoRecord
    BY DEF IInv, NothingYet, CreateBegin
  <1>2. expiresAt' \in Nat
    BY DEF CreateBegin, Readings, ConstantsAssumption, IInv, TypeOK
  <1>3. TypeOK'
    <2>1. Goto(h, "create.put") /\ "create.put" \in Labels
      BY DEF CreateBegin, Labels
    <2>2. rec' = [rec EXCEPT ![h] = Fresh]
      BY DEF CreateBegin
    <2>3. /\ pc' \in [Requests -> Labels]
          /\ rec' \in [Requests -> Record \union {NoRecord}]
          /\ \A g \in Requests : pc'[g] # "idle" => rec'[g] \in Record
      BY <2>1, <2>2, GotoTyped, RecordsTyped DEF IInv
    <2> QED
      BY <1>2, <2>3 DEF IInv, TypeOK, CreateBegin, object, history
  <1>4. Copies' \subseteq {Fresh}
    BY <1>1 DEF Copies, Visible, CreateBegin, IInv, TypeOK
  <1>5. \A r \in Copies' : r.count = spent'
    BY <1>1, <1>4 DEF Fresh, CreateBegin, history
  <1>6. CapNeverExceeded'
    BY <1>1 DEF CapNeverExceeded, CreateBegin, history, ConstantsAssumption
  <1>7. FastPathSound'
    BY <1>3, <1>5 DEF FastPathSound, TypeOK
  <1>8. CounterIsSpent'
    BY <1>1, <1>5 DEF CounterIsSpent, CreateBegin, object
  <1>9. NothingYet' /\ WipeTime'
    BY <1>1, <1>2 DEF NothingYet, WipeTime, CreateBegin, object, ConstantsAssumption
  <1> QED
    BY <1>3, <1>6, <1>7, <1>8, <1>9 DEF IInv

\* A download that is granted goes by the number of slots spent: a clock that
\* admits it shows that the counter has not been wiped.
LEMMA CurrentIsSpent ==
    ASSUME ConstantsAssumption, RetentionAssumption, IInv, MaxDownloads > 0,
           NEW h \in Requests, Granted(h)
    PROVE  /\ Current(h) = spent
           /\ spent < MaxDownloads
           /\ expiresAt \in Nat
  <1>1. expiresAt \in Nat
    BY DEF IInv, TypeOK, NothingYet, Granted
  <1>2. PICK t \in Readings : t < expiresAt
    BY DEF Granted
  <1>3. now < expiresAt + Retention
    BY <1>1, <1>2 DEF Readings, Reads, RetentionAssumption, ConstantsAssumption,
                      IInv, TypeOK
  <1>4. rec[h] \in Copies /\ rec[h] \in Record
    BY RecordsTyped DEF Copies, IInv, TypeOK, Granted
  <1>5. Current(h) = spent
    <2>1. CASE counter = spent
      BY <2>1, RecordsTyped DEF Current, IInv, TypeOK
    <2>2. CASE counter = NoCount /\ \A r \in Copies : r.count = spent
      BY <1>4, <2>2 DEF Current
    <2>3. CASE now >= expiresAt + Retention
      BY <1>1, <1>3, <2>3 DEF IInv, TypeOK, ConstantsAssumption
    <2> QED
      BY <2>1, <2>2, <2>3 DEF IInv, CounterIsSpent
  <1>6. spent < MaxDownloads
    BY <1>5 DEF Granted, Exhausted, IInv, TypeOK, ConstantsAssumption
  <1> QED
    BY <1>1, <1>5, <1>6

\* Only capped shares get to the counter.
CappedConsume == \A h \in Requests : pc[h] = "consume" => MaxDownloads > 0

LEMMA ConsumeIInv ==
    ASSUME ConstantsAssumption, RetentionAssumption, IInv, CappedConsume,
           NEW h \in Requests, Consume(h)
    PROVE  IInv'
  <1>1. Granted(h) /\ MaxDownloads > 0
    BY DEF Consume, TakeSlot, Granted, CappedConsume
  <1>2. Current(h) = spent /\ spent < MaxDownloads /\ expiresAt \in Nat
    BY <1>1, CurrentIsSpent
  <1>3. TypeOK'
    BY <1>2, ConsumeTyped DEF IInv
  <1>4. counter' = spent' /\ spent' = spent + 1
    BY <1>2 DEF Consume, TakeSlot
  <1>5. CapNeverExceeded' /\ CounterIsSpent'
    BY <1>2, <1>4 DEF CapNeverExceeded, CounterIsSpent, IInv, TypeOK,
                      ConstantsAssumption
  <1>6. FastPathSound'
    <2>1. rec[h] \in Record
      BY <1>1 DEF IInv, TypeOK, Granted
    <2>2. /\ rec' = [rec EXCEPT ![h] = [rec[h] EXCEPT !.count = spent + 1]]
          /\ Visible' = Visible
      BY <1>2 DEF Consume, TakeSlot, records, Visible
    <2>3. rec'[h].count = spent + 1
      BY <2>1, <2>2 DEF Record, IInv, TypeOK
    <2>4. \A r \in Copies' : r \in Copies \/ r = rec'[h]
      BY <2>2 DEF Copies, IInv, TypeOK
    <2>5. \A r \in Copies : r.count \in Nat /\ r.count <= spent
      BY <1>1 DEF Copies, Visible, IInv, TypeOK, FastPathSound, Record
    <2> QED
      BY <1>4, <2>3, <2>4, <2>5 DEF FastPathSound, IInv, TypeOK
  <1>7. NothingYet' /\ WipeTime'
    BY <1>2, RecordsTyped
    DEF NothingYet, WipeTime, Consume, TakeSlot, records, IInv
  <1> QED
    BY <1>3, <1>5, <1>6, <1>7 DEF IInv

LEMMA ConsumeCrashIInv ==
    ASSUME ConstantsAssumption, RetentionAssumption, IInv, CappedConsume,
           NEW h \in Requests, ConsumeCrash(h)
    PROVE  IInv'
  <1>1. Granted(h) /\ MaxDownloads > 0
    BY DEF ConsumeCrash, Granted, CappedConsume
  <1>2. Current(h) = spent /\ spent < MaxDownloads /\ expiresAt \in Nat
    BY <1>1, CurrentIsSpent
  <1>3. counter' = spent' /\ spent' = spent + 1
    BY <1>2 DEF ConsumeCrash
  <1>4. TypeOK'
    BY <1>3, ReturnTyped DEF IInv, TypeOK, ConsumeCrash, records
  <1>5. CapNeverExceeded' /\ CounterIsSpent'
    BY <1>2, <1>3 DEF CapNeverExceeded, CounterIsSpent, IInv, TypeOK,
                      ConstantsAssumption
  <1>6. FastPathSound'
    <2>1. Copies' \subseteq Copies
      BY DEF Copies, Visible, ConsumeCrash, Return, records, IInv, TypeOK
    <2>2. \A r \in Copies : r.count \in Nat /\ r.count <= spent
      BY <1>1 DEF Copies, Visible, IInv, TypeOK, FastPathSound, Record
    <2> QED
      BY <1>3, <2>1, <2>2 DEF FastPathSound, IInv, TypeOK
  <1>7. NothingYet' /\ WipeTime'
    BY <1>2, RecordsTyped DEF NothingYet, WipeTime, ConsumeCrash, records, IInv
  <1> QED
    BY <1>4, <1>5, <1>6, <1>7 DEF IInv

\* The alarm wipes the counter only when its time has come.
LEMMA AlarmIInv ==
    ASSUME ConstantsAssumption, IInv, AlarmFires
    PROVE  IInv'
  <1>1. TypeOK'
    BY DEF IInv, TypeOK, AlarmFires, records, history
  <1>2. expiresAt # NoTime /\ now >= expiresAt + Retention
    BY DEF IInv, TypeOK, NothingYet, WipeTime, AlarmFires, ConstantsAssumption
  <1>3. Copies' = Copies
    BY DEF AlarmFires, Copies, Visible, records
  <1>4. CapNeverExceeded' /\ FastPathSound'
    BY <1>3 DEF IInv, CapNeverExceeded, FastPathSound, AlarmFires, history
  <1>5. CounterIsSpent'
    BY <1>2 DEF CounterIsSpent, AlarmFires, records
  <1>6. NothingYet' /\ WipeTime'
    BY <1>2 DEF NothingYet, WipeTime, AlarmFires, records
  <1> QED
    BY <1>1, <1>4, <1>5, <1>6 DEF IInv

-----------------------------------------------------------------------------
(* The invariant over a whole behaviour.                                   *)

\* A request moves to "consume" only when it loads a capped share.
LEMMA CappedConsumeStep ==
    ASSUME TypeOK, CappedConsume, [Next]_vars
    PROVE  CappedConsume'
  <1>1. ASSUME NEW h \in Requests, NEW label \in Labels \ {"consume"},
               Goto(h, label)
        PROVE  CappedConsume'
    BY <1>1 DEF CappedConsume, Goto, TypeOK
  <1>2. ASSUME NEW h \in Requests, Load(h)
        PROVE  CappedConsume'
    BY <1>1, <1>2 DEF Load, CappedConsume, Goto, TypeOK, Labels
  <1>3. ASSUME NEW h \in Requests,
               \/ CreateBegin(h) \/ CreatePut(h) \/ CreateIndex(h)
               \/ RevokeGet(h) \/ RevokePut(h) \/ RevokeIndex(h)
               \/ Consume(h) \/ DownloadPut(h) \/ DownloadIndex(h)
        PROVE  CappedConsume'
    BY <1>1, <1>3
    DEF CreateBegin, CreatePut, CreateIndex, RevokeGet, RevokePut, RevokeIndex,
        Consume, TakeSlot, DownloadPut, DownloadIndex, PutStep, IndexStep, Labels
  <1>4. ASSUME NEW h \in Requests,
               \/ CreateReply(h) \/ RevokeReply(h) \/ ConsumeRefused(h)
               \/ Serve(h) \/ ServeReadonly(h) \/ RequestDies(h)
               \/ ConsumeCrash(h)
        PROVE  CappedConsume'
    BY <1>1, <1>4
    DEF CreateReply, RevokeReply, ConsumeRefused, Serve, ServeReadonly,
        RequestDies, ConsumeCrash, Return, Labels
  <1>5. CASE AlarmFires \/ KvConverges \/ KvLapses \/ Tick \/ UNCHANGED vars
    BY <1>5
    DEF CappedConsume, AlarmFires, KvConverges, KvLapses, Tick, vars
  <1> QED
    BY <1>2, <1>3, <1>4, <1>5 DEF Next, Client, RequestStep

LEMMA NextIInv ==
    ASSUME ConstantsAssumption, RetentionAssumption, IInv, CappedConsume,
           [Next]_vars
    PROVE  IInv'
  <1>1. ASSUME NEW h \in Requests, Client(h)
        PROVE  IInv'
    BY <1>1, CreateBeginIInv, RevokeGetIInv, LoadIInv DEF Client
  <1>2. ASSUME NEW h \in Requests,
               CreatePut(h) \/ RevokePut(h) \/ DownloadPut(h)
        PROVE  IInv'
    BY <1>2, PutStepIInv DEF CreatePut, RevokePut, DownloadPut, Labels
  <1>3. ASSUME NEW h \in Requests,
               CreateIndex(h) \/ RevokeIndex(h) \/ DownloadIndex(h)
        PROVE  IInv'
    BY <1>3, IndexStepIInv DEF CreateIndex, RevokeIndex, DownloadIndex, Labels
  <1>4. ASSUME NEW h \in Requests,
               \/ CreateReply(h) \/ RevokeReply(h) \/ ConsumeRefused(h)
               \/ Serve(h) \/ ServeReadonly(h) \/ RequestDies(h)
        PROVE  IInv'
    <2>1. pc[h] # "idle" /\ Return(h)
      BY <1>4 DEF CreateReply, RevokeReply, ConsumeRefused, Serve,
                  ServeReadonly, RequestDies
    <2>2. UNCHANGED <<now, records, object, spent, crashes>>
      BY <1>4 DEF CreateReply, RevokeReply, ConsumeRefused, Serve,
                  ServeReadonly, RequestDies, history
    <2>3. served' \in Nat
      BY <1>4 DEF CreateReply, RevokeReply, ConsumeRefused, Serve,
                  ServeReadonly, RequestDies, history, IInv, TypeOK
    <2>4. created' \in BOOLEAN /\ revoked' \in BOOLEAN
      BY <1>4 DEF CreateReply, RevokeReply, ConsumeRefused, Serve,
                  ServeReadonly, RequestDies, history, IInv, TypeOK
    <2> QED
      BY <2>1, <2>2, <2>3, <2>4, ReturnIInv
  <1>5. ASSUME NEW h \in Requests, Consume(h) \/ ConsumeCrash(h)
        PROVE  IInv'
    BY <1>5, ConsumeIInv, ConsumeCrashIInv
  <1>6. CASE AlarmFires
    BY <1>6, AlarmIInv
  <1>7. CASE KvConverges \/ KvLapses \/ Tick
    BY <1>7, EnvironmentIInv
  <1>8. CASE UNCHANGED vars
    <2>1. Copies' = Copies
      BY <1>8 DEF vars, records, Copies, Visible
    <2> QED
      BY <1>8, <2>1
      DEF vars, records, object, history, IInv, TypeOK, NothingYet, WipeTime,
          CapNeverExceeded, FastPathSound, CounterIsSpent
  <1> QED
    BY <1>1, <1>2, <1>3, <1>4, <1>5, <1>6, <1>7, <1>8 DEF Next, RequestStep

\* Every reachable state satisfies the inductive invariant.
THEOREM Inductive == Spec => [](IInv /\ CappedConsume)
  <1>1. Init => IInv /\ CappedConsume
    BY InitIInv, ConstantsAssumption, SeedAssumption DEF Init, CappedConsume
  <1>2. IInv /\ CappedConsume /\ [Next]_vars => (IInv /\ CappedConsume)'
    BY NextIInv, CappedConsumeStep, ConstantsAssumption, RetentionAssumption
    DEF IInv
  <1> QED
    BY <1>1, <1>2, PTL DEF Spec

\* Every variable of a share link, and every copy of its record that a request
\* works on, is well typed in every reachable state.
THEOREM TypeCorrect == Spec => []TypeOK
  <1>1. IInv => TypeOK
    BY DEF IInv
  <1> QED
    BY <1>1, Inductive, PTL

\* A share never spends more slots than its cap (counter.ts).
THEOREM CapHolds == Spec => []CapNeverExceeded
  <1>1. IInv => CapNeverExceeded
    BY DEF IInv
  <1> QED
    BY <1>1, Inductive, PTL

\* The fast path of shareStillValid rejects as exhausted only a share whose slots
\* are spent (service.ts).
THEOREM FastPathHolds == Spec => []FastPathSound
  <1>1. IInv => FastPathSound
    BY DEF IInv
  <1> QED
    BY <1>1, Inductive, PTL

\* The counter, or what seeds it, tells the slots spent until no clock admits a
\* download any more (counter.ts).
THEOREM CounterHolds == Spec => []CounterIsSpent
  <1>1. IInv => CounterIsSpent
    BY DEF IInv
  <1> QED
    BY <1>1, Inductive, PTL

-----------------------------------------------------------------------------
(* A capped share implements ShareQuota.                                   *)

LEMMA PaidCount ==
    ASSUME ConstantsAssumption
    PROVE  IsFiniteSet(Paid) /\ Cardinality(Paid) \in Nat
  <1>1. IsFiniteSet(Paid)
    BY FS_Subset DEF ConstantsAssumption, Paid
  <1> QED
    BY <1>1, FS_CardinalityType

\* A request that takes its slot is one more that has paid ...
LEMMA PaidTake ==
    ASSUME ConstantsAssumption, TypeOK, NEW h \in Requests,
           pc[h] = "consume", Goto(h, "put")
    PROVE  Cardinality(Paid') = Cardinality(Paid) + 1
  <1>1. Paid' = Paid \union {h} /\ h \notin Paid
    BY DEF Paid, Goto, TypeOK
  <1> QED
    BY <1>1, PaidCount, FS_AddElement

\* ... and one that ends is one less, if it had.
LEMMA PaidReturn ==
    ASSUME ConstantsAssumption, TypeOK, NEW h \in Requests, Goto(h, "idle")
    PROVE  \/ h \notin Paid /\ Paid' = Paid
           \/ /\ h \in Paid
              /\ Cardinality(Paid) > 0
              /\ Cardinality(Paid') = Cardinality(Paid) - 1
  <1>1. Paid' = Paid \ {h}
    BY DEF Paid, Goto, TypeOK
  <1>2. CASE h \in Paid
    <2>1. Cardinality(Paid') = Cardinality(Paid) - 1
      BY <1>1, <1>2, PaidCount, FS_RemoveElement
    <2>2. Cardinality(Paid') \in Nat
      BY <1>1, PaidCount, FS_Subset, FS_CardinalityType
    <2> QED
      BY <1>2, <2>1, <2>2, PaidCount
  <1> QED
    BY <1>1, <1>2

LEMMA QuotaInit ==
    ASSUME ConstantsAssumption, Init
    PROVE  Quota!Init
  <1>1. Paid = {}
    BY DEF Init, Paid
  <1>2. Cardinality(Paid) = 0
    BY <1>1, FS_EmptySet
  <1> QED
    BY <1>2 DEF Init, Quota!Init, ConstantsAssumption

\* Every step of a capped share is a step of its quota, or none.
LEMMA QuotaStep ==
    ASSUME ConstantsAssumption, RetentionAssumption, MaxDownloads > 0,
           IInv, [Next]_vars
    PROVE  [Quota!Next]_Quota!vars
  <1> USE DEF Quota!Next, Quota!vars
  <1>1. ASSUME UNCHANGED <<spent, served>>, Paid' = Paid
        PROVE  [Quota!Next]_Quota!vars
    BY <1>1
  <1>2. ASSUME NEW h \in Requests, Client(h)
        PROVE  [Quota!Next]_Quota!vars
    <2>1. UNCHANGED <<spent, served>>
      BY <1>2 DEF Client, CreateBegin, RevokeGet, Load, history
    <2>2. MaxDownloads # 0
      BY DEF ConstantsAssumption
    <2>3. pc[h] = "idle"
      BY <1>2 DEF Client, CreateBegin, RevokeGet, Load
    <2>4. PICK to \in {"create.put", "revoke.put", "readonly.get", "consume"} :
              Goto(h, to)
      BY <1>2, <2>2 DEF Client, CreateBegin, RevokeGet, Load
    <2>5. Paid' = Paid
      BY <2>3, <2>4 DEF Goto, Paid, IInv, TypeOK
    <2> QED
      BY <1>1, <2>1, <2>5
  <1>3. ASSUME NEW h \in Requests,
               \/ CreatePut(h) \/ RevokePut(h) \/ DownloadPut(h)
               \/ CreateIndex(h) \/ RevokeIndex(h) \/ DownloadIndex(h)
        PROVE  [Quota!Next]_Quota!vars
    <2>1. UNCHANGED <<spent, served>>
      BY <1>3 DEF CreatePut, RevokePut, DownloadPut, CreateIndex, RevokeIndex,
                  DownloadIndex, PutStep, IndexStep, history
    <2>2. PICK from \in Labels, to \in Labels :
              /\ pc[h] = from /\ Goto(h, to)
              /\ from \in {"put", "index", "get"} <=> to \in {"put", "index", "get"}
      BY <1>3 DEF CreatePut, RevokePut, DownloadPut, CreateIndex, RevokeIndex,
                  DownloadIndex, PutStep, IndexStep, Labels
    <2>3. Paid' = Paid
      BY <2>2 DEF Goto, Paid, IInv, TypeOK
    <2> QED
      BY <1>1, <2>1, <2>3
  <1>4. ASSUME NEW h \in Requests,
               \/ CreateReply(h) \/ RevokeReply(h) \/ ConsumeRefused(h)
               \/ ServeReadonly(h) \/ RequestDies(h)
        PROVE  [Quota!Next]_Quota!vars
    <2>1. UNCHANGED <<spent, served>>
      BY <1>4 DEF CreateReply, RevokeReply, ConsumeRefused, ServeReadonly,
                  RequestDies, history
    <2>2. Goto(h, "idle")
      BY <1>4 DEF CreateReply, RevokeReply, ConsumeRefused, ServeReadonly,
                  RequestDies, Return
    <2>3. CASE Paid' = Paid
      BY <1>1, <2>1, <2>3
    <2>4. CASE Cardinality(Paid) > 0 /\ Cardinality(Paid') = Cardinality(Paid) - 1
      BY <2>1, <2>4 DEF Quota!Lose
    <2> QED
      BY <2>2, <2>3, <2>4, PaidReturn DEF IInv
  <1>5. ASSUME NEW h \in Requests, Serve(h)
        PROVE  [Quota!Next]_Quota!vars
    <2>1. Goto(h, "idle") /\ h \in Paid /\ UNCHANGED spent /\ served' = served + 1
      BY <1>5 DEF Serve, Return, Paid
    <2>2. Cardinality(Paid) > 0 /\ Cardinality(Paid') = Cardinality(Paid) - 1
      BY <2>1, PaidReturn DEF IInv
    <2> QED
      BY <2>1, <2>2 DEF Quota!Deliver
  <1>6. ASSUME NEW h \in Requests, Consume(h)
        PROVE  [Quota!Next]_Quota!vars
    <2>1. spent < MaxDownloads
      BY <1>6, CurrentIsSpent DEF Consume, TakeSlot
    <2>2. pc[h] = "consume" /\ Goto(h, "put") /\ spent' = spent + 1 /\ UNCHANGED served
      BY <1>6 DEF Consume, TakeSlot, Granted
    <2>3. Cardinality(Paid') = Cardinality(Paid) + 1
      BY <2>2, PaidTake DEF IInv
    <2> QED
      BY <2>1, <2>2, <2>3 DEF Quota!Take, IInv, TypeOK, ConstantsAssumption
  <1>7. ASSUME NEW h \in Requests, ConsumeCrash(h)
        PROVE  [Quota!Next]_Quota!vars
    <2>1. spent < MaxDownloads
      BY <1>7, CurrentIsSpent DEF ConsumeCrash
    <2>2. pc[h] = "consume" /\ Goto(h, "idle") /\ spent' = spent + 1 /\ UNCHANGED served
      BY <1>7 DEF ConsumeCrash, Granted, Return
    <2>3. Paid' = Paid
      BY <2>2 DEF Goto, Paid, IInv, TypeOK
    <2> QED
      BY <2>1, <2>2, <2>3 DEF Quota!Waste, IInv, TypeOK, ConstantsAssumption
  <1>8. CASE AlarmFires \/ KvConverges \/ KvLapses \/ Tick \/ UNCHANGED vars
    <2>1. UNCHANGED <<spent, served, pc>>
      BY <1>8 DEF AlarmFires, KvConverges, KvLapses, Tick, vars, history
    <2> QED
      BY <1>1, <2>1 DEF Paid
  <1> QED
    BY <1>2, <1>3, <1>4, <1>5, <1>6, <1>7, <1>8 DEF Next, RequestStep

\* A capped share implements the quota its cap promises: each download that is
\* accounted for is served once for a slot it took before, and slots run out.
THEOREM CappedImplementsQuota ==
    ASSUME MaxDownloads > 0
    PROVE  Spec => QuotaSpec
  <1>1. Init => Quota!Init
    BY QuotaInit, ConstantsAssumption
  <1>2. IInv /\ [Next]_vars => [Quota!Next]_Quota!vars
    BY QuotaStep, ConstantsAssumption, RetentionAssumption
  <1> QED
    BY <1>1, <1>2, Inductive, PTL DEF Spec, QuotaSpec, Quota!Spec

\* What was served, and what is about to be, was paid for.
PaidFor == served + Cardinality(Paid) <= spent

LEMMA PaidForStep ==
    ASSUME ConstantsAssumption, IInv, IInv', PaidFor,
           [Quota!Next]_Quota!vars
    PROVE  PaidFor'
  <1>1. PICK n \in Nat : n = Cardinality(Paid)
    BY PaidCount
  <1>2. PICK m \in Nat : m = Cardinality(Paid')
    <2>1. IsFiniteSet(Paid')
      BY FS_Subset DEF ConstantsAssumption, Paid
    <2> QED
      BY <2>1, FS_CardinalityType
  <1>3. MaxDownloads \in Nat /\ spent \in Nat /\ served \in Nat
    BY DEF IInv, TypeOK, ConstantsAssumption
  <1>4. spent' \in Nat /\ served' \in Nat
    BY DEF IInv, TypeOK
  <1>5. served + n <= spent
    BY <1>1 DEF PaidFor
  <1>6. /\ MaxDownloads - spent' = MaxDownloads - spent => spent' = spent
        /\ MaxDownloads - spent' = MaxDownloads - spent - 1 => spent' = spent + 1
    <2>1. PICK c \in Nat, s \in Nat, t \in Nat :
              c = MaxDownloads /\ s = spent /\ t = spent'
      BY <1>3, <1>4
    <2>2. (c - t = c - s => t = s) /\ (c - t = c - s - 1 => t = s + 1)
      OBVIOUS
    <2> QED
      BY <2>1, <2>2, Zenon
  <1>7. served' + m <= spent'
    <2>1. CASE Quota!Take
      BY <1>1, <1>2, <1>3, <1>4, <1>5, <1>6, <2>1 DEF Quota!Take
    <2>2. CASE Quota!Waste
      BY <1>1, <1>2, <1>3, <1>4, <1>5, <1>6, <2>2 DEF Quota!Waste
    <2>3. CASE Quota!Deliver
      BY <1>1, <1>2, <1>3, <1>4, <1>5, <1>6, <2>3 DEF Quota!Deliver
    <2>4. CASE Quota!Lose
      BY <1>1, <1>2, <1>3, <1>4, <1>5, <1>6, <2>4 DEF Quota!Lose
    <2>5. CASE UNCHANGED Quota!vars
      BY <1>1, <1>2, <1>3, <1>4, <1>5, <1>6, <2>5 DEF Quota!vars
    <2> QED
      BY <2>1, <2>2, <2>3, <2>4, <2>5 DEF Quota!Next
  <1> QED
    BY <1>2, <1>7 DEF PaidFor

\* A capped share never serves more accounted downloads than its cap, counting
\* those whose answers are under way.
THEOREM DownloadsWithinCap ==
    ASSUME MaxDownloads > 0
    PROVE  Spec => [](served + Cardinality(Paid) <= MaxDownloads)
  <1>1. Init => PaidFor
    <2>1. ASSUME Init
          PROVE  served = 0 /\ Paid = {} /\ spent \in Nat
      BY <2>1, ConstantsAssumption DEF Init, Paid, ConstantsAssumption
    <2> QED
      BY <2>1, FS_EmptySet DEF PaidFor
  <1>2. IInv /\ IInv' /\ PaidFor /\ [Next]_vars => PaidFor'
    BY QuotaStep, PaidForStep, ConstantsAssumption, RetentionAssumption
  <1>3. IInv /\ PaidFor => served + Cardinality(Paid) <= MaxDownloads
    BY PaidCount, ConstantsAssumption
    DEF IInv, TypeOK, CapNeverExceeded, PaidFor, ConstantsAssumption
  <1> QED
    BY <1>1, <1>2, <1>3, Inductive, PTL DEF Spec

-----------------------------------------------------------------------------
(* The wipe of the counter.                                                *)

\* Without an alarm, no download has been let through, and the count is there
\* only after a failure; or the counter has been wiped for good.
Armed ==
    MaxDownloads > 0 /\ alarm = NoTime =>
        \/ Paid = {} /\ served = 0 /\ (counter = NoCount \/ crashes > 0)
        \/ counter = NoCount /\ expiresAt # NoTime /\ now >= expiresAt + Retention

\* After the wipe no clock admits a download.
LEMMA NotGrantedLate ==
    ASSUME ConstantsAssumption, RetentionAssumption, TypeOK, NEW h \in Requests, Granted(h),
           expiresAt # NoTime
    PROVE  ~(now >= expiresAt + Retention)
  BY DEF Granted, Readings, Reads, TypeOK, ConstantsAssumption, RetentionAssumption

LEMMA ConsumeArmed ==
    ASSUME ConstantsAssumption, RetentionAssumption, IInv, Armed, NEW h \in Requests,
           Consume(h) \/ ConsumeCrash(h)
    PROVE  Armed'
  <1> USE DEF records, object
  <1>1. /\ TypeOK /\ WipeTime /\ Granted(h)
        /\ expiresAt \in Nat /\ NoTime \notin Nat
    BY RecordsTyped
    DEF IInv, NothingYet, Consume, TakeSlot, ConsumeCrash, Granted, TypeOK
  <1>2. CASE Consume(h)
    <2>1. alarm' = IF alarm = NoTime THEN expiresAt + Retention ELSE alarm
      BY <1>2 DEF Consume, TakeSlot
    <2>2. alarm' # NoTime
      BY <1>1, <2>1 DEF ConstantsAssumption
    <2> QED
      BY <2>2 DEF Armed
  <1>3. CASE ConsumeCrash(h)
    <2>1. UNCHANGED <<alarm, served>> /\ crashes' > 0
      BY <1>1, <1>3 DEF ConsumeCrash, TypeOK
    <2>2. Paid' = Paid
      BY <1>1, <1>3 DEF ConsumeCrash, Granted, Return, Goto, Paid, TypeOK
    <2>3. ~(now >= expiresAt + Retention)
      BY <1>1, NotGrantedLate DEF ConstantsAssumption
    <2> QED
      BY <2>1, <2>2, <2>3 DEF Armed
  <1> QED
    BY <1>2, <1>3

\* Who is at a download came from one, or from the counter.
LEMMA PaidFrom ==
    ASSUME ConstantsAssumption, TypeOK, MaxDownloads > 0, NEW h \in Requests,
           Client(h) \/ RequestStep(h) \/ RequestDies(h)
    PROVE  Consume(h) \/ (Paid' \subseteq Paid /\ UNCHANGED <<counter, alarm, crashes, now>>)
  <1> USE DEF records, object, history, Goto, Paid, TypeOK
  <1>1. CASE CreateBegin(h) \/ RevokeGet(h)
    BY <1>1 DEF CreateBegin, RevokeGet
  <1>2. CASE Load(h)
    <2>1. pc' = [pc EXCEPT ![h] = "consume"] \/ pc' = [pc EXCEPT ![h] = "readonly.get"]
      BY <1>2 DEF Load, ConstantsAssumption
    <2> QED
      BY <1>2, <2>1 DEF Load
  <1>3. CASE CreatePut(h) \/ RevokePut(h) \/ DownloadPut(h)
    BY <1>3 DEF CreatePut, RevokePut, DownloadPut, PutStep
  <1>4. CASE CreateIndex(h) \/ RevokeIndex(h) \/ DownloadIndex(h)
    BY <1>4 DEF CreateIndex, RevokeIndex, DownloadIndex, IndexStep
  <1>5. CASE \/ CreateReply(h) \/ RevokeReply(h) \/ ConsumeRefused(h) \/ Serve(h)
             \/ ServeReadonly(h) \/ RequestDies(h)
    BY <1>5 DEF CreateReply, RevokeReply, ConsumeRefused, Serve, ServeReadonly, RequestDies,
       Return
  <1> QED
    BY <1>1, <1>2, <1>3, <1>4, <1>5 DEF Client, RequestStep

LEMMA RequestArmed ==
    ASSUME ConstantsAssumption, IInv, Armed, NEW h \in Requests,
           Client(h) \/ RequestStep(h) \/ RequestDies(h), ~Consume(h)
    PROVE  Armed'
  <1> SUFFICES ASSUME MaxDownloads > 0, alarm' = NoTime
               PROVE  \/ Paid' = {} /\ served' = 0 /\ (counter' = NoCount \/ crashes' > 0)
                      \/ /\ counter' = NoCount /\ expiresAt' # NoTime
                         /\ now' >= expiresAt' + Retention
    BY DEF Armed
  <1>1. TypeOK /\ Paid' \subseteq Paid /\ UNCHANGED <<counter, alarm, crashes, now>>
    BY PaidFrom DEF IInv
  <1>2. CASE counter = NoCount /\ expiresAt # NoTime /\ now >= expiresAt + Retention
    <2>1. UNCHANGED expiresAt
      BY <1>2 DEF Client, CreateBegin, RevokeGet, Load, RequestStep, CreatePut, RevokePut,
         DownloadPut, PutStep, CreateIndex, RevokeIndex, DownloadIndex, IndexStep, CreateReply,
         RevokeReply, ConsumeRefused, Serve, ServeReadonly, RequestDies, records
    <2> QED
      BY <1>1, <1>2, <2>1
  <1>3. CASE Paid = {} /\ served = 0 /\ (counter = NoCount \/ crashes > 0)
    <2>1. served' = served \/ Serve(h)
      BY DEF Client, CreateBegin, RevokeGet, Load, RequestStep, CreatePut, RevokePut,
         DownloadPut, PutStep, CreateIndex, RevokeIndex, DownloadIndex, IndexStep, CreateReply,
         RevokeReply, ConsumeRefused, ServeReadonly, RequestDies, history
    <2>2. ~Serve(h)
      BY <1>3 DEF Serve, Paid
    <2> QED
      BY <1>1, <1>3, <2>1, <2>2
  <1> QED
    BY <1>1, <1>2, <1>3 DEF Armed

LEMMA EnvironmentArmed ==
    ASSUME ConstantsAssumption, IInv, Armed,
           AlarmFires \/ KvConverges \/ KvLapses \/ Tick \/ UNCHANGED vars
    PROVE  Armed'
  <1> USE DEF records, object, history
  <1>1. /\ TypeOK /\ WipeTime /\ Retention \in Nat /\ NoTime \notin Nat
        /\ alarm # NoTime => expiresAt \in Nat
    BY DEF IInv, TypeOK, NothingYet, ConstantsAssumption
  <1>2. CASE AlarmFires
    BY <1>1, <1>2 DEF AlarmFires, WipeTime, Armed
  <1>3. CASE KvConverges \/ KvLapses \/ UNCHANGED vars
    BY <1>3 DEF KvConverges, KvLapses, vars, Armed, Paid
  <1>4. CASE Tick
    BY <1>1, <1>4 DEF Tick, Armed, Paid, TypeOK
  <1> QED
    BY <1>2, <1>3, <1>4

\* A counter that is stored is wiped at the end of the retention, unless the object
\* failed between its writes and has let no download through (counter.ts).
THEOREM WipeHolds == Spec => []WipeArmed
  <1>1. Init => Armed
    BY DEF Init, Armed, Paid
  <1>2. IInv /\ Armed /\ [Next]_vars => Armed'
    BY ConsumeArmed, RequestArmed, EnvironmentArmed, ConstantsAssumption, RetentionAssumption
    DEF Next
  <1>3. IInv /\ Armed => WipeArmed
    BY DEF IInv, WipeTime, Armed, WipeArmed
  <1> QED
    BY <1>1, <1>2, <1>3, Inductive, PTL DEF Spec

-----------------------------------------------------------------------------
(* Listing and revocation.                                                 *)

\* While any clock may still show the share as valid, its record and its entry
\* are there from the moment its creator has written them.
Listed ==
    /\ created => expiresAt # NoTime
    /\ expiresAt # NoTime /\ now + Skew < expiresAt =>
         /\ created => index /\ kv # NoRecord
         /\ \A h \in Requests :
              /\ pc[h] \in {"create.index", "create.reply"} => kv # NoRecord
              /\ pc[h] = "create.reply" => index

\* A download under way goes by a copy that was not revoked.
Downloading ==
    \A h \in Requests :
        pc[h] \in {"consume", "put", "index", "get"} => ~rec[h].revoked

LInv == IInv /\ CappedConsume /\ Listed /\ Downloading

LEMMA RequestListed ==
    ASSUME ConstantsAssumption, LInv, NEW h \in Requests,
           Client(h) \/ RequestStep(h) \/ ConsumeCrash(h) \/ RequestDies(h)
    PROVE  Listed'
  <1> USE DEF records, object, history
  <1>1. /\ rec[h] \in Record \/ pc[h] = "idle"
        /\ NoRecord \notin Record
        /\ TypeOK /\ Listed /\ NothingYet
    BY RecordsTyped DEF LInv, IInv, TypeOK
  <1>2. CASE CreateBegin(h)
    <2>1. expiresAt = NoTime /\ ~created /\ UNCHANGED created
      BY <1>1, <1>2 DEF CreateBegin, Listed
    <2>2. expiresAt' \in Nat
      BY <1>1, <1>2 DEF CreateBegin, Readings, ConstantsAssumption, TypeOK
    <2>3. \A g \in Requests : pc'[g] \notin {"create.index", "create.reply"}
      BY <1>1, <1>2, <2>1 DEF CreateBegin, Goto, NothingYet, TypeOK
    <2> QED
      BY <2>1, <2>2, <2>3 DEF Listed, ConstantsAssumption
  <1>3. CASE RevokeGet(h) \/ Load(h)
    <2>1. UNCHANGED <<now, kv, index, expiresAt, created>>
      BY <1>3 DEF RevokeGet, Load
    <2>2. \A g \in Requests :
            pc'[g] \in {"create.index", "create.reply"} => pc'[g] = pc[g]
      BY <1>1, <1>3 DEF RevokeGet, Load, Goto, TypeOK
    <2> QED
      BY <1>1, <2>1, <2>2 DEF Listed
  <1>4. CASE CreatePut(h) \/ RevokePut(h) \/ DownloadPut(h)
    <2>1. kv' # NoRecord /\ UNCHANGED <<now, index, expiresAt, created>>
      BY <1>1, <1>4 DEF CreatePut, RevokePut, DownloadPut, PutStep, PutRecord
    <2>2. \A g \in Requests : pc'[g] = "create.reply" => pc[g] = "create.reply"
      BY <1>1, <1>4 DEF CreatePut, RevokePut, DownloadPut, PutStep, Goto, TypeOK
    <2> QED
      BY <1>1, <2>1, <2>2 DEF Listed
  <1>5. CASE CreateIndex(h) \/ RevokeIndex(h) \/ DownloadIndex(h)
    BY <1>1, <1>5 DEF CreateIndex, RevokeIndex, DownloadIndex, IndexStep, Listed, Goto, TypeOK
  <1>6. CASE CreateReply(h)
    <2>1. expiresAt # NoTime
      BY <1>1, <1>6 DEF CreateReply, NothingYet
    <2> QED
      BY <1>1, <1>6, <2>1 DEF CreateReply, Return, Listed, Goto, TypeOK
  <1>7. CASE \/ RevokeReply(h) \/ ConsumeRefused(h) \/ Serve(h)
             \/ ServeReadonly(h) \/ RequestDies(h) \/ ConsumeCrash(h)
    BY <1>1, <1>7 DEF RevokeReply, ConsumeRefused, Serve, ServeReadonly, RequestDies,
       ConsumeCrash, Return, Listed, Goto, TypeOK
  <1>8. CASE Consume(h)
    BY <1>1, <1>8 DEF Consume, TakeSlot, Listed, Goto, TypeOK
  <1> QED
    BY <1>2, <1>3, <1>4, <1>5, <1>6, <1>7, <1>8 DEF Client, RequestStep

LEMMA RequestDownloading ==
    ASSUME ConstantsAssumption, LInv, NEW h \in Requests,
           Client(h) \/ RequestStep(h) \/ ConsumeCrash(h) \/ RequestDies(h)
    PROVE  Downloading'
  <1> USE DEF records, object, history
  <1>1. TypeOK /\ Downloading
    BY DEF LInv, IInv
  <1>2. CASE CreateBegin(h) \/ RevokeGet(h)
    BY <1>1, <1>2 DEF CreateBegin, RevokeGet, Downloading, Goto, TypeOK
  <1>3. CASE Load(h)
    <2>1. PICK r \in Record : /\ ~r.revoked
                              /\ \/ rec' = [rec EXCEPT ![h] = r]
                                 \/ rec' = [rec EXCEPT ![h] = [r EXCEPT !.count = @ + 1]]
      BY <1>1, <1>3 DEF Load, ShareStillValid, Visible, TypeOK
    <2>2. ~rec'[h].revoked /\ \A g \in Requests : g # h => rec'[g] = rec[g]
      BY <1>1, <2>1 DEF TypeOK, Record
    <2>3. \A g \in Requests : g # h => pc'[g] = pc[g]
      BY <1>1, <1>3 DEF Load, Goto, TypeOK
    <2> QED
      BY <1>1, <2>2, <2>3 DEF Downloading
  <1>4. CASE CreatePut(h) \/ RevokePut(h) \/ DownloadPut(h)
    BY <1>1, <1>4 DEF CreatePut, RevokePut, DownloadPut, PutStep, Downloading, Goto, TypeOK
  <1>5. CASE CreateIndex(h) \/ RevokeIndex(h) \/ DownloadIndex(h)
    BY <1>1, <1>5 DEF CreateIndex, RevokeIndex, DownloadIndex, IndexStep, Downloading, Goto,
       TypeOK
  <1>6. CASE \/ CreateReply(h) \/ RevokeReply(h) \/ ConsumeRefused(h) \/ Serve(h)
             \/ ServeReadonly(h) \/ RequestDies(h) \/ ConsumeCrash(h)
    BY <1>1, <1>6 DEF CreateReply, RevokeReply, ConsumeRefused, Serve, ServeReadonly,
       RequestDies, ConsumeCrash, Return, Downloading, Goto, TypeOK
  <1>7. CASE Consume(h)
    <2>1. pc[h] = "consume" /\ rec[h] \in Record
      BY <1>1, <1>7 DEF Consume, TakeSlot, Granted, TypeOK
    <2>2. rec' = [rec EXCEPT ![h] = [rec[h] EXCEPT !.count = Current(h) + 1]]
      BY <1>7 DEF Consume, TakeSlot
    <2>3. rec'[h].revoked = rec[h].revoked /\ \A g \in Requests : g # h => rec'[g] = rec[g]
      BY <1>1, <2>1, <2>2 DEF TypeOK, Record
    <2>4. \A g \in Requests : g # h => pc'[g] = pc[g]
      BY <1>1, <1>7 DEF Consume, TakeSlot, Goto, TypeOK
    <2> QED
      BY <1>1, <2>1, <2>3, <2>4 DEF Downloading
  <1> QED
    BY <1>2, <1>3, <1>4, <1>5, <1>6, <1>7 DEF Client, RequestStep

LEMMA EnvironmentListed ==
    ASSUME ConstantsAssumption, LInv,
           AlarmFires \/ KvConverges \/ KvLapses \/ Tick \/ UNCHANGED vars
    PROVE  Listed' /\ Downloading'
  <1> USE DEF records, object, history
  <1>1. TypeOK /\ Listed /\ Downloading
    BY DEF LInv, IInv
  <1>2. CASE KvLapses
    BY <1>1, <1>2 DEF KvLapses, Listed, Downloading, TypeOK, ConstantsAssumption
  <1>3. CASE AlarmFires \/ KvConverges \/ UNCHANGED vars
    BY <1>1, <1>3 DEF AlarmFires, KvConverges, vars, Listed, Downloading
  <1>4. CASE Tick
    BY <1>1, <1>4 DEF Tick, Listed, Downloading, TypeOK, ConstantsAssumption
  <1> QED
    BY <1>2, <1>3, <1>4

\* Every reachable state satisfies this invariant too.
THEOREM ListedInductive == Spec => []LInv
  <1>1. Init => Listed /\ Downloading
    BY RecordsTyped, ConstantsAssumption DEF Init, Listed, Downloading, ConstantsAssumption
  <1>2. LInv /\ [Next]_vars => Listed' /\ Downloading'
    BY RequestListed, RequestDownloading, EnvironmentListed, ConstantsAssumption DEF Next
  <1> QED
    BY <1>1, <1>2, Inductive, PTL DEF Spec, LInv

\* A share whose creation was answered is listed until the first clock may show
\* that it has expired (createShare and the expirations of service.ts).
THEOREM ListedHolds == Spec => []CreatedIsListed
  <1>1. LInv => CreatedIsListed
    BY DEF LInv, Listed, CreatedIsListed
  <1> QED
    BY <1>1, ListedInductive, PTL

LEMMA RevocationStep ==
    ASSUME ConstantsAssumption, LInv, [Next]_vars, RevocationSettled
    PROVE  (\A r \in Copies' : r.revoked) /\ spent' = spent /\ served' = served
  <1> USE DEF records, object, history
  <1>1. TypeOK /\ NothingYet /\ Downloading
    BY DEF LInv, IInv
  <1>2. expiresAt # NoTime
    BY <1>1 DEF RevocationSettled, Copies, Visible, NothingYet
  <1>3. \A h \in Requests : pc[h] # "idle" => rec[h] \in Record /\ rec[h].revoked
    BY <1>1, RecordsTyped DEF RevocationSettled, Copies, TypeOK
  <1>4. \A r \in Visible \ {NoRecord} : r.revoked
    BY DEF RevocationSettled, Copies
  <1>5. \A h \in Requests : pc[h] \notin {"consume", "put", "index", "get"}
    BY <1>1, <1>3 DEF Downloading
  <1>6. ASSUME NEW h \in Requests, RevokeGet(h)
        PROVE  \A r \in Copies' : r.revoked
    <2>1. PICK r \in Visible \ {NoRecord} : rec' = [rec EXCEPT ![h] = [r EXCEPT !.revoked = TRUE]]
      BY <1>6 DEF RevokeGet
    <2>2. r \in Record
      BY <1>1 DEF Visible, TypeOK
    <2>3. rec'[h].revoked /\ \A g \in Requests : g # h => rec'[g] = rec[g]
      BY <1>1, <2>1, <2>2 DEF TypeOK, Record
    <2>4. Visible' = Visible
      BY <1>6 DEF RevokeGet, Visible
    <2> QED
      BY <2>3, <2>4 DEF Copies, RevocationSettled
  <1>7. ASSUME NEW h \in Requests, RevokePut(h) \/ CreatePut(h)
        PROVE  \A r \in Copies' : r.revoked
    <2>1. Visible' \subseteq Visible \union {rec[h]} /\ UNCHANGED rec
      BY <1>7 DEF RevokePut, CreatePut, PutStep, PutRecord, Visible
    <2> QED
      BY <2>1 DEF Copies, RevocationSettled
  <1>8. ASSUME NEW h \in Requests,
               \/ CreateIndex(h) \/ RevokeIndex(h) \/ CreateReply(h) \/ RevokeReply(h)
               \/ ServeReadonly(h) \/ RequestDies(h)
        PROVE  \A r \in Copies' : r.revoked
    <2>1. Visible' = Visible
      BY <1>8 DEF CreateIndex, RevokeIndex, IndexStep, CreateReply, RevokeReply, ServeReadonly,
         RequestDies, Visible
    <2>2. \A g \in Requests : rec'[g] = rec[g] \/ rec'[g] = NoRecord
      BY <1>1, <1>8 DEF CreateIndex, RevokeIndex, IndexStep, CreateReply, RevokeReply,
         ServeReadonly, RequestDies, Return, TypeOK
    <2> QED
      BY <2>1, <2>2 DEF Copies, RevocationSettled
  <1>9. ASSUME AlarmFires \/ KvConverges \/ KvLapses \/ Tick \/ UNCHANGED vars
        PROVE  \A r \in Copies' : r.revoked
    <2>1. Visible' \subseteq Visible \union {NoRecord} /\ UNCHANGED rec
      BY <1>9 DEF AlarmFires, KvConverges, KvLapses, PutRecord, Tick, vars, Visible
    <2> QED
      BY <2>1 DEF Copies, RevocationSettled
  <1>10. ASSUME NEW h \in Requests
         PROVE  ~\/ CreateBegin(h) \/ Load(h) \/ Consume(h) \/ ConsumeRefused(h)
                 \/ ConsumeCrash(h) \/ DownloadPut(h) \/ DownloadIndex(h) \/ Serve(h)
    BY <1>2, <1>4, <1>5 DEF CreateBegin, Load, ShareStillValid, Consume, ConsumeRefused,
       ConsumeCrash, TakeSlot, Granted, DownloadPut, DownloadIndex, PutStep, IndexStep, Serve
  <1>11. \A r \in Copies' : r.revoked
    BY <1>6, <1>7, <1>8, <1>9, <1>10 DEF Next, Client, RequestStep
  <1>12. spent' = spent /\ served' = served
    <2>1. ASSUME NEW h \in Requests,
                 \/ RevokeGet(h) \/ RevokePut(h) \/ CreatePut(h) \/ CreateIndex(h)
                 \/ RevokeIndex(h) \/ CreateReply(h) \/ RevokeReply(h)
                 \/ ServeReadonly(h) \/ RequestDies(h)
          PROVE  spent' = spent /\ served' = served
      BY <2>1 DEF RevokeGet, RevokePut, CreatePut, PutStep, CreateIndex, RevokeIndex, IndexStep,
         CreateReply, RevokeReply, ServeReadonly, RequestDies
    <2>2. CASE AlarmFires \/ KvConverges \/ KvLapses \/ Tick \/ UNCHANGED vars
      BY <2>2 DEF AlarmFires, KvConverges, KvLapses, Tick, vars
    <2> QED
      BY <2>1, <2>2, <1>10 DEF Next, Client, RequestStep
  <1> QED
    BY <1>11, <1>12

\* A share of which every copy is revoked stays so, and neither spends nor serves
\* anything more (loadServableShare, revokeShare).
THEOREM RevocationHolds == Spec => RevocationSticks
  <1>1. LInv /\ [Next]_vars =>
          (RevocationSettled =>
             (\A r \in Copies' : r.revoked) /\ spent' = spent /\ served' = served)
    BY RevocationStep, ConstantsAssumption
  <1>2. Spec => [][Next]_vars
    BY PTL DEF Spec
  <1> QED
    BY <1>1, <1>2, ListedInductive, PTL DEF RevocationSticks
=============================================================================
