--------------------------- MODULE BookingProofs ---------------------------
(***************************************************************************)
(* Theorems about Booking, for any number of requests, changes, workers,   *)
(* barbers and branches, any policy and any hours.                         *)
(***************************************************************************)
EXTENDS Booking, FiniteSetTheorems, TLAPS

-----------------------------------------------------------------------------
(***************************************************************************)
(* Types.  TypeOK alone is not inductive: a change writes the row it       *)
(* loaded, and a request takes the head of its drafts.                     *)
(***************************************************************************)
DraftsLeft == \A p \in Procs : InTx(p) => drafts[p] # << >>

ChangeShape ==
    \A c \in Changers : Holding(c) =>
        /\ changes[c].act \in Actions \ {"expire"}
        /\ changes[c].user \in Users
        /\ changes[c].appt \in Procs
        /\ changes[c].row \in Row
        /\ rows[changes[c].appt] # None

BatchShape ==
    \A e \in Expirers : expiring[e].pc = "held" =>
        \A a \in expiring[e].batch : rows[a] # None

TypeInv == TypeOK /\ DraftsLeft /\ ChangeShape /\ BatchShape

\* What a request would save is an appointment row, whichever barber it tries.
LEMMA DraftType ==
    ASSUME TypeOK, NEW p \in Procs, NEW b \in Barbers
    PROVE  Draft(p, b) \in Row
<1> DEFINE c == cmd[p]
<1> DEFINE po == Policy[c.branch]
<1>1. c \in Command /\ seen[p] \in Nat
  BY CatalogAssumption DEF TypeOK
<1>2. /\ c.branch \in Branches /\ c.requester \in Users /\ c.start \in Nat
      /\ c.kind \in Sources /\ c.sel \in Selections
  BY <1>1 DEF Command
<1>3. /\ po.buffer \in Nat /\ po.pendingExpiry \in Nat
      /\ po.cancellationWindow \in Nat /\ po.autoConfirm \in BOOLEAN
  BY <1>2, CatalogAssumption
<1>4. Duration[c.sel][b] \in Nat
  BY <1>2, CatalogAssumption
<1> HIDE DEF c, po
<1>5. QED
  BY <1>1, <1>2, <1>3, <1>4
  DEF Draft, Book, Row, Statuses, Sources, IsCustomer, NoTime, c, po

\* A change leaves an appointment row: the same booking, in the action's
\* status, without an expiry and one version on.
LEMMA AfterFacts ==
    ASSUME NEW act \in Actions, NEW r \in Row
    PROVE  LET new == After(act, r)
           IN  /\ new \in Row
               /\ new.status = Target(act)
               /\ new.pendingUntil = NoTime
               /\ new.cancelledBy = Canceller(act)
               /\ new.version = r.version + 1
               /\ new.branch = r.branch
               /\ new.barber = r.barber
               /\ new.start = r.start
               /\ new.busyUntil = r.busyUntil
<1> DEFINE r1 == [r EXCEPT !.status = Target(act)]
<1> DEFINE r2 == [r1 EXCEPT !.pendingUntil = NoTime]
<1> DEFINE r3 == [r2 EXCEPT !.cancelledBy = Canceller(act)]
<1> DEFINE r4 == [r3 EXCEPT !.version = r.version + 1]
<1> DEFINE Same(new) == /\ new.branch = r.branch
                        /\ new.barber = r.barber
                        /\ new.start = r.start
                        /\ new.busyUntil = r.busyUntil
<1>1. Target(act) \in Statuses
  BY DEF Actions, Target, Statuses
<1>2. Canceller(act) \in {"nobody", "customer", "staff"}
  BY DEF Actions, Canceller
<1>3. After(act, r) = r4
  BY DEF After
<1>4. r1 \in Row /\ Same(r1) /\ r1.version = r.version /\ r1.status = Target(act)
  BY <1>1 DEF Row
<1> HIDE DEF r1
<1>5. /\ r2 \in Row /\ Same(r2) /\ r2.version = r.version
      /\ r2.status = Target(act) /\ r2.pendingUntil = NoTime
  BY <1>4 DEF Row, NoTime
<1> HIDE DEF r2
<1>6. /\ r3 \in Row /\ Same(r3) /\ r3.version = r.version
      /\ r3.status = Target(act) /\ r3.pendingUntil = NoTime
      /\ r3.cancelledBy = Canceller(act)
  BY <1>2, <1>5 DEF Row
<1> HIDE DEF r3
<1>7. /\ r4 \in Row /\ Same(r4) /\ r4.version = r.version + 1
      /\ r4.status = Target(act) /\ r4.pendingUntil = NoTime
      /\ r4.cancelledBy = Canceller(act)
  BY <1>6 DEF Row
<1> QED
  BY <1>3, <1>7

\* The drafts are some order of some of the barbers.
LEMMA FreeAtType ==
    ASSUME TypeOK, NEW p \in Procs, NEW s \in FreeAt(p)
    PROVE  s \in Seq(Barbers)
<1> DEFINE free == {b \in Offers(cmd[p]) : CanTake(p, b)}
<1>1. free \subseteq Barbers
  BY DEF Offers
<1>2. Cardinality(free) \in Nat
  BY <1>1, SizesAssumption, FS_Subset, FS_CardinalityType
<1>3. s \in [1 .. Cardinality(free) -> free]
  BY DEF FreeAt
<1> HIDE DEF free
<1>4. QED
  BY <1>1, <1>2, <1>3

LEMMA TypeInit == Init => TypeInv
  BY CatalogAssumption
  DEF Init, TypeInv, TypeOK, DraftsLeft, ChangeShape, BatchShape, InTx, Holding,
      NoAnswer, NoChange, Change, NoRun, Codes

\* A replayed answer names a request, or none.
LEMMA ReplayType ==
    ASSUME TypeOK, NEW p \in Procs, keys[KeyOf(p)] # None
    PROVE  /\ ReplayCode(cmd[p]) \in Codes
           /\ ReplayAppt(cmd[p]) \in Procs \cup {None}
<1>1. KeyOf(p) \in KeyIds
  BY CatalogAssumption DEF TypeOK, KeyOf, KeyIds, Command
<1>2. keys[KeyOf(p)].appt \in Procs
  BY <1>1 DEF TypeOK, KeyRow
<1>3. QED
  BY <1>2 DEF ReplayCode, ReplayAppt, KeyOf, Codes

\* An answer ends the request.
LEMMA AnswerType ==
    ASSUME TypeOK, NEW p \in Procs, NEW code \in Codes,
           NEW a \in Procs \cup {None}, Answer(p, code, a)
    PROVE  /\ pc' \in [Procs -> {"idle", "reading", "ready", "claimed", "allowed",
                                 "locked", "working", "done"}]
           /\ answer' \in [Procs -> [code: Codes, appt: Procs \cup {None}]]
           /\ locks' \in [Procs -> SUBSET Barbers]
  BY DEF TypeOK, Answer

\* A request's step keeps the types if it keeps those of its own locals.
LEMMA RequestType ==
    ASSUME TypeOK, UNCHANGED <<now, hours, ledger, cmd, changes, expiring>>,
           pc' \in [Procs -> {"idle", "reading", "ready", "claimed", "allowed",
                              "locked", "working", "done"}],
           answer' \in [Procs -> [code: Codes, appt: Procs \cup {None}]],
           seen' \in [Procs -> Nat],
           drafts' \in [Procs -> Seq(Barbers)],
           locks' \in [Procs -> SUBSET Barbers]
    PROVE  TypeOK'
  BY DEF TypeOK, hours, ledger

LEMMA TypeStep == TypeInv /\ [Next]_vars => TypeInv'
<1> SUFFICES ASSUME TypeInv, [Next]_vars PROVE TypeInv'
  OBVIOUS
<1> USE DEF hours, ledger, request
<1> USE DEF TypeInv, Holding
<1>1. ASSUME NEW p \in Procs, Submit(p) PROVE TypeInv'
  <2>1. TypeOK'
    <3>1. CASE /\ pc' = [pc EXCEPT ![p] = "reading"]
               /\ UNCHANGED <<locks, answer>>
      BY <1>1, <3>1, RequestType DEF Submit, TypeOK
    <3>2. CASE Answer(p, "forbidden", None)
      BY <1>1, <3>2, AnswerType, RequestType DEF Submit, TypeOK, Codes
    <3>3. CASE /\ keys[KeyOf(p)] # None
               /\ Answer(p, ReplayCode(cmd[p]), ReplayAppt(cmd[p]))
      BY <1>1, <3>3, ReplayType, AnswerType, RequestType DEF Submit, TypeOK
    <3>4. QED
      BY <1>1, <3>1, <3>2, <3>3 DEF Submit
  <2>2. DraftsLeft'
    BY <1>1 DEF Submit, Answer, TypeOK, DraftsLeft, InTx
  <2>3. ChangeShape' /\ BatchShape'
    BY <1>1 DEF Submit, ChangeShape, BatchShape
  <2>4. QED
    BY <2>1, <2>2, <2>3
<1>2. ASSUME NEW p \in Procs, Look(p) PROVE TypeInv'
  <2>1. TypeOK'
    <3>1. seen' \in [Procs -> Nat]
      BY <1>2 DEF Look, TypeOK
    <3>2. CASE Answer(p, "invalid_start", None) /\ UNCHANGED drafts
      BY <1>2, <3>1, <3>2, AnswerType, RequestType DEF Look, TypeOK, Codes
    <3>3. ASSUME NEW s \in FreeAt(p), drafts' = [drafts EXCEPT ![p] = s],
                 pc' = [pc EXCEPT ![p] = "ready"], UNCHANGED <<locks, answer>>
          PROVE  TypeOK'
      <4>1. drafts' \in [Procs -> Seq(Barbers)]
        BY <3>3, FreeAtType DEF TypeOK
      <4>2. QED
        BY <1>2, <3>1, <3>3, <4>1, RequestType DEF Look, TypeOK
    <3>4. QED
      BY <1>2, <3>2, <3>3 DEF Look
  <2>2. DraftsLeft'
    BY <1>2 DEF Look, Answer, TypeOK, DraftsLeft, InTx
  <2>3. ChangeShape' /\ BatchShape'
    BY <1>2 DEF Look, ChangeShape, BatchShape
  <2>4. QED
    BY <2>1, <2>2, <2>3
<1>3. ASSUME NEW p \in Procs, Refuse(p) PROVE TypeInv'
  BY <1>3
  DEF Refuse, Answer, TypeOK, DraftsLeft, ChangeShape, BatchShape, InTx, Codes
<1>4. ASSUME NEW p \in Procs, ClaimKey(p) PROVE TypeInv'
  <2>1. TypeOK'
    <3>1. CASE /\ pc' = [pc EXCEPT ![p] = IF IsCustomer(p) THEN "claimed"
                                                            ELSE "allowed"]
               /\ UNCHANGED <<locks, answer>>
      BY <1>4, <3>1, RequestType DEF ClaimKey, TypeOK
    <3>2. CASE Answer(p, "unavailable", None)
      BY <1>4, <3>2, AnswerType, RequestType DEF ClaimKey, TypeOK, Codes
    <3>3. CASE /\ keys[KeyOf(p)] # None
               /\ Answer(p, ReplayCode(cmd[p]), ReplayAppt(cmd[p]))
      BY <1>4, <3>3, ReplayType, AnswerType, RequestType DEF ClaimKey, TypeOK
    <3>4. QED
      BY <1>4, <3>1, <3>2, <3>3 DEF ClaimKey
  <2>2. DraftsLeft'
    BY <1>4 DEF ClaimKey, Answer, TypeOK, DraftsLeft, InTx
  <2>3. ChangeShape' /\ BatchShape'
    BY <1>4 DEF ClaimKey, ChangeShape, BatchShape
  <2>4. QED
    BY <2>1, <2>2, <2>3
<1>5. ASSUME NEW p \in Procs, Allow(p) PROVE TypeInv'
  <2>1. TypeOK'
    <3>1. CASE pc' = [pc EXCEPT ![p] = "allowed"] /\ UNCHANGED <<locks, answer>>
      BY <1>5, <3>1, RequestType DEF Allow, TypeOK
    <3>2. CASE Answer(p, "too_many", None)
      BY <1>5, <3>2, AnswerType, RequestType DEF Allow, TypeOK, Codes
    <3>3. QED
      BY <1>5, <3>1, <3>2 DEF Allow
  <2>2. DraftsLeft'
    BY <1>5 DEF Allow, Answer, TypeOK, DraftsLeft, InTx
  <2>3. ChangeShape' /\ BatchShape'
    BY <1>5 DEF Allow, ChangeShape, BatchShape
  <2>4. QED
    BY <2>1, <2>2, <2>3
<1>6. ASSUME NEW p \in Procs, LockStaff(p) PROVE TypeInv'
  <2>1. drafts[p] \in Seq(Barbers) /\ drafts[p] # << >>
    BY <1>6 DEF LockStaff, TypeOK, DraftsLeft, InTx
  <2>2. Head(drafts[p]) \in Barbers
    BY <2>1
  <2>3. TypeOK'
    BY <1>6, <2>2 DEF LockStaff, TypeOK
  <2>4. DraftsLeft' /\ ChangeShape' /\ BatchShape'
    BY <1>6 DEF LockStaff, TypeOK, DraftsLeft, ChangeShape, BatchShape, InTx
  <2>5. QED
    BY <2>3, <2>4
<1>7. ASSUME NEW p \in Procs, InTx(p), NextDraft(p),
             UNCHANGED <<now, hours, ledger, cmd, seen, changes, expiring>>
      PROVE  TypeInv'
  <2>1. drafts[p] \in Seq(Barbers) /\ drafts[p] # << >>
    BY <1>7 DEF TypeOK, DraftsLeft
  <2>2. Tail(drafts[p]) \in Seq(Barbers)
    BY <2>1
  <2>3. TypeOK'
    <3>1. drafts' \in [Procs -> Seq(Barbers)]
      BY <1>7, <2>2 DEF NextDraft, TypeOK
    <3>2. CASE /\ pc' = [pc EXCEPT ![p] = "allowed"]
               /\ locks' = [locks EXCEPT ![p] = @ \ {Head(drafts[p])}]
               /\ UNCHANGED answer
      <4>1. locks' \in [Procs -> SUBSET Barbers]
        BY <3>2 DEF TypeOK
      <4>2. QED
        BY <1>7, <3>1, <3>2, <4>1, RequestType DEF TypeOK
    <3>3. CASE Answer(p, "unavailable", None)
      BY <1>7, <3>1, <3>3, AnswerType, RequestType DEF TypeOK, Codes
    <3>4. QED
      BY <1>7, <3>2, <3>3 DEF NextDraft
  <2>4. DraftsLeft'
    BY <1>7, <2>2 DEF NextDraft, Answer, TypeOK, DraftsLeft, InTx
  <2>5. ChangeShape' /\ BatchShape'
    BY <1>7 DEF ChangeShape, BatchShape
  <2>6. QED
    BY <2>3, <2>4, <2>5
<1>8. ASSUME NEW p \in Procs, StillWorking(p) PROVE TypeInv'
  <2>1. CASE NextDraft(p)
    BY <1>7, <1>8, <2>1 DEF StillWorking, InTx
  <2>2. CASE /\ pc' = [pc EXCEPT ![p] = "working"]
             /\ UNCHANGED <<drafts, locks, answer>>
    BY <1>8, <2>2
    DEF StillWorking, TypeOK, DraftsLeft, ChangeShape, BatchShape, InTx
  <2>3. QED
    BY <1>8, <2>1, <2>2 DEF StillWorking
<1>9. ASSUME NEW p \in Procs, InsertRefused(p) PROVE TypeInv'
  BY <1>7, <1>9 DEF InsertRefused, InTx
<1>10. ASSUME NEW p \in Procs, InsertAndCommit(p) PROVE TypeInv'
  <2> DEFINE d == Draft(p, Head(drafts[p]))
  <2>1. drafts[p] \in Seq(Barbers) /\ drafts[p] # << >>
    BY <1>10 DEF InsertAndCommit, InTx, TypeOK, DraftsLeft
  <2>2. d \in Row
    BY <2>1, DraftType
  <2>3. KeyOf(p) \in KeyIds
    BY CatalogAssumption DEF TypeOK, KeyOf, KeyIds, Command
  <2>4. [hash |-> Hash(cmd[p]), appt |-> p] \in KeyRow
    BY DEF TypeOK, KeyRow
  <2>5. published[p] \in Seq(Events) /\ <<"none", d.status>> \in Events
    BY <2>2 DEF TypeOK, Events, Row
  <2>6. Append(published[p], <<"none", d.status>>) \in Seq(Events)
    BY <2>5
  <2> HIDE DEF d
  <2>7. TypeOK'
    BY <1>10, <2>2, <2>3, <2>4, <2>6 DEF InsertAndCommit, Answer, TypeOK, Codes, d
  <2>8. DraftsLeft'
    BY <1>10 DEF InsertAndCommit, Answer, TypeOK, DraftsLeft, InTx
  <2>9. ChangeShape' /\ BatchShape'
    BY <1>10, <2>2, NoneAssumption
    DEF InsertAndCommit, TypeOK, ChangeShape, BatchShape, d
  <2>10. QED
    BY <2>7, <2>8, <2>9
<1>11. ASSUME NEW p \in Procs, Abort(p) PROVE TypeInv'
  BY <1>11
  DEF Abort, Answer, TypeOK, DraftsLeft, ChangeShape, BatchShape, InTx, Codes
<1>12. ASSUME NEW c \in Changers, NEW u \in Users, NEW a \in Procs,
              NEW act \in StaffActs \cup {"cancel_customer"},
              ChangeLock(c, u, act, a)
       PROVE  TypeInv'
  <2>1. act \in Actions \ {"expire"} /\ rows[a] \in Row /\ rows[a] # None
    BY <1>12 DEF ChangeLock, StaffActs, Actions, TypeOK
  <2>2. QED
    BY <1>12, <2>1
    DEF ChangeLock, TypeOK, DraftsLeft, ChangeShape, BatchShape, InTx
<1>13. ASSUME NEW c \in Changers, ChangeApply(c) PROVE TypeInv'
  <2> DEFINE x == changes[c]
  <2> DEFINE r == After(x.act, x.row)
  <2>1. /\ x.act \in Actions /\ x.appt \in Procs
        /\ x.row \in Row /\ rows[x.appt] # None
    BY <1>13 DEF ChangeApply, ChangeShape
  <2>2. r \in Row
    BY <2>1, AfterFacts
  <2>3. /\ published[x.appt] \in Seq(Events)
        /\ <<x.row.status, r.status>> \in Events
    BY <2>1, <2>2 DEF TypeOK, Events, Row
  <2>4. Append(published[x.appt], <<x.row.status, r.status>>) \in Seq(Events)
    BY <2>3
  <2>5. /\ rows' = [rows EXCEPT ![x.appt] = r]
        /\ published' = [published EXCEPT ![x.appt] =
                            Append(@, <<x.row.status, r.status>>)]
        /\ changes' = [changes EXCEPT ![c] = Change("done")]
        /\ UNCHANGED <<now, hours, keys, request, expiring>>
    BY <1>13 DEF ChangeApply
  <2> HIDE DEF r
  <2>6. TypeOK'
    BY <2>1, <2>2, <2>4, <2>5 DEF TypeOK, Change
  <2>7. DraftsLeft'
    BY <2>5 DEF DraftsLeft, InTx
  <2>8. ChangeShape' /\ BatchShape'
    BY <2>1, <2>2, <2>5, NoneAssumption
    DEF TypeOK, ChangeShape, BatchShape, Change
  <2>9. QED
    BY <2>6, <2>7, <2>8
<1>14. ASSUME NEW c \in Changers, ChangeGivesUp(c) PROVE TypeInv'
  BY <1>14
  DEF ChangeGivesUp, Change, TypeOK, DraftsLeft, ChangeShape, BatchShape, InTx
<1>15. ASSUME NEW e \in Expirers, ExpireStart(e) PROVE TypeInv'
  BY <1>15
  DEF ExpireStart, TypeOK, DraftsLeft, ChangeShape, BatchShape, InTx
<1>16. ASSUME NEW e \in Expirers, ExpireLock(e) PROVE TypeInv'
  <2>1. PICK batch \in SUBSET Due(expiring[e].at) :
           expiring' = [expiring EXCEPT ![e] =
              [pc |-> "held", at |-> expiring[e].at, batch |-> batch]]
    BY <1>16 DEF ExpireLock
  <2>2. \A a \in batch : a \in Procs /\ rows[a] # None
    BY DEF Due
  <2>3. TypeOK' /\ BatchShape'
    BY <1>16, <2>1, <2>2 DEF ExpireLock, TypeOK, BatchShape
  <2>4. DraftsLeft' /\ ChangeShape'
    BY <1>16 DEF ExpireLock, DraftsLeft, ChangeShape, InTx
  <2>5. QED
    BY <2>3, <2>4
<1>17. ASSUME NEW e \in Expirers, ExpireCommit(e) PROVE TypeInv'
  <2> DEFINE batch == expiring[e].batch
  <2>1. \A a \in batch : a \in Procs /\ rows[a] \in Row
    BY <1>17 DEF ExpireCommit, TypeOK, BatchShape
  <2>2. \A a \in batch : After("expire", rows[a]) \in Row
    BY <2>1, AfterFacts DEF Actions
  <2>3. \A a \in batch : <<rows[a].status, "expired">> \in Events
    BY <2>1 DEF Events, Row, Statuses
  <2>4. \A a \in batch :
            Append(published[a], <<rows[a].status, "expired">>) \in Seq(Events)
    BY <2>1, <2>3 DEF TypeOK
  <2>5. /\ rows' \in [Procs -> Row \cup {None}]
        /\ \A a \in Procs : rows[a] # None => rows'[a] # None
    BY <1>17, <2>2, NoneAssumption DEF ExpireCommit, TypeOK
  <2>6. published' \in [Procs -> Seq(Events)]
    BY <1>17, <2>4 DEF ExpireCommit, TypeOK
  <2>7. /\ UNCHANGED <<now, hours, keys, request, changes>>
        /\ expiring' \in [Expirers -> [pc: {"idle", "started", "held"},
                                       at: Nat, batch: SUBSET Procs]]
        /\ \A f \in Expirers : expiring'[f].pc = "held" =>
              expiring[f].pc = "held" /\ expiring'[f].batch = expiring[f].batch
    BY <1>17 DEF ExpireCommit, NoRun, TypeOK
  <2>8. TypeOK'
    BY <2>5, <2>6, <2>7 DEF TypeOK
  <2>9. DraftsLeft' /\ ChangeShape'
    BY <2>5, <2>7 DEF DraftsLeft, ChangeShape, InTx
  <2>10. BatchShape'
    BY <2>5, <2>7 DEF BatchShape, TypeOK
  <2>11. QED
    BY <2>8, <2>9, <2>10
<1>18. ASSUME NEW e \in Expirers, ExpireAbort(e) PROVE TypeInv'
  BY <1>18
  DEF ExpireAbort, NoRun, TypeOK, DraftsLeft, ChangeShape, BatchShape, InTx
<1>19. CASE HoursChange
  <2>1. UNCHANGED <<now, ledger, request, changes, expiring>>
    BY <1>19
    DEF HoursChange, SetSchedule, AddTimeOff, DeleteTimeOff, SetOpeningHours
  <2>2. /\ opening' \in [Branches -> Openings]
        /\ sched' \in [Places -> Schedules]
        /\ off' \in [Barbers -> SUBSET TimeOffs]
    <3>1. ASSUME NEW br \in Branches, NEW b \in Barbers, NEW s \in Schedules,
                 SetSchedule(br, b, s)
          PROVE  <2>2!2 /\ UNCHANGED <<opening, off>>
      BY <3>1 DEF SetSchedule, Places, TypeOK
    <3>2. ASSUME NEW b \in Barbers, NEW s \in TimeOffs,
                 AddTimeOff(b, s) \/ DeleteTimeOff(b, s)
          PROVE  <2>2!3 /\ UNCHANGED <<opening, sched>>
      <4>1. /\ off[b] \cup {s} \in SUBSET TimeOffs
            /\ off[b] \ {s} \in SUBSET TimeOffs
        BY DEF TypeOK
      <4>2. CASE AddTimeOff(b, s)
        BY <4>1, <4>2 DEF AddTimeOff, TypeOK
      <4>3. CASE DeleteTimeOff(b, s)
        BY <4>1, <4>3 DEF DeleteTimeOff, TypeOK
      <4>4. QED
        BY <3>2, <4>2, <4>3
    <3>3. ASSUME NEW br \in Branches, NEW s \in Openings, SetOpeningHours(br, s)
          PROVE  <2>2!1 /\ UNCHANGED <<sched, off>>
      BY <3>3 DEF SetOpeningHours, TypeOK
    <3>4. QED
      BY <1>19, <3>1, <3>2, <3>3 DEF HoursChange, TypeOK
  <2>3. QED
    BY <2>1, <2>2 DEF TypeOK, DraftsLeft, ChangeShape, BatchShape, InTx
<1>20. CASE Tick
  BY <1>20 DEF Tick, TypeOK, DraftsLeft, ChangeShape, BatchShape, InTx
<1>21. CASE UNCHANGED vars
  BY <1>21 DEF vars, TypeOK, DraftsLeft, ChangeShape, BatchShape, InTx
<1>22. ASSUME NEW c \in Changers, ChangeDecide(c) PROVE TypeInv'
  <2>1. /\ now \in Nat /\ changes[c] \in [pc: {"idle", "held", "decided", "done"},
                                         act: Actions \cup {"none"},
                                         user: Users \cup {None},
                                         appt: Procs \cup {None},
                                         row: Row \cup {None}, at: Nat]
        /\ changes' = [changes EXCEPT ![c] =
                          [@ EXCEPT !.pc = "decided", !.at = now]]
        /\ changes[c].pc = "held"
        /\ UNCHANGED <<now, hours, ledger, request, expiring>>
    BY <1>22 DEF ChangeDecide, TypeOK
  <2>2. TypeOK'
    BY <2>1 DEF TypeOK
  <2>3. DraftsLeft' /\ BatchShape'
    BY <2>1 DEF DraftsLeft, BatchShape, InTx
  <2>4. ChangeShape'
    BY <2>1 DEF ChangeShape, TypeOK
  <2>5. QED
    BY <2>2, <2>3, <2>4
<1>23. QED
  BY <1>1, <1>2, <1>3, <1>4, <1>5, <1>6, <1>8, <1>9, <1>10, <1>11, <1>12,
     <1>13, <1>14, <1>15, <1>16, <1>17, <1>18, <1>19, <1>20, <1>21, <1>22
  DEF Next, Step, ChangeStep

\* The tables and the locals of every request hold what they may hold, in any
\* interleaving of requests, changes, expiry runs and schedule changes.
THEOREM TypeCorrect == Spec => []TypeOK
<1>1. TypeInv => TypeOK
  BY DEF TypeInv
<1>2. QED
  BY <1>1, TypeInit, TypeStep, PTL DEF Spec

-----------------------------------------------------------------------------
(***************************************************************************)
(* The rows.  Who holds a row lock holds it alone, so what a change loaded *)
(* and what an expiry run found due is still so when they write.           *)
(***************************************************************************)
NewUntilDone == \A p \in Procs : pc[p] # "done" => rows[p] = None

PendingHasExpiry ==
    \A a \in Procs :
        rows[a] # None /\ rows[a].status = "pending" => rows[a].pendingUntil # NoTime

RowExclusive ==
    /\ \A c, d \in Changers :
          /\ Holding(c) /\ Holding(d)
          /\ changes[c].appt = changes[d].appt
          => c = d
    /\ \A c \in Changers, e \in Expirers :
          Holding(c) /\ expiring[e].pc = "held" =>
              changes[c].appt \notin expiring[e].batch
    /\ \A e, f \in Expirers :
          expiring[e].pc = "held" /\ expiring[f].pc = "held" /\ e # f =>
              expiring[e].batch \cap expiring[f].batch = {}

\* What a change is about to write was allowed when it read the clock.
DecidedRightly ==
    \A c \in Changers : changes[c].pc = "decided" =>
        Allowed(changes[c].act, changes[c].row, changes[c].at)

RowInv == /\ NewUntilDone
          /\ PendingHasExpiry
          /\ RowExclusive
          /\ LockedRowIsCurrent
          /\ DecidedRightly
          /\ LockedBatchExpires

\* An appointment moves: some action its domain method allows at some moment.
Moved(a) ==
    /\ rows[a] # None
    /\ \E act \in Actions, t \in Nat :
          /\ Allowed(act, rows[a], t)
          /\ rows'[a] = After(act, rows[a])

\* What the domain allows is an edge of the lifecycle, and never leads back to
\* an active status from a final one.
LEMMA AllowedEdges ==
    ASSUME NEW act \in Actions, NEW r \in Row, NEW t \in Nat, Allowed(act, r, t)
    PROVE  /\ <<r.status, Target(act)>> \in Edges
           /\ r.status \in ActiveStatuses
           /\ Target(act) # "pending"
<1>1. CASE act = "confirm"
  BY <1>1 DEF Allowed, Confirm, Current, Target, Edges, ActiveStatuses
<1>2. CASE act = "reject"
  BY <1>2 DEF Allowed, Reject, Current, Target, Edges, ActiveStatuses
<1>3. CASE act = "cancel_customer"
  BY <1>3 DEF Allowed, CancelByCustomer, Current, Target, Edges, ActiveStatuses
<1>4. CASE act = "cancel_staff"
  BY <1>4 DEF Allowed, CancelByStaff, Current, Target, Edges, ActiveStatuses
<1>5. CASE act \in {"complete", "no_show"}
  BY <1>5 DEF Allowed, Finish, Current, Target, Edges, ActiveStatuses
<1>6. CASE act = "expire"
  BY <1>6 DEF Allowed, Expire, Target, Edges, ActiveStatuses
<1>7. QED
  BY <1>1, <1>2, <1>3, <1>4, <1>5, <1>6 DEF Actions

\* A draft waits for an answer with an expiry, or is confirmed; it is where
\* and when the request asked.
LEMMA DraftFacts ==
    ASSUME TypeOK, NEW p \in Procs, NEW b \in Barbers
    PROVE  LET d == Draft(p, b)
           IN  /\ d \in Row
               /\ d.status \in ActiveStatuses
               /\ d.status = "pending" => d.pendingUntil # NoTime
               /\ d.version = 1
               /\ d.barber = b
               /\ d.branch = cmd[p].branch
               /\ d.start = cmd[p].start
<1>1. Draft(p, b) \in Row
  BY DraftType
<1>2. cmd[p].branch \in Branches /\ seen[p] \in Nat
  BY CatalogAssumption DEF TypeOK, Command
<1>3. Policy[cmd[p].branch].pendingExpiry \in Nat
  BY <1>2, CatalogAssumption
<1>4. QED
  BY <1>1, <1>2, <1>3 DEF Draft, Book, ActiveStatuses, NoTime

\* Every step enters one appointment, or moves some and settles no key.
LEMMA RowSteps ==
    ASSUME TypeInv, RowInv, [Next]_vars
    PROVE  \/ \E p \in Procs : InsertAndCommit(p)
           \/ /\ UNCHANGED keys
              /\ \A a \in Procs : rows'[a] = rows[a] \/ Moved(a)
<1> USE DEF hours, ledger, request
<1>1. ASSUME NEW p \in Procs, Step(p), ~ InsertAndCommit(p)
      PROVE  UNCHANGED <<rows, keys>>
  BY <1>1
  DEF Step, Submit, Look, Refuse, ClaimKey, Allow, LockStaff, StillWorking,
      InsertRefused
<1>2. ASSUME NEW p \in Procs, Abort(p) PROVE UNCHANGED <<rows, keys>>
  BY <1>2 DEF Abort
<1>3. ASSUME NEW c \in Changers, ChangeStep(c)
      PROVE  UNCHANGED keys /\ \A a \in Procs : rows'[a] = rows[a] \/ Moved(a)
  <2>1. CASE ChangeApply(c)
    <3> DEFINE x == changes[c]
    <3>1. /\ x.pc = "decided" /\ x.act \in Actions /\ x.appt \in Procs
          /\ rows[x.appt] # None /\ x.row = rows[x.appt]
      BY <2>1 DEF ChangeApply, TypeInv, ChangeShape, RowInv, LockedRowIsCurrent, Holding
    <3>2. Allowed(x.act, rows[x.appt], x.at) /\ x.at \in Nat
      BY <2>1, <3>1 DEF RowInv, DecidedRightly, TypeInv, TypeOK
    <3>3. rows' = [rows EXCEPT ![x.appt] = After(x.act, rows[x.appt])]
      BY <2>1, <3>1 DEF ChangeApply
    <3>4. Moved(x.appt)
      BY <3>1, <3>2, <3>3 DEF Moved, TypeInv, TypeOK
    <3>5. QED
      BY <2>1, <3>3, <3>4 DEF ChangeApply, TypeInv, TypeOK
  <2>2. QED
    BY <1>3, <2>1 DEF ChangeStep, ChangeLock, ChangeDecide, ChangeGivesUp
<1>4. ASSUME NEW e \in Expirers, ExpireCommit(e)
      PROVE  UNCHANGED keys /\ \A a \in Procs : rows'[a] = rows[a] \/ Moved(a)
  <2>1. ASSUME NEW a \in expiring[e].batch PROVE Moved(a)
    <3>1. a \in Procs /\ rows[a] # None /\ expiring[e].at \in Nat
      BY <1>4 DEF ExpireCommit, TypeInv, TypeOK, BatchShape
    <3>2. Allowed("expire", rows[a], expiring[e].at) /\ "expire" \in Actions
      BY <1>4, <2>1 DEF ExpireCommit, BatchExpires, Allowed, Actions
    <3>3. rows'[a] = After("expire", rows[a])
      BY <1>4, <2>1, <3>1 DEF ExpireCommit
    <3>4. QED
      BY <3>1, <3>2, <3>3 DEF Moved
  <2>2. QED
    BY <1>4, <2>1 DEF ExpireCommit
<1>5. ASSUME NEW e \in Expirers, ExpireStart(e) \/ ExpireLock(e) \/ ExpireAbort(e)
      PROVE  UNCHANGED <<rows, keys>>
  BY <1>5 DEF ExpireStart, ExpireLock, ExpireAbort
<1>6. CASE HoursChange \/ Tick \/ UNCHANGED vars
  BY <1>6
  DEF HoursChange, SetSchedule, AddTimeOff, DeleteTimeOff, SetOpeningHours,
      Tick, vars
<1>7. QED
  BY <1>1, <1>2, <1>3, <1>4, <1>5, <1>6 DEF Next

\* A request's step is its own: it leaves other requests alone, and a request
\* that has its answer takes none.
LEMMA OwnStep ==
    ASSUME TypeInv, NEW p \in Procs, Step(p) \/ Abort(p)
    PROVE  /\ pc[p] # "done"
           /\ UNCHANGED <<cmd, changes, expiring>>
           /\ \A q \in Procs \ {p} : /\ pc'[q] = pc[q]
                                     /\ answer'[q] = answer[q]
                                     /\ drafts'[q] = drafts[q]
                                     /\ locks'[q] = locks[q]
                                     /\ seen'[q] = seen[q]
<1> USE DEF TypeInv, TypeOK, Answer
<1>1. CASE Submit(p)
  BY <1>1 DEF Submit
<1>2. CASE Look(p)
  BY <1>2 DEF Look
<1>3. CASE Refuse(p)
  BY <1>3 DEF Refuse
<1>4. CASE ClaimKey(p)
  BY <1>4 DEF ClaimKey
<1>5. CASE Allow(p)
  BY <1>5 DEF Allow
<1>6. CASE LockStaff(p)
  BY <1>6 DEF LockStaff
<1>7. CASE StillWorking(p)
  BY <1>7 DEF StillWorking, NextDraft
<1>8. CASE InsertRefused(p)
  BY <1>8 DEF InsertRefused, NextDraft
<1>9. CASE InsertAndCommit(p)
  BY <1>9 DEF InsertAndCommit
<1>10. CASE Abort(p)
  BY <1>10 DEF Abort, InTx
<1>11. QED
  BY <1>1, <1>2, <1>3, <1>4, <1>5, <1>6, <1>7, <1>8, <1>9, <1>10 DEF Step

\* All other steps leave the requests alone.
LEMMA OtherSteps ==
    ASSUME [Next]_vars, ~ \E p \in Procs : Step(p) \/ Abort(p)
    PROVE  UNCHANGED request
  BY DEF Next, ChangeStep, ChangeLock, ChangeDecide, ChangeApply, ChangeGivesUp,
         ExpireStart, ExpireLock, ExpireCommit, ExpireAbort, HoursChange,
         SetSchedule, AddTimeOff, DeleteTimeOff, SetOpeningHours, Tick, vars

LEMMA RowInit == Init => RowInv
  BY DEF Init, RowInv, NewUntilDone, PendingHasExpiry, RowExclusive,
         LockedRowIsCurrent, DecidedRightly, LockedBatchExpires, Holding,
         NoChange, Change, NoRun

\* A commit saves its draft in a row nobody could have locked.
LEMMA CommitFacts ==
    ASSUME TypeInv, RowInv, NEW p \in Procs, InsertAndCommit(p)
    PROVE  LET d == Draft(p, Head(drafts[p]))
           IN  /\ rows[p] = None
               /\ Head(drafts[p]) \in Barbers
               /\ d \in Row /\ d # None
               /\ ~ Taken(d)
               /\ rows' = [rows EXCEPT ![p] = d]
               /\ rows'[p] = d /\ \A a \in Procs \ {p} : rows'[a] = rows[a]
               /\ ~ RowLocked(p)
<1> DEFINE d == Draft(p, Head(drafts[p]))
<1>1. drafts[p] \in Seq(Barbers) /\ drafts[p] # << >>
  BY DEF InsertAndCommit, InTx, TypeInv, TypeOK, DraftsLeft
<1>2. Head(drafts[p]) \in Barbers
  BY <1>1
<1>3. Draft(p, Head(drafts[p])) \in Row
  BY <1>2, DraftType DEF TypeInv
<1>4. rows[p] = None
  BY DEF InsertAndCommit, RowInv, NewUntilDone
<1>5. ~ RowLocked(p)
  BY <1>4 DEF RowLocked, TypeInv, ChangeShape, BatchShape
<1>6. ~ Taken(d) /\ rows' = [rows EXCEPT ![p] = d]
  BY DEF InsertAndCommit
<1>7. rows'[p] = d /\ \A a \in Procs \ {p} : rows'[a] = rows[a]
  <2>1. DOMAIN rows = Procs
    BY DEF TypeInv, TypeOK
  <2> HIDE DEF d
  <2>2. QED
    BY <2>1, <1>6
<1>8. d # None
  <2> HIDE DEF d
  <2>1. QED
    BY <1>3, NoneAssumption DEF d
<1>9. QED
  BY <1>2, <1>3, <1>4, <1>5, <1>6, <1>7, <1>8

LEMMA RowStep ==
    ASSUME TypeInv, TypeInv', RowInv, [Next]_vars
    PROVE  RowInv'
<1> USE DEF hours, ledger, request, Holding
<1>1. NewUntilDone'
  <2>1. ASSUME NEW p \in Procs, InsertAndCommit(p) PROVE NewUntilDone'
    BY <2>1
    DEF InsertAndCommit, Answer, RowInv, NewUntilDone, TypeInv, TypeOK
  <2>2. CASE \A a \in Procs : rows'[a] = rows[a] \/ Moved(a)
    <3>1. ASSUME NEW p \in Procs, pc[p] = "done" PROVE pc'[p] = "done"
      BY <3>1, OwnStep, OtherSteps
    <3>2. QED
      BY <2>2, <3>1 DEF RowInv, NewUntilDone, Moved
  <2>3. QED
    BY <2>1, <2>2, RowSteps
<1>2. PendingHasExpiry'
  <2>1. ASSUME NEW p \in Procs, InsertAndCommit(p) PROVE PendingHasExpiry'
    <3> DEFINE d == Draft(p, Head(drafts[p]))
    <3>1. Head(drafts[p]) \in Barbers /\ rows' = [rows EXCEPT ![p] = d]
      BY <2>1, CommitFacts
    <3>2. d.status = "pending" => d.pendingUntil # NoTime
      BY <3>1, DraftFacts DEF TypeInv
    <3> HIDE DEF d
    <3>3. QED
      BY <3>1, <3>2 DEF RowInv, PendingHasExpiry, TypeInv, TypeOK
  <2>2. ASSUME NEW a \in Procs, Moved(a) PROVE rows'[a].status # "pending"
    <3>1. PICK act \in Actions, t \in Nat :
             Allowed(act, rows[a], t) /\ rows'[a] = After(act, rows[a])
      BY <2>2 DEF Moved
    <3>2. rows[a] \in Row
      BY <2>2 DEF Moved, TypeInv, TypeOK
    <3>3. Target(act) # "pending"
      BY <3>1, <3>2, AllowedEdges
    <3>4. After(act, rows[a]).status = Target(act)
      BY <3>1, <3>2, AfterFacts
    <3>5. QED
      BY <3>1, <3>3, <3>4
  <2>3. QED
    BY <2>1, <2>2, RowSteps DEF RowInv, PendingHasExpiry
<1>3. CASE UNCHANGED <<rows, changes, expiring>>
  BY <1>1, <1>2, <1>3
  DEF RowInv, RowExclusive, LockedRowIsCurrent, DecidedRightly,
      LockedBatchExpires
<1>4. ASSUME NEW p \in Procs, InsertAndCommit(p) PROVE RowInv'
  <2>1. UNCHANGED <<changes, expiring>>
    BY <1>4 DEF InsertAndCommit
  <2>2. ~ RowLocked(p) /\ \A a \in Procs \ {p} : rows'[a] = rows[a]
    BY <1>4, CommitFacts
  <2>3. RowExclusive'
    BY <2>1 DEF RowInv, RowExclusive
  <2>4. LockedRowIsCurrent' /\ DecidedRightly'
    BY <2>1, <2>2
    DEF RowInv, DecidedRightly, LockedRowIsCurrent, RowLocked, TypeInv, ChangeShape
  <2>5. LockedBatchExpires'
    BY <2>1, <2>2
    DEF RowInv, LockedBatchExpires, RowLocked, TypeInv, TypeOK
  <2>6. QED
    BY <1>1, <1>2, <2>3, <2>4, <2>5 DEF RowInv
<1>5. ASSUME NEW c \in Changers, NEW u \in Users, NEW a \in Procs,
             NEW act \in StaffActs \cup {"cancel_customer"},
             ChangeLock(c, u, act, a)
      PROVE  RowInv'
  <2>1. /\ UNCHANGED <<rows, expiring>> /\ ~ RowLocked(a)
        /\ changes'[c].appt = a /\ changes'[c].row = rows[a]
        /\ changes'[c].pc = "held"
        /\ \A d \in Changers \ {c} : changes'[d] = changes[d]
    BY <1>5 DEF ChangeLock, TypeInv, TypeOK
  <2>2. QED
    BY <1>1, <1>2, <2>1
    DEF RowInv, RowExclusive, LockedRowIsCurrent, DecidedRightly,
      LockedBatchExpires, RowLocked
<1>6. ASSUME NEW c \in Changers, ChangeApply(c) PROVE RowInv'
  <2>1. /\ changes[c].pc = "decided" /\ UNCHANGED expiring
        /\ changes'[c].pc = "done"
        /\ \A d \in Changers \ {c} : changes'[d] = changes[d]
        /\ \A a \in Procs \ {changes[c].appt} : rows'[a] = rows[a]
    BY <1>6 DEF ChangeApply, Change, TypeInv, TypeOK
  <2>2. RowExclusive'
    BY <2>1 DEF RowInv, RowExclusive
  <2>3. LockedRowIsCurrent' /\ DecidedRightly'
    BY <2>1 DEF RowInv, DecidedRightly, RowExclusive, LockedRowIsCurrent, TypeInv, ChangeShape
  <2>4. LockedBatchExpires'
    BY <2>1 DEF RowInv, RowExclusive, LockedBatchExpires, TypeInv, TypeOK
  <2>5. QED
    BY <1>1, <1>2, <2>2, <2>3, <2>4 DEF RowInv
<1>7. ASSUME NEW c \in Changers, ChangeGivesUp(c) PROVE RowInv'
  <2>1. /\ UNCHANGED <<rows, expiring>> /\ changes'[c].pc = "done"
        /\ \A d \in Changers \ {c} : changes'[d] = changes[d]
    BY <1>7 DEF ChangeGivesUp, Change, TypeInv, TypeOK
  <2>2. QED
    BY <1>1, <1>2, <2>1
    DEF RowInv, RowExclusive, LockedRowIsCurrent, DecidedRightly,
      LockedBatchExpires
<1>8. ASSUME NEW e \in Expirers, ExpireLock(e) PROVE RowInv'
  <2>1. PICK batch \in SUBSET Due(expiring[e].at) :
           expiring' = [expiring EXCEPT ![e] =
              [pc |-> "held", at |-> expiring[e].at, batch |-> batch]]
    BY <1>8 DEF ExpireLock
  <2>2. /\ UNCHANGED <<rows, changes>>
        /\ expiring'[e].batch = batch /\ expiring'[e].at = expiring[e].at
        /\ \A f \in Expirers \ {e} : expiring'[f] = expiring[f]
    BY <1>8, <2>1 DEF ExpireLock, TypeInv, TypeOK
  <2>3. \A a \in batch : /\ rows[a] # None /\ Expire(rows[a], expiring[e].at)
                         /\ ~ RowLocked(a)
    BY DEF Due, Expire, RowInv, PendingHasExpiry, Row, TypeInv, TypeOK
  <2>4. QED
    BY <1>1, <1>2, <2>2, <2>3
    DEF RowInv, RowExclusive, LockedRowIsCurrent, DecidedRightly,
      LockedBatchExpires, RowLocked
<1>9. ASSUME NEW e \in Expirers, ExpireCommit(e) PROVE RowInv'
  <2>1. /\ expiring[e].pc = "held" /\ UNCHANGED changes
        /\ expiring'[e].pc # "held"
        /\ \A f \in Expirers \ {e} : expiring'[f] = expiring[f]
        /\ \A a \in Procs \ expiring[e].batch : rows'[a] = rows[a]
    BY <1>9 DEF ExpireCommit, NoRun, TypeInv, TypeOK
  <2>2. RowExclusive'
    BY <2>1 DEF RowInv, RowExclusive
  <2>3. LockedRowIsCurrent' /\ DecidedRightly'
    BY <2>1 DEF RowInv, DecidedRightly, RowExclusive, LockedRowIsCurrent, TypeInv, ChangeShape
  <2>4. LockedBatchExpires'
    <3>1. ASSUME NEW f \in Expirers, expiring'[f].pc = "held",
                 NEW a \in expiring'[f].batch
          PROVE  rows'[a] # None /\ Expire(rows'[a], expiring'[f].at)
      <4>1. f # e /\ expiring'[f] = expiring[f] /\ expiring[f].pc = "held"
        BY <2>1, <3>1
      <4>2. a \in expiring[f].batch /\ a \in Procs
        BY <3>1, <4>1 DEF TypeInv, TypeOK
      <4>3. a \notin expiring[e].batch
        BY <2>1, <4>1, <4>2 DEF RowInv, RowExclusive
      <4>4. rows[a] # None /\ Expire(rows[a], expiring[f].at)
        BY <4>1, <4>2 DEF RowInv, LockedBatchExpires
      <4>5. QED
        BY <2>1, <4>1, <4>2, <4>3, <4>4
    <3>2. QED
      BY <3>1 DEF LockedBatchExpires
  <2>5. QED
    BY <1>1, <1>2, <2>2, <2>3, <2>4 DEF RowInv
<1>10. ASSUME NEW e \in Expirers, ExpireStart(e) \/ ExpireAbort(e) PROVE RowInv'
  <2>1. /\ UNCHANGED <<rows, changes>> /\ expiring'[e].pc # "held"
        /\ \A f \in Expirers \ {e} : expiring'[f] = expiring[f]
    BY <1>10 DEF ExpireStart, ExpireAbort, NoRun, TypeInv, TypeOK
  <2>2. QED
    BY <1>1, <1>2, <2>1
    DEF RowInv, RowExclusive, LockedRowIsCurrent, DecidedRightly,
      LockedBatchExpires
<1>11. ASSUME NEW p \in Procs, Step(p) \/ Abort(p), ~ InsertAndCommit(p)
       PROVE  UNCHANGED <<rows, changes, expiring>>
  BY <1>11
  DEF Step, Submit, Look, Refuse, ClaimKey, Allow, LockStaff, StillWorking,
      InsertRefused, Abort
<1>12. ASSUME HoursChange \/ Tick \/ UNCHANGED vars
       PROVE  UNCHANGED <<rows, changes, expiring>>
  BY <1>12
  DEF HoursChange, SetSchedule, AddTimeOff, DeleteTimeOff, SetOpeningHours,
      Tick, vars
<1>13. ASSUME NEW c \in Changers, ChangeDecide(c) PROVE RowInv'
  <2>1. /\ UNCHANGED <<rows, expiring>> /\ changes[c].pc = "held"
        /\ changes'[c].pc = "decided" /\ changes'[c].at = now
        /\ changes'[c].appt = changes[c].appt /\ changes'[c].row = changes[c].row
        /\ changes'[c].act = changes[c].act
        /\ \A d \in Changers \ {c} : changes'[d] = changes[d]
        /\ Allowed(changes[c].act, changes[c].row, now)
    BY <1>13 DEF ChangeDecide, ChangeAllowed, TypeInv, TypeOK
  <2>2. QED
    BY <1>1, <1>2, <2>1
    DEF RowInv, RowExclusive, LockedRowIsCurrent, DecidedRightly,
        LockedBatchExpires
<1>14. QED
  BY <1>13, <1>3, <1>4, <1>5, <1>6, <1>7, <1>8, <1>9, <1>10, <1>11, <1>12
  DEF Next, ChangeStep

\* Under the row locks nothing a change or an expiry run is about to write has
\* changed since it was loaded: a save never finds the row "changed meanwhile,
\* despite the lock", and one row never fails an expiry batch.
THEOREM LocksHold == Spec => []LocksMeanSomething
<1>1. RowInv => LocksMeanSomething
  BY DEF RowInv, LocksMeanSomething
<1>2. QED
  BY <1>1, TypeInit, TypeStep, RowInit, RowStep, PTL DEF Spec

-----------------------------------------------------------------------------
(***************************************************************************)
(* No double booking: the one way in is past the exclusion constraint, and *)
(* no later move makes an appointment hold time it did not hold before.    *)
(***************************************************************************)
\* A moved appointment holds its barber no more than it did.
LEMMA MoveFacts ==
    ASSUME TypeInv, NEW a \in Procs, Moved(a)
    PROVE  /\ rows[a] \in Row /\ rows'[a] \in Row
           /\ rows'[a] # None
           /\ IsActive(rows[a])
           /\ <<rows[a].status, rows'[a].status>> \in Edges
           /\ rows'[a].barber = rows[a].barber
           /\ rows'[a].branch = rows[a].branch
           /\ rows'[a].start = rows[a].start
           /\ rows'[a].busyUntil = rows[a].busyUntil
<1>1. PICK act \in Actions, t \in Nat :
         Allowed(act, rows[a], t) /\ rows'[a] = After(act, rows[a])
  BY DEF Moved
<1>2. rows[a] \in Row
  BY DEF Moved, TypeInv, TypeOK
<1>3. /\ <<rows[a].status, Target(act)>> \in Edges
      /\ rows[a].status \in ActiveStatuses
  BY <1>1, <1>2, AllowedEdges
<1>4. /\ rows'[a] \in Row /\ rows'[a].status = Target(act)
      /\ rows'[a].branch = rows[a].branch /\ rows'[a].barber = rows[a].barber
      /\ rows'[a].start = rows[a].start /\ rows'[a].busyUntil = rows[a].busyUntil
  BY <1>1, <1>2, AfterFacts
<1>5. QED
  BY <1>2, <1>3, <1>4, NoneAssumption DEF IsActive

LEMMA NoDoubleBookingStep ==
    ASSUME TypeInv, RowInv, NoDoubleBooking, [Next]_vars
    PROVE  NoDoubleBooking'
<1>1. ASSUME NEW p \in Procs, InsertAndCommit(p) PROVE NoDoubleBooking'
  <2> DEFINE d == Draft(p, Head(drafts[p]))
  <2>1. d \in Row /\ ~ Taken(d) /\ rows' = [rows EXCEPT ![p] = d]
    BY <1>1, CommitFacts
  <2> HIDE DEF d
  <2>2. \A a \in Procs \ {p} :
           rows[a] # None => ~ Conflicts(rows[a], d) /\ ~ Conflicts(d, rows[a])
    BY <2>1 DEF Taken, Conflicts, Overlaps
  <2>3. QED
    BY <2>1, <2>2 DEF NoDoubleBooking, TypeInv, TypeOK
<1>2. ASSUME \A a \in Procs : rows'[a] = rows[a] \/ Moved(a)
      PROVE  NoDoubleBooking'
  <2>1. ASSUME NEW a \in Procs, rows'[a] # None
        PROVE  /\ rows[a] # None
               /\ IsActive(rows'[a]) => IsActive(rows[a])
               /\ rows'[a].barber = rows[a].barber
               /\ rows'[a].start = rows[a].start
               /\ rows'[a].busyUntil = rows[a].busyUntil
    BY <1>2, <2>1, MoveFacts, NoneAssumption DEF Moved
  <2>2. QED
    BY <2>1 DEF NoDoubleBooking, Conflicts, Overlaps
<1>3. QED
  BY <1>1, <1>2, RowSteps

\* A barber never holds two active appointments at once: for any number of
\* requests racing each other, changes, expiry runs and any policy.
THEOREM NeverDoubleBooked == Spec => []NoDoubleBooking
<1>1. Init => NoDoubleBooking
  BY DEF Init, NoDoubleBooking
<1>2. QED
  BY <1>1, TypeInit, TypeStep, RowInit, RowStep, NoDoubleBookingStep, PTL
  DEF Spec

-----------------------------------------------------------------------------
(***************************************************************************)
(* One booking per key: a transaction that holds a key holds it alone and  *)
(* found it unsettled; a settled key and its appointment know each other.  *)
(***************************************************************************)
KeyKnowsAppt ==
    \A k \in KeyIds : keys[k] # None =>
        /\ rows[keys[k].appt] # None
        /\ KeyOf(keys[k].appt) = k
        /\ keys[k].hash = Hash(cmd[keys[k].appt])

ApptKnowsKey ==
    \A p \in Procs : rows[p] # None =>
        keys[KeyOf(p)] # None /\ keys[KeyOf(p)].appt = p

KeyHeldAlone ==
    /\ \A p \in Procs : InTx(p) => keys[KeyOf(p)] = None
    /\ \A p, q \in Procs : InTx(p) /\ InTx(q) /\ KeyOf(p) = KeyOf(q) => p = q

AnswerKnowsAppt ==
    \A p \in Procs : answer[p].appt # None =>
        /\ rows[answer[p].appt] # None
        /\ KeyOf(answer[p].appt) = KeyOf(p)
        /\ Hash(cmd[answer[p].appt]) = Hash(cmd[p])

KeyInv == KeyKnowsAppt /\ ApptKnowsKey /\ KeyHeldAlone /\ AnswerKnowsAppt

LEMMA KeyInit == Init => KeyInv
  BY NoneAssumption
  DEF Init, KeyInv, KeyKnowsAppt, ApptKnowsKey, KeyHeldAlone, AnswerKnowsAppt,
      InTx, NoAnswer, KeyOf, KeyIds

LEMMA KeyOfType == ASSUME TypeOK, NEW p \in Procs PROVE KeyOf(p) \in KeyIds
  BY CatalogAssumption DEF TypeOK, KeyOf, KeyIds, Command

\* Appointments, once entered, stay.
LEMMA RowsStay ==
    ASSUME TypeInv, RowInv, [Next]_vars, NEW a \in Procs, rows[a] # None
    PROVE  rows'[a] # None
<1>1. ASSUME NEW p \in Procs, InsertAndCommit(p) PROVE rows'[a] # None
  BY <1>1, CommitFacts
<1>2. QED
  BY <1>1, RowSteps, MoveFacts

LEMMA KeyStep ==
    ASSUME TypeInv, TypeInv', RowInv, KeyInv, [Next]_vars
    PROVE  KeyInv'
<1> USE DEF TypeInv
<1>1. UNCHANGED cmd
  BY OwnStep, OtherSteps DEF request
<1>2. \A p \in Procs : KeyOf(p)' = KeyOf(p)
  BY <1>1 DEF KeyOf
<1>3. ASSUME NEW p \in Procs, InsertAndCommit(p) PROVE KeyInv'
  <2> DEFINE k == KeyOf(p)
  <2>1. k \in KeyIds
    BY KeyOfType
  <2>2. /\ keys' = [keys EXCEPT ![k] = [hash |-> Hash(cmd[p]), appt |-> p]]
        /\ rows[p] = None /\ rows'[p] # None
        /\ \A a \in Procs \ {p} : rows'[a] = rows[a]
        /\ pc' = [pc EXCEPT ![p] = "done"]
        /\ answer'[p].appt \in {p, None}
        /\ \A q \in Procs \ {p} : answer'[q] = answer[q]
        /\ InTx(p)
    <3>1. PICK code \in {"booked", "lost"} :
             Answer(p, code, IF code = "booked" THEN p ELSE None)
      BY <1>3 DEF InsertAndCommit
    <3>2. /\ pc' = [pc EXCEPT ![p] = "done"]
          /\ answer'[p].appt \in {p, None}
          /\ \A q \in Procs \ {p} : answer'[q] = answer[q]
      BY <3>1 DEF Answer, TypeOK
    <3>3. rows[p] = None /\ rows'[p] # None /\ \A a \in Procs \ {p} : rows'[a] = rows[a]
      BY <1>3, CommitFacts
    <3>4. QED
      BY <1>3, <3>2, <3>3 DEF InsertAndCommit, InTx
  <2>3. /\ keys[k] = None
        /\ keys'[k] # None /\ keys'[k].appt = p /\ keys'[k].hash = Hash(cmd[p])
        /\ \A j \in KeyIds \ {k} : keys'[j] = keys[j]
    <3>1. [hash |-> Hash(cmd[p]), appt |-> p] \in KeyRow
      BY DEF TypeOK, KeyRow
    <3>2. keys[k] = None
      BY <2>2 DEF KeyInv, KeyHeldAlone
    <3>3. QED
      BY <2>1, <2>2, <3>1, <3>2, NoneAssumption DEF TypeOK
  <2> HIDE DEF k
  <2>4. KeyKnowsAppt'
    <3>1. ASSUME NEW j \in KeyIds, keys'[j] # None
          PROVE  /\ keys'[j].appt \in Procs
                 /\ rows'[keys'[j].appt] # None
                 /\ KeyOf(keys'[j].appt) = j
                 /\ keys'[j].hash = Hash(cmd[keys'[j].appt])
      <4>1. CASE j = k
        BY <2>2, <2>3, <4>1 DEF k
      <4>2. CASE j # k
        BY <2>2, <2>3, <3>1, <4>2 DEF KeyInv, KeyKnowsAppt, TypeOK, KeyRow
      <4>3. QED
        BY <4>1, <4>2
    <3>2. QED
      BY <1>1, <1>2, <3>1 DEF KeyKnowsAppt
  <2>5. ApptKnowsKey'
    <3>1. ASSUME NEW q \in Procs, rows'[q] # None
          PROVE  keys'[KeyOf(q)] # None /\ keys'[KeyOf(q)].appt = q
      <4>1. CASE q = p
        BY <2>3, <4>1 DEF k
      <4>2. CASE q # p
        <5>1. /\ keys[KeyOf(q)] # None /\ keys[KeyOf(q)].appt = q
          BY <2>2, <3>1, <4>2 DEF KeyInv, ApptKnowsKey
        <5>2. KeyOf(q) \in KeyIds /\ KeyOf(q) # k
          BY <2>3, <5>1, KeyOfType
        <5>3. QED
          BY <2>3, <5>1, <5>2
      <4>3. QED
        BY <4>1, <4>2
    <3>2. QED
      BY <1>2, <3>1 DEF ApptKnowsKey
  <2>6. KeyHeldAlone'
    <3>1. \A q \in Procs : InTx(q)' => q # p /\ InTx(q)
      BY <2>2 DEF InTx, TypeOK
    <3>2. ASSUME NEW q \in Procs, InTx(q)' PROVE keys'[KeyOf(q)] = None
      <4>1. KeyOf(q) # k /\ KeyOf(q) \in KeyIds /\ keys[KeyOf(q)] = None
        BY <2>2, <3>1, <3>2, KeyOfType DEF KeyInv, KeyHeldAlone, k
      <4>2. QED
        BY <2>3, <4>1
    <3>3. QED
      BY <1>2, <3>1, <3>2 DEF KeyInv, KeyHeldAlone
  <2>7. AnswerKnowsAppt'
    <3>1. ASSUME NEW q \in Procs, answer'[q].appt # None
          PROVE  /\ answer'[q].appt \in Procs
                 /\ rows'[answer'[q].appt] # None
                 /\ KeyOf(answer'[q].appt) = KeyOf(q)
                 /\ Hash(cmd[answer'[q].appt]) = Hash(cmd[q])
      <4>1. CASE q = p
        BY <2>2, <3>1, <4>1
      <4>2. CASE q # p
        <5>1. answer'[q] = answer[q] /\ answer[q].appt \in Procs
          BY <2>2, <3>1, <4>2 DEF TypeOK
        <5>2. /\ rows[answer[q].appt] # None
              /\ KeyOf(answer[q].appt) = KeyOf(q)
              /\ Hash(cmd[answer[q].appt]) = Hash(cmd[q])
          BY <3>1, <5>1 DEF KeyInv, AnswerKnowsAppt
        <5>3. QED
          BY <2>2, <5>1, <5>2
      <4>3. QED
        BY <4>1, <4>2
    <3>2. QED
      BY <1>1, <3>1 DEF AnswerKnowsAppt, KeyOf
  <2>8. QED
    BY <2>4, <2>5, <2>6, <2>7 DEF KeyInv
<1>4. ASSUME UNCHANGED keys, \A a \in Procs : rows'[a] = rows[a] \/ Moved(a),
             KeyHeldAlone', AnswerKnowsAppt'
      PROVE  KeyInv'
  <2>1. KeyKnowsAppt'
    <3>1. ASSUME NEW j \in KeyIds, keys[j] # None
          PROVE  /\ keys[j].appt \in Procs
                 /\ rows'[keys[j].appt] # None
                 /\ KeyOf(keys[j].appt) = j
                 /\ keys[j].hash = Hash(cmd[keys[j].appt])
      <4>1. keys[j].appt \in Procs
        BY <3>1 DEF TypeOK, KeyRow
      <4>2. /\ rows[keys[j].appt] # None
            /\ KeyOf(keys[j].appt) = j
            /\ keys[j].hash = Hash(cmd[keys[j].appt])
        BY <3>1 DEF KeyInv, KeyKnowsAppt
      <4>3. QED
        BY <4>1, <4>2, RowsStay
    <3>2. QED
      BY <1>1, <1>4, <3>1 DEF KeyKnowsAppt, KeyOf
  <2>2. ApptKnowsKey'
    BY <1>2, <1>4 DEF KeyInv, ApptKnowsKey, Moved
  <2>3. QED
    BY <1>4, <2>1, <2>2 DEF KeyInv
<1>5. ASSUME UNCHANGED request, UNCHANGED keys
      PROVE  KeyHeldAlone' /\ AnswerKnowsAppt'
  <2>1. UNCHANGED <<pc, cmd, answer>>
    BY <1>5 DEF request
  <2>2. KeyHeldAlone'
    BY <1>5, <2>1 DEF KeyInv, KeyHeldAlone, InTx, KeyOf
  <2>3. AnswerKnowsAppt'
    BY <1>2, <2>1, RowsStay DEF KeyInv, AnswerKnowsAppt, TypeOK
  <2>4. QED
    BY <2>2, <2>3
<1>6. ASSUME NEW p \in Procs, Step(p) \/ Abort(p), ~ InsertAndCommit(p)
      PROVE  /\ UNCHANGED <<rows, keys>>
             /\ \/ InTx(p)' => InTx(p)
                \/ ClaimKey(p) /\ keys[KeyOf(p)] = None
             /\ \/ answer'[p].appt = answer[p].appt
                \/ answer'[p].appt = None
                \/ /\ keys[KeyOf(p)] # None
                   /\ answer'[p].appt = ReplayAppt(cmd[p])
  <2> USE DEF Answer, InTx, TypeOK, ledger
  <2>1. CASE Submit(p)
    BY <2>1 DEF Submit
  <2>2. CASE Look(p)
    BY <2>2 DEF Look
  <2>3. CASE Refuse(p)
    BY <2>3 DEF Refuse
  <2>4. CASE ClaimKey(p)
    BY <2>4 DEF ClaimKey
  <2>5. CASE Allow(p)
    BY <2>5 DEF Allow
  <2>6. CASE LockStaff(p)
    BY <2>6 DEF LockStaff
  <2>7. CASE StillWorking(p)
    BY <2>7 DEF StillWorking, NextDraft
  <2>8. CASE InsertRefused(p)
    BY <2>8 DEF InsertRefused, NextDraft
  <2>9. CASE Abort(p)
    BY <2>9 DEF Abort
  <2>10. QED
    BY <1>6, <2>1, <2>2, <2>3, <2>4, <2>5, <2>6, <2>7, <2>8, <2>9 DEF Step
<1>7. ASSUME NEW p \in Procs, Step(p) \/ Abort(p), ~ InsertAndCommit(p)
      PROVE  KeyHeldAlone' /\ AnswerKnowsAppt'
  <2>1. /\ UNCHANGED <<rows, keys>>
        /\ \A q \in Procs \ {p} : pc'[q] = pc[q] /\ answer'[q] = answer[q]
    BY <1>6, <1>7, OwnStep
  <2>2. \A q \in Procs \ {p} : InTx(q)' => InTx(q)
    BY <2>1 DEF InTx
  <2>3. KeyHeldAlone'
    <3>1. CASE InTx(p)' => InTx(p)
      BY <1>2, <2>1, <2>2, <3>1 DEF KeyInv, KeyHeldAlone
    <3>2. CASE ClaimKey(p) /\ keys[KeyOf(p)] = None
      BY <1>2, <2>1, <2>2, <3>2 DEF KeyInv, KeyHeldAlone, ClaimKey, KeyClaimed
    <3>3. QED
      BY <1>6, <1>7, <3>1, <3>2
  <2>4. AnswerKnowsAppt'
    <3>1. ASSUME keys[KeyOf(p)] # None, answer'[p].appt = ReplayAppt(cmd[p]),
                 answer'[p].appt # None
          PROVE  /\ answer'[p].appt \in Procs
                 /\ rows[answer'[p].appt] # None
                 /\ KeyOf(answer'[p].appt) = KeyOf(p)
                 /\ Hash(cmd[answer'[p].appt]) = Hash(cmd[p])
      <4>1. /\ KeyOf(p) \in KeyIds
            /\ keys[KeyOf(p)].appt \in Procs
            /\ answer'[p].appt = keys[KeyOf(p)].appt
            /\ keys[KeyOf(p)].hash = Hash(cmd[p])
        <5>1. KeyOf(p) = <<cmd[p].requester, cmd[p].key>>
          BY DEF KeyOf
        <5>2. KeyOf(p) \in KeyIds /\ keys[KeyOf(p)].appt \in Procs
          <6>1. KeyOf(p) \in KeyIds
            BY KeyOfType
          <6>2. QED
            BY <3>1, <6>1 DEF TypeOK, KeyRow
        <5>3. ReplayCode(cmd[p]) = "replayed"
          BY <3>1 DEF ReplayAppt
        <5>4. keys[KeyOf(p)].hash = Hash(cmd[p])
          BY <5>1, <5>3 DEF ReplayCode
        <5>5. QED
          BY <3>1, <5>1, <5>2, <5>3, <5>4 DEF ReplayAppt
      <4>2. QED
        BY <3>1, <4>1 DEF KeyInv, KeyKnowsAppt
    <3>2. QED
      <4>1. ASSUME NEW q \in Procs, answer'[q].appt # None
            PROVE  /\ rows[answer'[q].appt] # None
                   /\ KeyOf(answer'[q].appt) = KeyOf(q)
                   /\ Hash(cmd[answer'[q].appt]) = Hash(cmd[q])
        <5>1. CASE answer'[q].appt = answer[q].appt
          BY <4>1, <5>1 DEF KeyInv, AnswerKnowsAppt
        <5>2. CASE q = p /\ answer'[q].appt # answer[q].appt
          <6>1. /\ keys[KeyOf(p)] # None
                /\ answer'[p].appt = ReplayAppt(cmd[p])
            BY <1>6, <1>7, <4>1, <5>2
          <6>2. QED
            BY <3>1, <4>1, <5>2, <6>1
        <5>3. QED
          BY <2>1, <5>1, <5>2
      <4>2. QED
        BY <1>1, <2>1, <4>1 DEF AnswerKnowsAppt, KeyOf
  <2>5. QED
    BY <2>3, <2>4
<1>8. CASE \E p \in Procs : InsertAndCommit(p)
  BY <1>3, <1>8
<1>9. CASE ~ \E p \in Procs : InsertAndCommit(p)
  <2>1. UNCHANGED keys /\ \A a \in Procs : rows'[a] = rows[a] \/ Moved(a)
    BY <1>9, RowSteps
  <2>2. QED
    BY <1>4, <1>5, <1>7, <1>9, <2>1, OtherSteps
<1>10. QED
  BY <1>8, <1>9

\* Requests under one Idempotency-Key make one appointment between them, and
\* every one of them that is told of an appointment is told of that one.
THEOREM KeysBookOnce == Spec => []OneBookingPerKey
<1>1. TypeInv /\ KeyInv => OneBookingPerKey
  <2> SUFFICES ASSUME TypeInv, KeyInv, NEW p \in Procs, NEW q \in Procs,
                      KeyOf(p) = KeyOf(q), rows[p] # None
               PROVE  /\ rows[q] # None => p = q
                      /\ answer[q].appt # None => answer[q].appt = p
    BY DEF OneBookingPerKey
  <2>1. rows[q] # None => p = q
    BY DEF KeyInv, ApptKnowsKey
  <2>2. ASSUME answer[q].appt # None PROVE answer[q].appt = p
    <3>1. /\ answer[q].appt \in Procs
          /\ rows[answer[q].appt] # None
          /\ KeyOf(answer[q].appt) = KeyOf(p)
      BY <2>2 DEF KeyInv, AnswerKnowsAppt, TypeInv, TypeOK
    <3>2. QED
      BY <3>1 DEF KeyInv, ApptKnowsKey
  <2>3. QED
    BY <2>1, <2>2
<1>2. QED
  BY <1>1, TypeInit, TypeStep, RowInit, RowStep, KeyInit, KeyStep, PTL DEF Spec

-----------------------------------------------------------------------------
(***************************************************************************)
(* Booking implements BookingLedger: a commit enters its appointment with  *)
(* its key, every other step moves appointments along the lifecycle or     *)
(* does not show.                                                          *)
(***************************************************************************)
LEMMA LedgerInit == Init => Ledger!Init
  BY DEF Init, Ledger!Init

\* A move is a move of the ledger.
LEMMA LedgerMove ==
    ASSUME TypeInv, NEW a \in Procs, Moved(a)
    PROVE  Ledger!Moves(rows[a], rows'[a])
<1>1. PICK act \in Actions, t \in Nat :
         Allowed(act, rows[a], t) /\ rows'[a] = After(act, rows[a])
  BY DEF Moved
<1>2. rows[a] \in Row
  BY DEF Moved, TypeInv, TypeOK
<1>3. <<rows[a].status, Target(act)>> \in Edges
  BY <1>1, <1>2, AllowedEdges
<1>4. rows'[a].status = Target(act) /\ rows'[a].cancelledBy = Canceller(act)
  BY <1>1, <1>2, AfterFacts
<1>5. rows'[a] = [rows[a] EXCEPT !.status       = rows'[a].status,
                                 !.pendingUntil = NoTime,
                                 !.cancelledBy  = rows'[a].cancelledBy,
                                 !.version      = @ + 1]
  BY <1>1, <1>4 DEF After
<1>6. QED
  BY <1>3, <1>4, <1>5 DEF Ledger!Moves, Ledger!Edges, Edges, Ledger!NoTime, NoTime

LEMMA LedgerStep ==
    ASSUME TypeInv, TypeInv', RowInv, KeyInv, [Next]_vars
    PROVE  [Ledger!Next]_Ledger!ledger
<1> USE DEF TypeInv
<1>1. ASSUME NEW p \in Procs, InsertAndCommit(p) PROVE Ledger!Enter(p, KeyOf(p))
  <2> DEFINE d == Draft(p, Head(drafts[p]))
  <2> DEFINE k == KeyOf(p)
  <2>1. /\ rows[p] = None /\ d \in Row /\ d # None /\ ~ Taken(d)
        /\ Head(drafts[p]) \in Barbers
        /\ rows' = [rows EXCEPT ![p] = d]
    BY <1>1, CommitFacts
  <2>2. d.status \in ActiveStatuses /\ d.version = 1
    BY <2>1, DraftFacts
  <2>3. k \in KeyIds /\ keys[k] = None
    BY <1>1, KeyOfType DEF InsertAndCommit, InTx, KeyInv, KeyHeldAlone
  <2>4. /\ keys' = [keys EXCEPT ![k] = [hash |-> Hash(cmd[p]), appt |-> p]]
        /\ [hash |-> Hash(cmd[p]), appt |-> p] \in KeyRow
    BY <1>1 DEF InsertAndCommit, TypeOK, KeyRow
  <2> HIDE DEF d, k
  <2>5. rows'[p] = d
    BY <2>1 DEF TypeOK
  <2>6. keys'[k] = [hash |-> Hash(cmd[p]), appt |-> p]
    BY <2>3, <2>4 DEF TypeOK
  <2>7. keys'[k] # None /\ keys'[k].appt = p
    BY <2>4, <2>6, NoneAssumption
  <2>8. \A b \in Procs \ {p} : rows[b] # None => ~ Ledger!Conflicts(d, rows[b])
    BY <2>1
    DEF Taken, Conflicts, Overlaps, IsActive, ActiveStatuses, Ledger!Conflicts,
        Ledger!Overlaps, Ledger!IsActive, Ledger!ActiveStatuses
  <2>9. QED
    BY <2>1, <2>2, <2>3, <2>4, <2>5, <2>6, <2>7, <2>8
    DEF Ledger!Enter, Ledger!ActiveStatuses, ActiveStatuses, k
<1>2. ASSUME UNCHANGED keys, \A a \in Procs : rows'[a] = rows[a] \/ Moved(a)
      PROVE  Ledger!Advance
  <2>1. rows' = [a \in Procs |-> rows'[a]]
    BY DEF TypeOK
  <2>2. \A a \in Procs :
           \/ rows'[a] = rows[a]
           \/ rows[a] # None /\ rows'[a] # None /\ Ledger!Moves(rows[a], rows'[a])
    <3>1. ASSUME NEW a \in Procs, Moved(a)
          PROVE  rows[a] # None /\ rows'[a] # None
      BY <3>1, MoveFacts DEF Moved
    <3>2. ASSUME NEW a \in Procs, Moved(a)
          PROVE  Ledger!Moves(rows[a], rows'[a])
      BY <3>2, LedgerMove
    <3>3. QED
      BY <1>2, <3>1, <3>2
  <2>3. QED
    BY <1>2, <2>1, <2>2 DEF Ledger!Advance
<1>3. ASSUME NEW p \in Procs PROVE KeyOf(p) \in KeyIds
  BY KeyOfType
<1>4. QED
  BY <1>1, <1>2, <1>3, RowSteps DEF Ledger!Next

\* Booking, with its requests, locks, crashes and jobs, does what the ledger
\* promises and nothing else: appointments are entered once, with their key and
\* in conflict with nobody, and from then on only move along the lifecycle, a
\* version at a time.
THEOREM BookingKeepsTheLedger == Spec => LedgerSpec
<1>1. QED
  BY TypeInit, TypeStep, RowInit, RowStep, KeyInit, KeyStep, LedgerInit,
     LedgerStep, PTL
  DEF Spec, LedgerSpec, Ledger!Spec

-----------------------------------------------------------------------------
(***************************************************************************)
(* Hours.  From the check that a draft's barber still works to the commit, *)
(* the staff lock keeps anyone from taking their own hours away.           *)
(***************************************************************************)
DraftFits(p) ==
    LET d == Draft(p, Head(drafts[p]))
    IN  Span(d) \subseteq OwnHours(d.branch, d.barber)

HoursKept == \A p \in Procs : pc[p] = "working" => DraftFits(p)

\* A savepoint that is open holds its barber's lock.
BarberHeld ==
    \A p \in Procs : pc[p] \in {"locked", "working"} => Head(drafts[p]) \in locks[p]

LEMMA HoursInit == Init => HoursKept /\ BarberHeld
  BY DEF Init, HoursKept, BarberHeld

LEMMA BarberStep ==
    ASSUME TypeInv, BarberHeld, [Next]_vars
    PROVE  BarberHeld'
<1> USE DEF TypeInv, TypeOK
<1> SUFFICES ASSUME NEW p \in Procs, pc'[p] \in {"locked", "working"}
             PROVE  Head(drafts'[p]) \in locks'[p]
  BY DEF BarberHeld
<1>1. CASE LockStaff(p)
  BY <1>1 DEF LockStaff
<1>2. CASE (Step(p) \/ Abort(p)) /\ ~ LockStaff(p)
  BY <1>2
  DEF BarberHeld, Step, Submit, Look, Refuse, ClaimKey, Allow, StillWorking,
      NextDraft, InsertRefused, InsertAndCommit, Abort, Answer
<1>3. CASE ~ (Step(p) \/ Abort(p))
  <2>1. pc'[p] = pc[p] /\ drafts'[p] = drafts[p] /\ locks'[p] = locks[p]
    BY <1>3, OwnStep, OtherSteps DEF request
  <2>2. QED
    BY <2>1 DEF BarberHeld
<1>4. QED
  BY <1>1, <1>2, <1>3

\* A change of hours leaves a locked barber at least the hours they had.
LEMMA LockKeepsHours ==
    ASSUME TypeOK, HoursChange, NEW x \in Branches, NEW y \in Barbers, StaffLocked(y)
    PROVE  (sched[<<x, y>>] \ UNION off[y]) \subseteq (sched'[<<x, y>>] \ UNION off'[y])
<1>1. ASSUME NEW br \in Branches, NEW b \in Barbers, NEW s \in Schedules,
             SetSchedule(br, b, s)
      PROVE  sched'[<<x, y>>] = sched[<<x, y>>] /\ off' = off
  <2>1. b # y
    BY <1>1 DEF SetSchedule
  <2>2. QED
    BY <1>1, <2>1 DEF SetSchedule, TypeOK, Places
<1>2. ASSUME NEW b \in Barbers, NEW s \in TimeOffs, AddTimeOff(b, s)
      PROVE  sched' = sched /\ off'[y] = off[y]
  <2>1. b # y
    BY <1>2 DEF AddTimeOff
  <2>2. QED
    BY <1>2, <2>1 DEF AddTimeOff, TypeOK
<1>3. ASSUME NEW b \in Barbers, NEW s \in TimeOffs, DeleteTimeOff(b, s)
      PROVE  sched' = sched /\ off'[y] \subseteq off[y]
  BY <1>3 DEF DeleteTimeOff, TypeOK
<1>4. ASSUME NEW br \in Branches, NEW s \in Openings, SetOpeningHours(br, s)
      PROVE  sched' = sched /\ off' = off
  BY <1>4 DEF SetOpeningHours
<1>5. QED
  BY <1>1, <1>2, <1>3, <1>4 DEF HoursChange

LEMMA HoursStep ==
    ASSUME TypeInv, TypeInv', HoursKept, BarberHeld, [Next]_vars
    PROVE  HoursKept'
<1> USE DEF TypeInv
<1> SUFFICES ASSUME NEW p \in Procs, pc'[p] = "working"
             PROVE  DraftFits(p)'
  BY DEF HoursKept
<1> DEFINE d == Draft(p, Head(drafts[p]))
<1>1. UNCHANGED cmd
  BY OwnStep, OtherSteps DEF request
<1>2. ASSUME pc[p] = "working", drafts'[p] = drafts[p], seen'[p] = seen[p],
             HoursChange \/ UNCHANGED hours
      PROVE  DraftFits(p)'
  <2>1. drafts[p] \in Seq(Barbers) /\ drafts[p] # << >>
    BY <1>2 DEF TypeOK, DraftsLeft, InTx
  <2>2. Head(drafts[p]) \in Barbers
    BY <2>1
  <2>3. d \in Row /\ d.barber = Head(drafts[p])
    BY <2>2, DraftFacts
  <2>4. d.branch \in Branches /\ d.barber \in Barbers
    BY <2>2, <2>3 DEF Row
  <2>5. StaffLocked(d.barber)
    BY <1>2, <2>3 DEF StaffLocked, BarberHeld
  <2>6. d' = d
    BY <1>1, <1>2 DEF Draft, IsCustomer
  <2>7. Span(d) \subseteq (sched[<<d.branch, d.barber>>] \ UNION off[d.barber])
    BY <1>2 DEF HoursKept, DraftFits, OwnHours
  <2>8. DraftFits(p)' <=>
           Span(d') \subseteq (sched'[<<(d').branch, (d').barber>>] \ UNION off'[(d').barber])
    BY DEF DraftFits, OwnHours, Span
  <2> HIDE DEF d
  <2>9. CASE HoursChange
    <3>1. (sched[<<d.branch, d.barber>>] \ UNION off[d.barber])
             \subseteq (sched'[<<d.branch, d.barber>>] \ UNION off'[d.barber])
      BY <2>4, <2>5, <2>9, LockKeepsHours
    <3>2. QED
      BY <2>6, <2>7, <2>8, <3>1
  <2>10. CASE UNCHANGED hours
    BY <2>6, <2>7, <2>8, <2>10 DEF hours
  <2>11. QED
    BY <1>2, <2>9, <2>10
<1>3. ASSUME Step(p) \/ Abort(p) PROVE StillWorking(p) /\ UNCHANGED drafts
  BY <1>3
  DEF Step, Submit, Look, Refuse, ClaimKey, Allow, LockStaff, StillWorking,
      NextDraft, InsertRefused, InsertAndCommit, Abort, Answer, TypeOK
<1>4. CASE StillWorking(p) /\ UNCHANGED drafts
  <2>1. d' = d
    BY <1>1, <1>4 DEF StillWorking, Draft, IsCustomer
  <2>2. Span(d) \subseteq OwnHours(d.branch, d.barber)
    BY <1>4 DEF StillWorking, NextDraft, WorkingWindows, Answer, TypeOK
  <2>3. DraftFits(p)
    BY <2>2 DEF DraftFits
  <2>4. UNCHANGED hours
    BY <1>4 DEF StillWorking
  <2>5. DraftFits(p)' <=>
           Span(d') \subseteq (sched'[<<(d').branch, (d').barber>>] \ UNION off'[(d').barber])
    BY DEF DraftFits, OwnHours, Span
  <2> HIDE DEF d
  <2>6. QED
    BY <2>1, <2>2, <2>4, <2>5 DEF OwnHours, hours
<1>5. ASSUME NEW q \in Procs \ {p}, Step(q) \/ Abort(q)
      PROVE  /\ pc[p] = "working" /\ drafts'[p] = drafts[p] /\ seen'[p] = seen[p]
             /\ UNCHANGED hours
  <2>1. pc[p] = "working" /\ drafts'[p] = drafts[p] /\ seen'[p] = seen[p]
    BY <1>5, OwnStep
  <2>2. UNCHANGED hours
    BY <1>5
    DEF Step, Submit, Look, Refuse, ClaimKey, Allow, LockStaff, StillWorking,
        InsertRefused, InsertAndCommit, Abort
  <2>3. QED
    BY <2>1, <2>2
<1>6. CASE \E q \in Procs : Step(q) \/ Abort(q)
  BY <1>2, <1>3, <1>4, <1>5, <1>6
<1>7. CASE ~ \E q \in Procs : Step(q) \/ Abort(q)
  <2>1. UNCHANGED request
    BY <1>7, OtherSteps
  <2>2. HoursChange \/ UNCHANGED hours
    BY <1>7
    DEF Next, ChangeStep, ChangeLock, ChangeDecide, ChangeApply, ChangeGivesUp,
        ExpireStart, ExpireLock, ExpireCommit, ExpireAbort, Tick, vars
  <2>3. QED
    BY <1>2, <2>1, <2>2 DEF request
<1>8. QED
  BY <1>6, <1>7

LEMMA EntryInHours ==
    ASSUME TypeInv, TypeInv', RowInv, HoursKept, [Next]_vars,
           NEW p \in Procs, rows[p] = None, rows'[p] # None
    PROVE  Span(rows'[p]) \subseteq OwnHours(rows'[p].branch, rows'[p].barber)
<1> USE DEF TypeInv
<1>1. InsertAndCommit(p)
  <2>1. ~ Moved(p)
    BY MoveFacts DEF Moved
  <2>2. ASSUME NEW q \in Procs, InsertAndCommit(q) PROVE q = p
    <3>1. rows' = [rows EXCEPT ![q] = Draft(q, Head(drafts[q]))]
      BY <2>2, CommitFacts
    <3>2. QED
      BY <3>1 DEF TypeOK
  <2>3. QED
    BY <2>1, <2>2, RowSteps
<1>2. rows'[p] = Draft(p, Head(drafts[p]))
  BY <1>1, CommitFacts
<1>3. DraftFits(p)
  BY <1>1 DEF HoursKept, InsertAndCommit
<1>4. QED
  BY <1>2, <1>3 DEF DraftFits

\* The staff lock does what LockStaff says of it: no appointment is entered into
\* hours that were taken from its barber between the check and the commit.
THEOREM HoursCannotSlipAway == Spec => InsideOwnHours
<1>1. TypeInv /\ TypeInv' /\ RowInv /\ HoursKept /\ [Next]_vars =>
        [\A p \in Procs :
            rows[p] = None /\ rows'[p] # None =>
                Span(rows'[p]) \subseteq OwnHours(rows'[p].branch, rows'[p].barber)]_vars
  BY EntryInHours
<1>2. QED
  BY <1>1, TypeInit, TypeStep, RowInit, RowStep, HoursInit, HoursStep,
     BarberStep, PTL
  DEF Spec, InsideOwnHours

-----------------------------------------------------------------------------
(***************************************************************************)
(* What a request tries to book, and what it has booked, is what it asked  *)
(* for.                                                                    *)
(***************************************************************************)
DraftsOffered ==
    \A p \in Procs : \A i \in 1 .. Len(drafts[p]) : drafts[p][i] \in Offers(cmd[p])

RowAsAsked ==
    \A p \in Procs : rows[p] # None =>
        /\ rows[p].branch = cmd[p].branch
        /\ rows[p].start = cmd[p].start
        /\ cmd[p].barber \in {rows[p].barber, AnyBarber}

AskedInv == DraftsOffered /\ RowAsAsked

LEMMA AskedInit == Init => AskedInv
  BY DEF Init, AskedInv, DraftsOffered, RowAsAsked

\* A request's step leaves it the drafts it had, all but the first of them, or
\* the offers it just looked up.
LEMMA DraftSteps ==
    ASSUME TypeInv, NEW p \in Procs, Step(p) \/ Abort(p)
    PROVE  \/ drafts' = drafts
           \/ InTx(p) /\ drafts' = [drafts EXCEPT ![p] = Tail(@)]
           \/ \E s \in FreeAt(p) : drafts' = [drafts EXCEPT ![p] = s]
  BY DEF Step, Submit, Look, Refuse, ClaimKey, Allow, LockStaff, StillWorking,
         NextDraft, InsertRefused, InsertAndCommit, Abort, InTx

LEMMA OfferedStep ==
    ASSUME TypeInv, DraftsOffered, [Next]_vars
    PROVE  DraftsOffered'
<1> USE DEF TypeInv
<1>1. UNCHANGED cmd
  BY OwnStep, OtherSteps DEF request
<1>2. \A p \in Procs : Offers(cmd[p])' = Offers(cmd[p])
  BY <1>1 DEF Offers
<1>3. CASE UNCHANGED drafts
  BY <1>1, <1>2, <1>3 DEF DraftsOffered
<1>4. ASSUME NEW p \in Procs, InTx(p), drafts' = [drafts EXCEPT ![p] = Tail(@)]
      PROVE  DraftsOffered'
  <2>1. drafts[p] \in Seq(Barbers) /\ drafts[p] # << >>
    BY <1>4 DEF TypeOK, DraftsLeft
  <2>2. \A i \in 1 .. Len(Tail(drafts[p])) :
           i + 1 \in 1 .. Len(drafts[p]) /\ Tail(drafts[p])[i] = drafts[p][i + 1]
    BY <2>1
  <2>3. \A i \in 1 .. Len(Tail(drafts[p])) : Tail(drafts[p])[i] \in Offers(cmd[p])
    BY <2>2 DEF DraftsOffered
  <2>4. drafts'[p] = Tail(drafts[p]) /\ \A q \in Procs \ {p} : drafts'[q] = drafts[q]
    BY <1>4 DEF TypeOK
  <2>5. QED
    BY <1>2, <2>3, <2>4 DEF DraftsOffered
<1>5. ASSUME NEW p \in Procs, NEW s \in FreeAt(p), drafts' = [drafts EXCEPT ![p] = s]
      PROVE  DraftsOffered'
  <2> DEFINE free == {b \in Offers(cmd[p]) : CanTake(p, b)}
  <2>1. s \in [1 .. Cardinality(free) -> free]
    BY DEF FreeAt
  <2>2. Cardinality(free) \in Nat
    <3>1. free \subseteq Barbers
      BY DEF Offers
    <3>2. QED
      BY <3>1, SizesAssumption, FS_Subset, FS_CardinalityType
  <2>3. \A i \in 1 .. Len(s) : s[i] \in free
    BY <2>1, <2>2
  <2>4. drafts'[p] = s /\ \A q \in Procs \ {p} : drafts'[q] = drafts[q]
    BY <1>5 DEF TypeOK
  <2>5. QED
    BY <1>2, <2>3, <2>4 DEF DraftsOffered
<1>6. QED
  BY <1>3, <1>4, <1>5, DraftSteps, OtherSteps DEF request

\* What a commit saves was asked for: an offer of the request's barber, or of
\* any, at the branch and the moment it named, and it takes some time.
LEMMA CommitAsked ==
    ASSUME TypeInv, RowInv, DraftsOffered, NEW p \in Procs, InsertAndCommit(p)
    PROVE  LET d == Draft(p, Head(drafts[p]))
           IN  /\ d.branch = cmd[p].branch
               /\ d.start = cmd[p].start
               /\ d.barber = Head(drafts[p])
               /\ cmd[p].barber \in {d.barber, AnyBarber}
               /\ d.start < d.busyUntil
<1> USE DEF TypeInv
<1> DEFINE b == Head(drafts[p])
<1>1. drafts[p] \in Seq(Barbers) /\ drafts[p] # << >>
  BY DEF InsertAndCommit, InTx, TypeOK, DraftsLeft
<1>2. b \in Offers(cmd[p])
  <2>1. 1 \in 1 .. Len(drafts[p]) /\ b = drafts[p][1]
    BY <1>1
  <2>2. QED
    BY <2>1 DEF DraftsOffered
<1>3. b \in Barbers /\ Duration[cmd[p].sel][b] > 0 /\ cmd[p].barber \in {b, AnyBarber}
  BY <1>2 DEF Offers
<1> HIDE DEF b
<1>4. /\ Draft(p, b).branch = cmd[p].branch
      /\ Draft(p, b).start = cmd[p].start
      /\ Draft(p, b).barber = b
  BY <1>3, DraftFacts
<1>5. Draft(p, b).start < Draft(p, b).busyUntil
  <2>1. /\ cmd[p].branch \in Branches /\ cmd[p].sel \in Selections
        /\ cmd[p].start \in Nat
    BY CatalogAssumption DEF TypeOK, Command
  <2>2. Policy[cmd[p].branch].buffer \in Nat /\ Duration[cmd[p].sel][b] \in Nat
    BY <1>3, <2>1, CatalogAssumption
  <2>3. /\ Draft(p, b).start = cmd[p].start
        /\ Draft(p, b).busyUntil = cmd[p].start + Duration[cmd[p].sel][b]
                                       + Policy[cmd[p].branch].buffer
    BY DEF Draft, Book
  <2>4. QED
    BY <1>3, <2>1, <2>2, <2>3
<1>6. QED
  BY <1>3, <1>4, <1>5 DEF b

LEMMA AskedStep ==
    ASSUME TypeInv, TypeInv', RowInv, AskedInv, [Next]_vars
    PROVE  AskedInv'
<1> USE DEF TypeInv
<1>1. UNCHANGED cmd
  BY OwnStep, OtherSteps DEF request
<1>2. ASSUME NEW p \in Procs, InsertAndCommit(p) PROVE RowAsAsked'
  <2> DEFINE d == Draft(p, Head(drafts[p]))
  <2>1. /\ d.branch = cmd[p].branch /\ d.start = cmd[p].start
        /\ cmd[p].barber \in {d.barber, AnyBarber}
    BY <1>2, CommitAsked DEF AskedInv
  <2>2. rows' = [rows EXCEPT ![p] = d]
    BY <1>2, CommitFacts
  <2> HIDE DEF d
  <2>3. rows'[p] = d /\ \A q \in Procs \ {p} : rows'[q] = rows[q]
    BY <2>2 DEF TypeOK
  <2>4. QED
    BY <1>1, <2>1, <2>3 DEF AskedInv, RowAsAsked
<1>3. ASSUME \A a \in Procs : rows'[a] = rows[a] \/ Moved(a) PROVE RowAsAsked'
  BY <1>1, <1>3, MoveFacts DEF AskedInv, RowAsAsked, Moved
<1>4. QED
  BY <1>2, <1>3, RowSteps, OfferedStep DEF AskedInv

-----------------------------------------------------------------------------
(***************************************************************************)
(* The story of an appointment.                                            *)
(***************************************************************************)
RowsHaveEvents == \A a \in Procs : rows[a] = None <=> published[a] = << >>

HistoryInv == RowsHaveEvents /\ EventsTellTheStory /\ RowsPassChecks

\* An appointment's move is told, as it was.
Told(a) ==
    published'[a] = Append(published[a], <<rows[a].status, rows'[a].status>>)

\* Whatever moves is told, whatever stays is not.
LEMMA EventSteps ==
    ASSUME TypeInv, TypeInv', RowInv, [Next]_vars, ~ \E p \in Procs : InsertAndCommit(p)
    PROVE  \A a \in Procs :
              \/ rows'[a] = rows[a] /\ published'[a] = published[a]
              \/ Moved(a) /\ Told(a)
<1> USE DEF TypeInv, ledger
<1>1. CASE UNCHANGED <<rows, published>>
  BY <1>1
<1>2. ASSUME NEW p \in Procs, Step(p) \/ Abort(p) PROVE UNCHANGED <<rows, published>>
  BY <1>2
  DEF Step, Submit, Look, Refuse, ClaimKey, Allow, LockStaff, StillWorking,
      InsertRefused, Abort
<1>3. ASSUME NEW c \in Changers, ChangeApply(c), NEW a \in Procs
      PROVE  \/ rows'[a] = rows[a] /\ published'[a] = published[a]
             \/ rows'[a] # rows[a] /\ Told(a)
  <2> DEFINE x == changes[c]
  <2>1. x.appt \in Procs /\ x.row = rows[x.appt]
    BY <1>3 DEF ChangeApply, ChangeShape, RowInv, LockedRowIsCurrent, Holding
  <2>2. /\ rows' = [rows EXCEPT ![x.appt] = After(x.act, x.row)]
        /\ published' = [published EXCEPT ![x.appt] =
                            Append(@, <<x.row.status, After(x.act, x.row).status>>)]
    BY <1>3 DEF ChangeApply
  <2>3. CASE a = x.appt
    <3>1. x.act \in Actions /\ x.row \in Row
      BY <1>3 DEF ChangeApply, ChangeShape, Holding
    <3>2. After(x.act, x.row).version = x.row.version + 1 /\ x.row.version \in Nat
      BY <3>1, AfterFacts DEF Row
    <3>3. rows'[a] # rows[a]
      BY <2>1, <2>2, <2>3, <3>2 DEF TypeOK
    <3>4. QED
      BY <2>1, <2>2, <2>3, <3>3 DEF Told, TypeOK
  <2>4. CASE a # x.appt
    BY <2>2, <2>4 DEF TypeOK
  <2>5. QED
    BY <2>3, <2>4
<1>4. ASSUME NEW e \in Expirers, ExpireCommit(e), NEW a \in Procs
      PROVE  \/ rows'[a] = rows[a] /\ published'[a] = published[a]
             \/ rows'[a] # rows[a] /\ Told(a)
  <2>1. CASE a \in expiring[e].batch
    <3>1. rows[a] \in Row
      BY <1>4, <2>1 DEF ExpireCommit, BatchShape, TypeOK
    <3>2. rows'[a] = After("expire", rows[a])
      BY <1>4, <2>1 DEF ExpireCommit
    <3>3. /\ rows'[a].status = "expired"
          /\ rows'[a].version = rows[a].version + 1 /\ rows[a].version \in Nat
      <4>1. "expire" \in Actions /\ Target("expire") = "expired"
        BY DEF Actions, Target
      <4>2. rows[a].version \in Nat
        BY <3>1 DEF Row
      <4>3. QED
        BY <3>1, <3>2, <4>1, <4>2, AfterFacts
    <3>4. QED
      BY <1>4, <2>1, <3>3 DEF ExpireCommit, Told
  <2>2. CASE a \notin expiring[e].batch
    BY <1>4, <2>2 DEF ExpireCommit
  <2>3. QED
    BY <2>1, <2>2
<1>5. \/ UNCHANGED <<rows, published>>
      \/ \E c \in Changers : ChangeApply(c)
      \/ \E e \in Expirers : ExpireCommit(e)
  BY <1>2
  DEF Next, ChangeStep, ChangeLock, ChangeDecide, ChangeGivesUp, ExpireStart, ExpireLock,
      ExpireAbort, HoursChange, SetSchedule, AddTimeOff, DeleteTimeOff,
      SetOpeningHours, Tick, vars
<1>6. QED
  BY <1>1, <1>3, <1>4, <1>5, RowSteps

LEMMA HistoryInit == Init => HistoryInv
  BY DEF Init, HistoryInv, RowsHaveEvents, EventsTellTheStory, RowsPassChecks

\* A draft passes the table's checks.
LEMMA CommitChecks ==
    ASSUME TypeInv, RowInv, DraftsOffered, NEW p \in Procs, InsertAndCommit(p)
    PROVE  LET d == Draft(p, Head(drafts[p]))
           IN  /\ d.status = "pending" <=> d.pendingUntil # NoTime
               /\ d.status # "cancelled" /\ d.cancelledBy = "nobody"
               /\ d.version = 1
<1> USE DEF TypeInv
<1>1. cmd[p].branch \in Branches /\ seen[p] \in Nat
  BY CatalogAssumption DEF TypeOK, Command
<1>2. Policy[cmd[p].branch].pendingExpiry \in Nat
  BY <1>1, CatalogAssumption
<1>3. QED
  BY <1>1, <1>2 DEF Draft, Book, NoTime

\* A move leaves the row as the table's checks want it.
LEMMA MoveChecks ==
    ASSUME TypeInv, NEW a \in Procs, Moved(a)
    PROVE  /\ rows'[a].status # "pending" /\ rows'[a].pendingUntil = NoTime
           /\ rows'[a].status = "cancelled" <=> rows'[a].cancelledBy # "nobody"
           /\ rows'[a].version = rows[a].version + 1
<1>1. PICK act \in Actions, t \in Nat :
         Allowed(act, rows[a], t) /\ rows'[a] = After(act, rows[a])
  BY DEF Moved
<1>2. rows[a] \in Row
  BY DEF Moved, TypeInv, TypeOK
<1>3. Target(act) # "pending"
  BY <1>1, <1>2, AllowedEdges
<1>4. Target(act) = "cancelled" <=> Canceller(act) # "nobody"
  BY DEF Actions, Target, Canceller
<1>5. QED
  BY <1>1, <1>2, <1>3, <1>4, AfterFacts

\* What a list of events says once one more is added.
StoryOf(es, r) ==
    /\ Len(es) = r.version
    /\ es[1][1] = "none"
    /\ es[Len(es)][2] = r.status
    /\ \A i \in 1 .. (Len(es) - 1) : es[i + 1][1] = es[i][2]

LEMMA StoryBegins ==
    ASSUME NEW r \in Row, r.version = 1
    PROVE  StoryOf(Append(<< >>, <<"none", r.status>>), r)
<1>1. Append(<< >>, <<"none", r.status>>) = << <<"none", r.status>> >>
  OBVIOUS
<1>2. QED
  BY <1>1 DEF StoryOf

LEMMA StoryGoesOn ==
    ASSUME NEW es \in Seq(Events), NEW r \in Row, NEW s \in Row,
           StoryOf(es, r), es # << >>, s.version = r.version + 1
    PROVE  StoryOf(Append(es, <<r.status, s.status>>), s)
<1> DEFINE e == <<r.status, s.status>>
<1> DEFINE new == Append(es, e)
<1>1. Len(es) \in Nat \ {0}
  OBVIOUS
<1>2. /\ Len(new) = Len(es) + 1
      /\ new[Len(es) + 1] = e
      /\ \A i \in 1 .. Len(es) : new[i] = es[i]
  OBVIOUS
<1>3. e[1] = r.status /\ e[2] = s.status
  OBVIOUS
<1> HIDE DEF e, new
<1>4. new[1][1] = "none"
  BY <1>1, <1>2 DEF StoryOf
<1>5. ASSUME NEW i \in 1 .. (Len(new) - 1) PROVE new[i + 1][1] = new[i][2]
  <2>1. CASE i = Len(es)
    BY <1>1, <1>2, <1>3, <2>1 DEF StoryOf
  <2>2. CASE i \in 1 .. (Len(es) - 1)
    <3>1. i \in 1 .. Len(es) /\ i + 1 \in 1 .. Len(es)
      BY <1>1, <2>2
    <3>2. new[i] = es[i] /\ new[i + 1] = es[i + 1]
      BY <1>2, <3>1
    <3>3. QED
      BY <2>2, <3>2 DEF StoryOf
  <2>3. QED
    BY <1>1, <1>2, <2>1, <2>2
<1>6. QED
  BY <1>1, <1>2, <1>3, <1>4, <1>5 DEF StoryOf, e, new

LEMMA HistoryStep ==
    ASSUME TypeInv, TypeInv', RowInv, AskedInv, HistoryInv, [Next]_vars
    PROVE  HistoryInv'
<1> USE DEF TypeInv
<1>1. ASSUME NEW p \in Procs, InsertAndCommit(p) PROVE HistoryInv'
  <2> DEFINE d == Draft(p, Head(drafts[p]))
  <2>1. d \in Row /\ d # None /\ rows[p] = None /\ rows' = [rows EXCEPT ![p] = d]
    BY <1>1, CommitFacts
  <2>2. /\ d.status = "pending" <=> d.pendingUntil # NoTime
        /\ d.status # "cancelled" /\ d.cancelledBy = "nobody"
        /\ d.version = 1 /\ d.start < d.busyUntil
    BY <1>1, CommitChecks, CommitAsked DEF AskedInv
  <2>3. published' = [published EXCEPT ![p] = Append(@, <<"none", d.status>>)]
    BY <1>1 DEF InsertAndCommit
  <2> HIDE DEF d
  <2>4. published[p] = << >>
    BY <2>1 DEF HistoryInv, RowsHaveEvents
  <2>5. /\ rows'[p] = d /\ published'[p] = Append(<< >>, <<"none", d.status>>)
        /\ \A a \in Procs \ {p} : rows'[a] = rows[a] /\ published'[a] = published[a]
    BY <2>1, <2>3, <2>4 DEF TypeOK
  <2>6. RowsHaveEvents'
    BY <2>1, <2>5 DEF HistoryInv, RowsHaveEvents
  <2>7. EventsTellTheStory'
    <3>1. StoryOf(published'[p], rows'[p])
      BY <2>1, <2>2, <2>5, StoryBegins
    <3>2. ASSUME NEW a \in Procs \ {p}, rows'[a] # None
          PROVE  StoryOf(published'[a], rows'[a])
      BY <2>5, <3>2 DEF HistoryInv, EventsTellTheStory, StoryOf
    <3>3. QED
      BY <3>1, <3>2 DEF EventsTellTheStory, StoryOf
  <2>8. RowsPassChecks'
    BY <2>2, <2>5 DEF HistoryInv, RowsPassChecks
  <2>9. QED
    BY <2>6, <2>7, <2>8 DEF HistoryInv
<1>2. CASE ~ \E p \in Procs : InsertAndCommit(p)
  <2>1. \A a \in Procs : \/ rows'[a] = rows[a] /\ published'[a] = published[a]
                         \/ Moved(a) /\ Told(a)
    BY <1>2, EventSteps
  <2>2. RowsHaveEvents'
    <3>1. ASSUME NEW a \in Procs, Moved(a), Told(a)
          PROVE  rows'[a] # None /\ published'[a] # << >>
      <4>1. published[a] \in Seq(Events)
        BY DEF TypeOK
      <4>2. Len(published'[a]) = Len(published[a]) + 1 /\ Len(published[a]) \in Nat
        BY <3>1, <4>1 DEF Told
      <4>3. published'[a] # << >>
        BY <4>2
      <4>4. QED
        BY <3>1, <4>3, MoveFacts
    <3>2. QED
      BY <2>1, <3>1 DEF HistoryInv, RowsHaveEvents
  <2>3. RowsPassChecks'
    <3>1. ASSUME NEW a \in Procs, Moved(a)
          PROVE  /\ rows'[a].status = "pending" <=> rows'[a].pendingUntil # NoTime
                 /\ rows'[a].status = "cancelled" <=> rows'[a].cancelledBy # "nobody"
                 /\ rows'[a].start < rows'[a].busyUntil
      <4>1. /\ rows[a] # None /\ rows'[a].start = rows[a].start
            /\ rows'[a].busyUntil = rows[a].busyUntil
        BY <3>1, MoveFacts DEF Moved
      <4>2. rows[a].start < rows[a].busyUntil
        BY <4>1 DEF HistoryInv, RowsPassChecks
      <4>3. QED
        BY <3>1, <4>1, <4>2, MoveChecks
    <3>2. QED
      BY <2>1, <3>1 DEF HistoryInv, RowsPassChecks
  <2>4. ASSUME NEW a \in Procs, Moved(a), Told(a) PROVE StoryOf(published'[a], rows'[a])
    <3>1. /\ rows[a] # None /\ rows[a] \in Row /\ rows'[a] \in Row
          /\ rows'[a].version = rows[a].version + 1
          /\ rows[a].status \in ActiveStatuses
      BY <2>4, MoveFacts, MoveChecks DEF Moved, IsActive
    <3>2. StoryOf(published[a], rows[a])
      BY <3>1 DEF HistoryInv, EventsTellTheStory, StoryOf
    <3>3. published[a] \in Seq(Events)
      BY DEF TypeOK
    <3>4. published[a] # << >>
      BY <3>1 DEF HistoryInv, RowsHaveEvents
    <3>5. QED
      BY <2>4, <3>1, <3>2, <3>3, <3>4, StoryGoesOn DEF Told
  <2>5. EventsTellTheStory'
    BY <2>1, <2>4 DEF HistoryInv, EventsTellTheStory, StoryOf
  <2>6. QED
    BY <2>2, <2>3, <2>5 DEF HistoryInv
<1>3. QED
  BY <1>1, <1>2

\* The events an appointment published with its row tell how the row got where
\* it is, and the row passes the checks of booking.appointments: the booking's
\* transaction and every Update append the event and change the row together.
THEOREM HistoryIsTold == Spec => []HistoryHolds
<1>1. HistoryInv => HistoryHolds
  BY DEF HistoryInv, HistoryHolds
<1>2. QED
  BY <1>1, TypeInit, TypeStep, RowInit, RowStep, AskedInit, AskedStep,
     HistoryInit, HistoryStep, PTL DEF Spec

-----------------------------------------------------------------------------
(***************************************************************************)
(* What callers are told.  A request books under its own name exactly when *)
(* it is told so, or when the answer that would have told it was lost.     *)
(***************************************************************************)
BookedMeansRow ==
    \A p \in Procs : rows[p] # None <=> answer[p].code \in {"booked", "lost"}

LEMMA BookedInit == Init => BookedMeansRow
  BY DEF Init, BookedMeansRow, NoAnswer

\* Only a commit tells its caller of a booking, or would have.
LEMMA OtherAnswers ==
    ASSUME TypeInv, NEW p \in Procs, Step(p) \/ Abort(p), ~ InsertAndCommit(p)
    PROVE  answer'[p] = answer[p] \/ answer'[p].code \notin {"booked", "lost"}
<1> USE DEF TypeInv, TypeOK, Answer
<1>1. CASE Submit(p)
  BY <1>1 DEF Submit, ReplayCode
<1>2. CASE Look(p)
  BY <1>2 DEF Look
<1>3. CASE Refuse(p)
  BY <1>3 DEF Refuse
<1>4. CASE ClaimKey(p)
  BY <1>4 DEF ClaimKey, ReplayCode
<1>5. CASE Allow(p)
  BY <1>5 DEF Allow
<1>6. CASE LockStaff(p)
  BY <1>6 DEF LockStaff
<1>7. CASE StillWorking(p)
  BY <1>7 DEF StillWorking, NextDraft
<1>8. CASE InsertRefused(p)
  BY <1>8 DEF InsertRefused, NextDraft
<1>9. CASE Abort(p)
  BY <1>9 DEF Abort
<1>10. QED
  BY <1>1, <1>2, <1>3, <1>4, <1>5, <1>6, <1>7, <1>8, <1>9 DEF Step

LEMMA BookedStep ==
    ASSUME TypeInv, TypeInv', RowInv, BookedMeansRow, [Next]_vars
    PROVE  BookedMeansRow'
<1> USE DEF TypeInv
<1>1. ASSUME NEW p \in Procs, InsertAndCommit(p) PROVE BookedMeansRow'
  <2>1. /\ answer'[p].code \in {"booked", "lost"}
        /\ \A q \in Procs \ {p} : answer'[q] = answer[q]
    BY <1>1 DEF InsertAndCommit, Answer, TypeOK
  <2>2. rows'[p] # None /\ \A q \in Procs \ {p} : rows'[q] = rows[q]
    BY <1>1, CommitFacts
  <2>3. QED
    BY <2>1, <2>2 DEF BookedMeansRow
<1>2. CASE ~ \E p \in Procs : InsertAndCommit(p)
  <2>1. \A q \in Procs : rows'[q] # None <=> rows[q] # None
    BY <1>2, RowSteps, MoveFacts DEF Moved
  <2>2. ASSUME NEW p \in Procs, Step(p) \/ Abort(p) PROVE BookedMeansRow'
    <3>1. \A q \in Procs \ {p} : answer'[q] = answer[q]
      BY <2>2, OwnStep
    <3>2. rows[p] = None
      BY <2>2, OwnStep DEF RowInv, NewUntilDone
    <3>3. answer'[p].code \notin {"booked", "lost"}
      BY <1>2, <2>2, <3>2, OtherAnswers DEF BookedMeansRow
    <3>4. QED
      BY <2>1, <3>1, <3>2, <3>3 DEF BookedMeansRow
  <2>3. CASE UNCHANGED answer
    BY <2>1, <2>3 DEF BookedMeansRow
  <2>4. QED
    BY <2>2, <2>3, OtherSteps DEF request
<1>3. QED
  BY <1>1, <1>2

\* What BookAppointment answers is so: a retried idempotency key is answered with
\* the booking it made, and a request that gave up, failed or lost its race left
\* no row, no event and no key behind.
THEOREM AnswersAreTrue == Spec => []AnswersHold
<1>1. TypeInv /\ KeyInv /\ AskedInv => ReplayIsFaithful
  <2> SUFFICES ASSUME TypeInv, KeyInv, AskedInv, NEW p \in Procs, answer[p].appt # None
               PROVE  LET a == answer[p].appt
                      IN  /\ rows[a] # None
                          /\ KeyOf(a) = KeyOf(p)
                          /\ Hash(cmd[a]) = Hash(cmd[p])
                          /\ rows[a].branch = cmd[p].branch
                          /\ rows[a].start = cmd[p].start
                          /\ rows[a].barber = cmd[p].barber \/ cmd[p].barber = AnyBarber
    BY DEF ReplayIsFaithful
  <2> DEFINE a == answer[p].appt
  <2>1. a \in Procs
    BY DEF TypeInv, TypeOK
  <2>2. rows[a] # None /\ KeyOf(a) = KeyOf(p) /\ Hash(cmd[a]) = Hash(cmd[p])
    BY DEF KeyInv, AnswerKnowsAppt
  <2>3. /\ cmd[a].branch = cmd[p].branch /\ cmd[a].start = cmd[p].start
        /\ cmd[a].barber = cmd[p].barber
    BY <2>2 DEF Hash
  <2>4. /\ rows[a].branch = cmd[a].branch /\ rows[a].start = cmd[a].start
        /\ cmd[a].barber \in {rows[a].barber, AnyBarber}
    BY <2>1, <2>2 DEF AskedInv, RowAsAsked
  <2>5. QED
    BY <2>2, <2>3, <2>4
<1>2. TypeInv /\ KeyInv /\ HistoryInv /\ BookedMeansRow => NoHalfBooking
  <2> SUFFICES ASSUME TypeInv, KeyInv, HistoryInv, BookedMeansRow, NEW p \in Procs
               PROVE  IF answer[p].code \in {"booked", "lost"}
                      THEN /\ rows[p] # None
                           /\ keys[KeyOf(p)] # None
                           /\ keys[KeyOf(p)].appt = p
                           /\ published[p] # << >>
                      ELSE /\ rows[p] = None
                           /\ published[p] = << >>
                           /\ keys[KeyOf(p)] # None => keys[KeyOf(p)].appt # p
    BY DEF NoHalfBooking
  <2>1. CASE answer[p].code \in {"booked", "lost"}
    BY <2>1
    DEF BookedMeansRow, KeyInv, ApptKnowsKey, HistoryInv, RowsHaveEvents
  <2>2. CASE answer[p].code \notin {"booked", "lost"}
    <3>1. rows[p] = None /\ published[p] = << >>
      BY <2>2 DEF BookedMeansRow, HistoryInv, RowsHaveEvents
    <3>2. KeyOf(p) \in KeyIds
      BY KeyOfType DEF TypeInv
    <3>3. QED
      BY <2>2, <3>1, <3>2 DEF KeyInv, KeyKnowsAppt
  <2>3. QED
    BY <2>1, <2>2
<1>3. QED
  BY <1>1, <1>2, TypeInit, TypeStep, RowInit, RowStep, KeyInit, KeyStep, AskedInit,
     AskedStep, HistoryInit, HistoryStep, BookedInit, BookedStep, PTL
  DEF Spec, AnswersHold

-----------------------------------------------------------------------------
(***************************************************************************)
(* Clocks.  Requests and expiry runs act on a moment they read earlier,    *)
(* never on one to come.                                                   *)
(***************************************************************************)
ClocksRead ==
    /\ \A p \in Procs : seen[p] <= now
    /\ \A e \in Expirers : expiring[e].at <= now

LEMMA ClocksInit == Init => ClocksRead
  BY DEF Init, ClocksRead, NoRun

\* Time does not run backwards.
LEMMA NowGrows == ASSUME TypeInv, [Next]_vars PROVE now' \in Nat /\ now <= now'
<1> USE DEF TypeInv, TypeOK
<1>1. CASE Tick
  BY <1>1 DEF Tick
<1>2. CASE ~ Tick
  <2>1. now' = now
    BY <1>2
    DEF Next, Step, Submit, Look, Refuse, ClaimKey, Allow, LockStaff,
        StillWorking, InsertRefused, InsertAndCommit, Abort, ChangeStep,
        ChangeLock, ChangeDecide, ChangeApply, ChangeGivesUp, ExpireStart, ExpireLock,
        ExpireCommit, ExpireAbort, HoursChange, SetSchedule, AddTimeOff,
        DeleteTimeOff, SetOpeningHours, vars
  <2>2. QED
    BY <2>1
<1>3. QED
  BY <1>1, <1>2

LEMMA ClocksStep == ASSUME TypeInv, ClocksRead, [Next]_vars PROVE ClocksRead'
<1> USE DEF TypeInv, TypeOK
<1>1. now' \in Nat /\ now <= now'
  BY NowGrows
<1>2. ASSUME NEW p \in Procs PROVE seen'[p] = seen[p] \/ seen'[p] = now
  <2>1. CASE Look(p)
    BY <2>1 DEF Look
  <2>2. CASE (Step(p) \/ Abort(p)) /\ ~ Look(p)
    BY <2>2
    DEF Step, Submit, Refuse, ClaimKey, Allow, LockStaff, StillWorking,
        InsertRefused, InsertAndCommit, Abort
  <2>3. QED
    BY <2>1, <2>2, OwnStep, OtherSteps DEF request
<1>3. ASSUME NEW e \in Expirers
      PROVE  expiring'[e].at \in {expiring[e].at, now, 0}
  <2>1. ASSUME NEW f \in Expirers, ExpireStart(f) \/ ExpireAbort(f) PROVE <1>3!2
    <3>1. CASE ExpireStart(f)
      BY <3>1 DEF ExpireStart
    <3>2. CASE ExpireAbort(f)
      BY <3>2 DEF ExpireAbort, NoRun
    <3>3. QED
      BY <2>1, <3>1, <3>2
  <2>2. ASSUME NEW f \in Expirers, ExpireLock(f) PROVE <1>3!2
    BY <2>2 DEF ExpireLock
  <2>3. ASSUME NEW f \in Expirers, ExpireCommit(f) PROVE <1>3!2
    BY <2>3 DEF ExpireCommit, NoRun
  <2>4. ASSUME ~ \E f \in Expirers : \/ ExpireStart(f) \/ ExpireLock(f)
                                     \/ ExpireCommit(f) \/ ExpireAbort(f)
        PROVE  UNCHANGED expiring
    BY <2>4, OwnStep
    DEF Next, ChangeStep, ChangeLock, ChangeDecide, ChangeApply, ChangeGivesUp, HoursChange,
        SetSchedule, AddTimeOff, DeleteTimeOff, SetOpeningHours, Tick, vars
  <2>5. QED
    BY <2>1, <2>2, <2>3, <2>4
<1>4. ASSUME NEW p \in Procs PROVE seen'[p] <= now'
  <2>1. seen[p] \in Nat /\ seen[p] <= now /\ now \in Nat
    BY DEF ClocksRead
  <2> HIDE DEF TypeInv
  <2>2. QED
    BY <1>1, <1>2, <2>1
<1>5. ASSUME NEW e \in Expirers PROVE expiring'[e].at <= now'
  <2>1. expiring[e].at \in Nat /\ expiring[e].at <= now /\ now \in Nat
    BY DEF ClocksRead
  <2> HIDE DEF TypeInv
  <2>2. QED
    BY <1>1, <1>3, <2>1
<1>6. QED
  BY <1>4, <1>5 DEF ClocksRead

\* An action on a pending booking expires it exactly when its time is up.
LEMMA PendingMoves ==
    ASSUME NEW act \in Actions, NEW r \in Row, NEW t \in Nat, Allowed(act, r, t),
           r.status = "pending", r.pendingUntil # NoTime
    PROVE  Target(act) = "expired" <=> t >= r.pendingUntil
<1>1. CASE t >= r.pendingUntil
  <2>1. Current(r, t) = "expired"
    BY <1>1 DEF Current
  <2>2. act = "expire"
    BY <2>1
    DEF Allowed, Confirm, Reject, CancelByCustomer, CancelByStaff, Finish,
        ActiveStatuses
  <2>3. QED
    BY <1>1, <2>2 DEF Target
<1>2. CASE ~ (t >= r.pendingUntil)
  <2>1. act # "expire"
    BY <1>2 DEF Allowed, Expire
  <2>2. QED
    BY <1>2, <2>1 DEF Target, Actions
<1>3. QED
  BY <1>1, <1>2

\* A row that is there is written by a change or by the expiry job.
LEMMA RowMoves ==
    ASSUME TypeInv, RowInv, [Next]_vars, NEW a \in Procs,
           rows[a] # None, rows'[a] # rows[a]
    PROVE  \/ \E c \in Changers : ChangeApply(c)
           \/ \E e \in Expirers : ExpireCommit(e)
<1>1. ASSUME NEW p \in Procs, InsertAndCommit(p) PROVE FALSE
  BY <1>1, CommitFacts
<1>2. QED
  BY <1>1
  DEF Next, Step, Submit, Look, Refuse, ClaimKey, Allow, LockStaff, StillWorking,
      InsertRefused, Abort, ChangeStep, ChangeLock, ChangeDecide, ChangeGivesUp,
      ExpireStart, ExpireLock, ExpireAbort, HoursChange, SetSchedule, AddTimeOff,
      DeleteTimeOff, SetOpeningHours, Tick, vars, ledger

\* Once a booking has lapsed no change is decided about it any more, and none
\* that was decided earlier is left: it stays as it is or expires.
LEMMA LapsedStep ==
    ASSUME TypeInv, TypeInv', RowInv, ClocksRead, [Next]_vars, NEW a \in Procs,
           Lapsed(a)
    PROVE  Lapsed(a)' \/ rows'[a] = After("expire", rows[a])
<1> USE DEF TypeInv
<1>1. /\ rows[a] \in Row /\ rows[a] # None /\ Expire(rows[a], now)
      /\ now \in Nat /\ rows[a].pendingUntil \in Int
  BY DEF TypeOK, Lapsed, Row
<1>2. CASE rows'[a] = rows[a]
  <2>1. rows'[a] # None /\ Expire(rows'[a], now')
    BY <1>1, <1>2, NowGrows DEF Expire
  <2>2. ASSUME NEW c \in Changers, changes'[c].pc = "decided", changes'[c].appt = a
        PROVE  FALSE
    <3>1. changes'[c] # changes[c]
      BY <2>2 DEF Lapsed
    <3>2. ChangeDecide(c)
      <4>1. \E d \in Changers : ChangeStep(d)
        BY <3>1, OwnStep
        DEF Next, ExpireStart, ExpireLock, ExpireCommit, ExpireAbort,
            HoursChange, SetSchedule, AddTimeOff, DeleteTimeOff,
            SetOpeningHours, Tick, vars
      <4>2. ChangeStep(c)
        <5>1. PICK d \in Changers : ChangeStep(d)
          BY <4>1
        <5>2. changes' = [changes EXCEPT ![d] = changes'[d]]
          BY <5>1
          DEF ChangeStep, ChangeLock, ChangeDecide, ChangeApply, ChangeGivesUp,
              TypeOK
        <5>3. c = d
          BY <3>1, <5>2 DEF TypeOK
        <5>4. QED
          BY <5>1, <5>3
      <4>3. QED
        BY <2>2, <4>2
        DEF ChangeStep, ChangeLock, ChangeApply, ChangeGivesUp, Change, TypeOK
    <3>3. /\ changes[c].act \in Actions \ {"expire"} /\ changes[c].row = rows[a]
          /\ Allowed(changes[c].act, rows[a], now)
      BY <2>2, <3>2
      DEF ChangeDecide, ChangeAllowed, RowInv, LockedRowIsCurrent, ChangeShape,
          Holding, TypeOK
    <3>4. Target(changes[c].act) = "expired"
      BY <1>1, <3>3, PendingMoves DEF Expire
    <3>5. QED
      BY <3>3, <3>4 DEF Target, Actions
  <2>3. QED
    BY <2>1, <2>2 DEF Lapsed
<1>3. ASSUME rows'[a] # rows[a] PROVE rows'[a] = After("expire", rows[a])
  <2>1. ASSUME NEW c \in Changers, ChangeApply(c) PROVE FALSE
    <3>1. changes[c].pc = "decided" /\ changes[c].appt # a
      BY <2>1 DEF ChangeApply, Lapsed
    <3>2. rows'[a] = rows[a]
      BY <2>1, <3>1 DEF ChangeApply, TypeOK
    <3>3. QED
      BY <1>3, <3>2
  <2>2. \E e \in Expirers : ExpireCommit(e)
    BY <1>1, <1>3, <2>1, RowMoves
  <2>3. QED
    BY <1>3, <2>2 DEF ExpireCommit
<1>4. QED
  BY <1>2, <1>3

\* What expires was due, at the moment the job read the clock and so now.
LEMMA ExpiresWhenDue ==
    ASSUME TypeInv, RowInv, ClocksRead, [Next]_vars, NEW a \in Procs,
           rows[a] # None, rows'[a] # rows[a], rows'[a].status = "expired"
    PROVE  Expire(rows[a], now)
<1> USE DEF TypeInv
<1>1. rows[a] \in Row
  BY DEF TypeOK
<1>2. ASSUME NEW c \in Changers, ChangeApply(c) PROVE FALSE
  <2> DEFINE x == changes[c]
  <2>1. /\ x.act \in Actions \ {"expire"} /\ x.appt \in Procs
        /\ x.row = rows[x.appt]
    BY <1>2 DEF ChangeApply, ChangeShape, RowInv, LockedRowIsCurrent, Holding
  <2>2. a = x.appt /\ rows'[a] = After(x.act, rows[a])
    BY <1>2, <2>1 DEF ChangeApply, TypeOK
  <2>3. rows'[a].status = Target(x.act)
    BY <1>1, <2>1, <2>2, AfterFacts
  <2>4. QED
    BY <2>1, <2>3 DEF Target, Actions
<1>3. PICK e \in Expirers : ExpireCommit(e)
  BY <1>2, RowMoves
<1>4. a \in expiring[e].batch /\ Expire(rows[a], expiring[e].at)
  BY <1>3 DEF ExpireCommit, BatchExpires
<1>5. /\ expiring[e].at \in Nat /\ now \in Nat /\ rows[a].pendingUntil \in Int
      /\ expiring[e].at <= now
  BY <1>1 DEF TypeOK, Row, ClocksRead
<1>6. QED
  BY <1>4, <1>5 DEF Expire

\* Once a pending booking has lapsed - its expiry passed while nobody held a
\* decision about it - its only future is to expire, and nothing expires a moment
\* too soon: changes read the clock under the row's lock (manage.go), so the one
\* answer that can come late is one decided in time.
THEOREM ExpiredStaysExpired == Spec => ExpiryIsFinal
<1>1. TypeInv /\ TypeInv' /\ RowInv /\ ClocksRead /\ [Next]_vars =>
        [\A a \in Procs :
            /\ Lapsed(a) => Lapsed(a)' \/ rows'[a] = After("expire", rows[a])
            /\ rows[a] # None /\ rows'[a] # rows[a] /\ rows'[a].status = "expired"
                  => Expire(rows[a], now)]_vars
  BY LapsedStep, ExpiresWhenDue
<1>2. QED
  BY <1>1, TypeInit, TypeStep, RowInit, RowStep, ClocksInit, ClocksStep, PTL
  DEF Spec, ExpiryIsFinal

-----------------------------------------------------------------------------
(***************************************************************************)
(* The limit on a customer's bookings.  Whoever was found within the limit *)
(* holds the customer's lock until the commit, so the count they saw can   *)
(* only have shrunk; it was taken at an earlier moment, when no fewer of   *)
(* the bookings were still to come.                                        *)
(***************************************************************************)
Seating(p) == pc[p] \in {"allowed", "locked", "working"} /\ IsCustomer(p)

CustomerAlone ==
    \A p, q \in Procs :
        /\ Seating(p) /\ Seating(q)
        /\ cmd[p].requester = cmd[q].requester
        /\ cmd[p].branch = cmd[q].branch
        => p = q

RoomLeft ==
    \A p \in Procs : Seating(p) =>
        CountActive(cmd[p].requester, cmd[p].branch, seen[p])
            < Policy[cmd[p].branch].maxActive

LimitInv == CustomerAlone /\ RoomLeft /\ LimitRespected

\* What CountActive counts, in any state R of the table.
Upcoming(R, u, br, t) ==
    {a \in Procs : /\ R[a] # None
                   /\ R[a].customer = u
                   /\ R[a].branch = br
                   /\ IsActive(R[a])
                   /\ R[a].start > t}

\* There are finitely many of them, and no more in a part.
LEMMA UpcomingCount ==
    ASSUME NEW R, NEW u, NEW br, NEW t
    PROVE  /\ IsFiniteSet(Upcoming(R, u, br, t))
           /\ Cardinality(Upcoming(R, u, br, t)) \in Nat
           /\ \A S \in SUBSET Upcoming(R, u, br, t) :
                 /\ Cardinality(S) \in Nat
                 /\ Cardinality(S) <= Cardinality(Upcoming(R, u, br, t))
<1>1. Upcoming(R, u, br, t) \subseteq Procs
  BY DEF Upcoming
<1>2. IsFiniteSet(Upcoming(R, u, br, t))
  BY <1>1, SizesAssumption, FS_Subset
<1>3. QED
  BY <1>2, FS_CardinalityType, FS_Subset

\* The limits, in any state of the table and the requests.
Within(R, t) ==
    \A u \in Users, br \in Branches :
        Cardinality(Upcoming(R, u, br, t)) <= Policy[br].maxActive

Room(R, p, t) ==
    Cardinality(Upcoming(R, cmd[p].requester, cmd[p].branch, t))
        < Policy[cmd[p].branch].maxActive

LEMMA LimitMeans ==
    /\ LimitRespected <=> Within(rows, now)
    /\ LimitRespected' <=> Within(rows', now')
    /\ RoomLeft <=> \A p \in Procs : Seating(p) => Room(rows, p, seen[p])
    /\ cmd' = cmd =>
          (RoomLeft' <=> \A p \in Procs : Seating(p)' => Room(rows', p, seen'[p]))
  BY DEF LimitRespected, RoomLeft, CountActive, Within, Room, Upcoming

LEMMA MaxActiveType ==
    ASSUME TypeOK
    PROVE  /\ \A br \in Branches : Policy[br].maxActive \in Nat
           /\ \A p \in Procs : cmd[p].branch \in Branches /\ cmd[p].requester \in Users
  BY CatalogAssumption DEF TypeOK, Command

LEMMA LimitInit == Init => LimitInv
<1> SUFFICES ASSUME Init PROVE LimitInv
  OBVIOUS
<1>1. TypeOK
  BY TypeInit DEF TypeInv
<1>2. \A u, br, t : Upcoming(rows, u, br, t) = {}
  BY DEF Init, Upcoming
<1>3. Within(rows, now)
  <2> SUFFICES ASSUME NEW u \in Users, NEW br \in Branches
               PROVE  Cardinality(Upcoming(rows, u, br, now)) <= Policy[br].maxActive
    BY DEF Within
  <2>1. Upcoming(rows, u, br, now) = {}
    BY <1>2
  <2>2. Cardinality({}) = 0
    BY FS_EmptySet
  <2>3. Policy[br].maxActive \in Nat
    BY <1>1, MaxActiveType
  <2>4. QED
    BY <2>1, <2>2, <2>3
<1>4. \A p \in Procs : ~ Seating(p)
  BY DEF Init, Seating
<1>5. QED
  BY <1>3, <1>4, LimitMeans DEF LimitInv, CustomerAlone

\* Moves count nothing new.
LEMMA MovesKeepCount ==
    ASSUME TypeInv, \A a \in Procs : rows'[a] = rows[a] \/ Moved(a),
           NEW u, NEW br, NEW t \in Nat, NEW s \in Nat, t <= s
    PROVE  Cardinality(Upcoming(rows', u, br, s)) <= Cardinality(Upcoming(rows, u, br, t))
<1>1. ASSUME NEW a \in Upcoming(rows', u, br, s) PROVE a \in Upcoming(rows, u, br, t)
  <2>1. CASE rows'[a] = rows[a]
    <3>1. rows[a] \in Row
      BY <1>1, <2>1 DEF Upcoming, TypeInv, TypeOK
    <3>2. rows[a].start \in Nat
      BY <3>1 DEF Row
    <3>3. QED
      BY <1>1, <2>1, <3>2 DEF Upcoming
  <2>2. CASE Moved(a)
    <3>1. a \in Procs
      BY <1>1 DEF Upcoming
    <3>2. /\ rows[a] # None /\ rows[a] \in Row
          /\ IsActive(rows[a])
          /\ rows'[a].branch = rows[a].branch /\ rows'[a].start = rows[a].start
      BY <2>2, <3>1, MoveFacts DEF Moved
    <3>3. rows'[a].customer = rows[a].customer
      BY <2>2, <3>2 DEF Moved, After, Row
    <3>4. rows[a].start \in Nat
      BY <3>2 DEF Row
    <3>5. QED
      BY <1>1, <3>2, <3>3, <3>4 DEF Upcoming
  <2>3. QED
    BY <1>1, <2>1, <2>2 DEF Upcoming
<1>2. QED
  BY <1>1, UpcomingCount

\* Only Allow lets a customer's request in, with the lock free and room left.
LEMMA SeatingSteps ==
    ASSUME TypeInv, NEW p \in Procs, Step(p) \/ Abort(p), Seating(p)'
    PROVE  /\ seen'[p] = seen[p]
           /\ \/ Seating(p)
              \/ /\ ~ CustomerLocked(cmd[p].requester, cmd[p].branch)
                 /\ Room(rows, p, seen[p])
<1> USE DEF TypeInv
<1>1. IsCustomer(p)
  BY OwnStep DEF Seating, IsCustomer
<1>2. CASE Allow(p)
  <2>1. ~ (CountActive(cmd[p].requester, cmd[p].branch, seen[p])
              >= Policy[cmd[p].branch].maxActive)
    BY <1>2 DEF Allow, Answer, Seating, TypeOK
  <2>2. /\ Policy[cmd[p].branch].maxActive \in Nat
        /\ Cardinality(Upcoming(rows, cmd[p].requester, cmd[p].branch, seen[p])) \in Nat
    BY MaxActiveType, UpcomingCount
  <2>3. Room(rows, p, seen[p])
    BY <2>1, <2>2 DEF Room, CountActive, Upcoming
  <2>4. QED
    BY <1>2, <2>3 DEF Allow
<1>3. CASE ~ Allow(p)
  <2>1. pc'[p] \in {"allowed", "locked", "working"} => /\ seen'[p] = seen[p]
                                                     /\ pc[p] \in {"allowed", "locked", "working"}
    BY <1>1, <1>3
    DEF Step, Submit, Look, Refuse, ClaimKey, LockStaff, StillWorking, NextDraft,
        InsertRefused, InsertAndCommit, Abort, Answer, TypeOK
  <2>2. QED
    BY <1>1, <2>1 DEF Seating
<1>4. QED
  BY <1>2, <1>3

LEMMA AloneStep == ASSUME TypeInv, CustomerAlone, [Next]_vars PROVE CustomerAlone'
<1> USE DEF TypeInv
<1>1. UNCHANGED cmd
  BY OwnStep, OtherSteps DEF request
<1>2. ASSUME NEW p \in Procs, Step(p) \/ Abort(p) PROVE CustomerAlone'
  <2>1. \A q \in Procs \ {p} : Seating(q)' <=> Seating(q)
    BY <1>1, <1>2, OwnStep DEF Seating, IsCustomer
  <2>2. Seating(p)' => \/ Seating(p)
                       \/ ~ CustomerLocked(cmd[p].requester, cmd[p].branch)
    BY <1>2, SeatingSteps
  <2>3. ASSUME NEW q \in Procs \ {p}, Seating(q), Seating(p)',
               cmd[p].requester = cmd[q].requester, cmd[p].branch = cmd[q].branch
        PROVE  FALSE
    <3>1. CustomerLocked(cmd[p].requester, cmd[p].branch)
      BY <2>3 DEF CustomerLocked, Seating
    <3>2. QED
      BY <2>2, <2>3, <3>1 DEF CustomerAlone
  <2>4. QED
    BY <1>1, <2>1, <2>3 DEF CustomerAlone
<1>3. CASE UNCHANGED request
  BY <1>3 DEF CustomerAlone, Seating, IsCustomer, request
<1>4. QED
  BY <1>2, <1>3, OtherSteps

\* Whose booking a commit enters, and how it changes the counts.
LEMMA CommitCounts ==
    ASSUME TypeInv, RowInv, NEW p \in Procs, InsertAndCommit(p),
           NEW u \in Users, NEW br \in Branches, NEW t \in Nat
    PROVE  /\ Upcoming(rows', u, br, t) \subseteq Upcoming(rows, u, br, t) \cup {p}
           /\ ~ (IsCustomer(p) /\ cmd[p].requester = u /\ cmd[p].branch = br)
                 => Upcoming(rows', u, br, t) \subseteq Upcoming(rows, u, br, t)
<1> USE DEF TypeInv
<1> DEFINE d == Draft(p, Head(drafts[p]))
<1>1. rows' = [rows EXCEPT ![p] = d]
  BY CommitFacts
<1>2. /\ d.branch = cmd[p].branch
      /\ d.customer = IF IsCustomer(p) THEN cmd[p].requester ELSE WalkIn
  BY DEF Draft, Book
<1> HIDE DEF d
<1>3. rows'[p] = d /\ \A a \in Procs \ {p} : rows'[a] = rows[a]
  BY <1>1 DEF TypeOK
<1>4. QED
  BY <1>2, <1>3, NoneAssumption DEF Upcoming

LEMMA LimitStep ==
    ASSUME TypeInv, TypeInv', RowInv, ClocksRead, ClocksRead', LimitInv, [Next]_vars
    PROVE  LimitInv'
<1> USE DEF TypeInv
<1>1. UNCHANGED cmd
  BY OwnStep, OtherSteps DEF request
<1>2. now \in Nat /\ now' \in Nat /\ \A p \in Procs : seen[p] \in Nat /\ seen[p] <= now
  BY DEF TypeOK, ClocksRead
<1>3. ASSUME NEW p \in Procs, InsertAndCommit(p) PROVE Within(rows', now') /\ RoomLeft'
  <2>1. /\ now' = now /\ Step(p) /\ seen' = seen /\ pc[p] = "working"
        /\ pc'[p] = "done"
    <3>1. now' = now /\ Step(p) /\ seen' = seen /\ pc[p] = "working"
      BY <1>3 DEF InsertAndCommit, Step
    <3>2. pc' = [pc EXCEPT ![p] = "done"]
      BY <1>3 DEF InsertAndCommit, Answer
    <3>3. DOMAIN pc = Procs
      BY DEF TypeOK
    <3>4. QED
      BY <3>1, <3>2, <3>3
  <2>2. \A q \in Procs : Seating(q)' => q # p /\ Seating(q)
    BY <1>1, <2>1, OwnStep DEF Seating, IsCustomer
  <2>3. ASSUME NEW u \in Users, NEW br \in Branches
        PROVE  Cardinality(Upcoming(rows', u, br, now)) <= Policy[br].maxActive
    <3>1. Cardinality(Upcoming(rows, u, br, now)) <= Policy[br].maxActive
      BY LimitMeans DEF LimitInv, Within
    <3>2. Policy[br].maxActive \in Nat
      BY MaxActiveType
    <3>3. CASE IsCustomer(p) /\ cmd[p].requester = u /\ cmd[p].branch = br
      <4>1. Cardinality(Upcoming(rows, u, br, seen[p])) < Policy[br].maxActive
        BY <2>1, <3>3, LimitMeans DEF LimitInv, Seating, Room
      <4>2. Upcoming(rows, u, br, now) \subseteq Upcoming(rows, u, br, seen[p])
        <5>1. \A a \in Procs : rows[a] # None => rows[a].start \in Nat
          BY DEF TypeOK, Row
        <5>2. QED
          BY <1>2, <5>1 DEF Upcoming
      <4>3. Cardinality(Upcoming(rows, u, br, now))
               <= Cardinality(Upcoming(rows, u, br, seen[p]))
        BY <4>2, UpcomingCount
      <4>4. IsFiniteSet(Upcoming(rows, u, br, now))
        BY UpcomingCount
      <4>5. /\ IsFiniteSet(Upcoming(rows, u, br, now) \cup {p})
            /\ Cardinality(Upcoming(rows, u, br, now) \cup {p})
                  <= Cardinality(Upcoming(rows, u, br, now)) + 1
        BY <4>4, UpcomingCount, FS_AddElement
      <4>6. Upcoming(rows', u, br, now) \subseteq Upcoming(rows, u, br, now) \cup {p}
        BY <1>2, <1>3, CommitCounts
      <4>7. Cardinality(Upcoming(rows', u, br, now))
               <= Cardinality(Upcoming(rows, u, br, now) \cup {p})
        BY <4>5, <4>6, FS_Subset
      <4>8. /\ Cardinality(Upcoming(rows', u, br, now)) \in Nat
            /\ Cardinality(Upcoming(rows, u, br, now)) \in Nat
            /\ Cardinality(Upcoming(rows, u, br, seen[p])) \in Nat
            /\ Cardinality(Upcoming(rows, u, br, now) \cup {p}) \in Nat
        BY <4>5, UpcomingCount, FS_CardinalityType
      <4>9. QED
        BY <3>2, <4>1, <4>3, <4>5, <4>7, <4>8
    <3>4. CASE ~ (IsCustomer(p) /\ cmd[p].requester = u /\ cmd[p].branch = br)
      <4>1. Upcoming(rows', u, br, now) \subseteq Upcoming(rows, u, br, now)
        BY <1>2, <1>3, <3>4, CommitCounts
      <4>2. /\ Cardinality(Upcoming(rows', u, br, now)) \in Nat
            /\ Cardinality(Upcoming(rows, u, br, now)) \in Nat
            /\ Cardinality(Upcoming(rows', u, br, now))
                  <= Cardinality(Upcoming(rows, u, br, now))
        BY <4>1, UpcomingCount
      <4>3. QED
        BY <3>1, <3>2, <4>2
    <3>5. QED
      BY <3>3, <3>4
  <2>4. ASSUME NEW q \in Procs, Seating(q)' PROVE Room(rows', q, seen'[q])
    <3>1. q # p /\ Seating(q)
      BY <2>2, <2>4
    <3>2. cmd[q].requester \in Users /\ cmd[q].branch \in Branches
      BY MaxActiveType
    <3>3. ~ (/\ IsCustomer(p) /\ cmd[p].requester = cmd[q].requester
             /\ cmd[p].branch = cmd[q].branch)
      BY <2>1, <3>1 DEF LimitInv, CustomerAlone, Seating
    <3>4. Upcoming(rows', cmd[q].requester, cmd[q].branch, seen[q])
             \subseteq Upcoming(rows, cmd[q].requester, cmd[q].branch, seen[q])
      BY <1>2, <1>3, <3>2, <3>3, CommitCounts
    <3>5. Room(rows, q, seen[q])
      BY <3>1, LimitMeans DEF LimitInv
    <3>6. Policy[cmd[q].branch].maxActive \in Nat
      BY MaxActiveType
    <3> DEFINE n == Cardinality(Upcoming(rows, cmd[q].requester, cmd[q].branch, seen[q]))
    <3> DEFINE m == Cardinality(Upcoming(rows', cmd[q].requester, cmd[q].branch, seen[q]))
    <3>7. m \in Nat /\ n \in Nat /\ m <= n
      BY <3>4, UpcomingCount
    <3>8. n < Policy[cmd[q].branch].maxActive
      BY <3>5 DEF Room
    <3> HIDE DEF m, n
    <3>9. m < Policy[cmd[q].branch].maxActive
      BY <3>6, <3>7, <3>8
    <3>10. QED
      BY <2>1, <3>9 DEF Room, m
  <2>5. QED
    BY <1>1, <2>1, <2>3, <2>4, LimitMeans DEF Within
<1>4. ASSUME \A a \in Procs : rows'[a] = rows[a] \/ Moved(a)
      PROVE  Within(rows', now')
  <2>1. now <= now'
    BY NowGrows
  <2>2. ASSUME NEW u \in Users, NEW br \in Branches
        PROVE  Cardinality(Upcoming(rows', u, br, now')) <= Policy[br].maxActive
    <3>1. Cardinality(Upcoming(rows, u, br, now)) <= Policy[br].maxActive
      BY LimitMeans DEF LimitInv, Within
    <3>2. Cardinality(Upcoming(rows', u, br, now')) <= Cardinality(Upcoming(rows, u, br, now))
      BY <1>2, <1>4, <2>1, MovesKeepCount
    <3>3. /\ Cardinality(Upcoming(rows', u, br, now')) \in Nat
          /\ Cardinality(Upcoming(rows, u, br, now)) \in Nat
          /\ Policy[br].maxActive \in Nat
      BY UpcomingCount, MaxActiveType
    <3>4. QED
      BY <3>1, <3>2, <3>3
  <2>3. QED
    BY <2>2 DEF Within
<1>5. ASSUME \A a \in Procs : rows'[a] = rows[a] \/ Moved(a),
             NEW p \in Procs, seen'[p] = seen[p], Room(rows, p, seen[p])
      PROVE  Room(rows', p, seen'[p])
  <2> DEFINE n == Cardinality(Upcoming(rows, cmd[p].requester, cmd[p].branch, seen[p]))
  <2> DEFINE m == Cardinality(Upcoming(rows', cmd[p].requester, cmd[p].branch, seen[p]))
  <2>1. m <= n
    BY <1>2, <1>5, MovesKeepCount
  <2>2. m \in Nat /\ n \in Nat /\ Policy[cmd[p].branch].maxActive \in Nat
    BY UpcomingCount, MaxActiveType
  <2>3. n < Policy[cmd[p].branch].maxActive
    BY <1>5 DEF Room
  <2> HIDE DEF m, n
  <2>4. m < Policy[cmd[p].branch].maxActive
    BY <2>1, <2>2, <2>3
  <2>5. QED
    BY <1>5, <2>4 DEF Room, m
<1>6. ASSUME \A a \in Procs : rows'[a] = rows[a] \/ Moved(a)
      PROVE  RoomLeft'
  <2>1. ASSUME NEW q \in Procs, Seating(q)'
        PROVE  seen'[q] = seen[q] /\ Room(rows, q, seen[q])
    <3>1. CASE Step(q) \/ Abort(q)
      BY <2>1, <3>1, SeatingSteps, LimitMeans DEF LimitInv
    <3>2. CASE ~ (Step(q) \/ Abort(q))
      <4>1. seen'[q] = seen[q] /\ pc'[q] = pc[q]
        BY <3>2, OwnStep, OtherSteps DEF request
      <4>2. Seating(q)
        BY <1>1, <2>1, <4>1 DEF Seating, IsCustomer
      <4>3. QED
        BY <4>1, <4>2, LimitMeans DEF LimitInv
    <3>3. QED
      BY <3>1, <3>2
  <2>2. QED
    BY <1>1, <1>5, <1>6, <2>1, LimitMeans
<1>7. Within(rows', now') /\ RoomLeft'
  BY <1>3, <1>4, <1>6, RowSteps
<1>8. QED
  BY <1>7, AloneStep, LimitMeans DEF LimitInv

\* CountActive under the customer's lock keeps the limit: no number of concurrent
\* bookings by one customer takes them above the branch's maximum.
THEOREM LimitIsKept == Spec => []LimitRespected
<1>1. LimitInv => LimitRespected
  BY DEF LimitInv
<1>2. QED
  BY <1>1, TypeInit, TypeStep, RowInit, RowStep, ClocksInit, ClocksStep,
     LimitInit, LimitStep, PTL DEF Spec
=============================================================================
