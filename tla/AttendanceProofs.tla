-------------------------- MODULE AttendanceProofs --------------------------
(***************************************************************************)
(* The leave of an employee and the attendance of a student, for any       *)
(* number of days, applications and requests: what the attendance says of  *)
(* an approved leave and of a card, what an assignment says of the         *)
(* approved applications, and the audit log of a row.                      *)
(***************************************************************************)
EXTENDS StudentAttendance, FiniteSums

(***************************************************************************)
(* The employee.                                                           *)
(***************************************************************************)
\* A handler holds the application it has read, whole until it writes the attendance, and a
\* new one has an id of its own.
HandlerInv(r) ==
    LET l == local[r]
    IN  /\ pc[r] = "assign" => l.row \in Assignments
        /\ pc[r] = "apply" =>
              /\ l.app \in Applications \ DOMAIN application /\ l.days \in Ranges
              /\ \A q \in Requests : pc[q] = "apply" /\ local[q].app = l.app => q = r
        /\ pc[r] \in {"store", "update", "count"} =>
              /\ l.app \in DOMAIN application /\ application[l.app].kind = "employee"
              /\ l.days = application[l.app].days
              /\ l.to \in {"APPROVED", "REJECTED", "CANCELLED"}
        /\ pc[r] = "count" => l.to = "APPROVED"
        /\ pc[r] = "sync" =>
              /\ l.app \in DOMAIN application
              /\ l.days # {} /\ l.days \subseteq application[l.app].days
              /\ l.to # "APPROVED" => l.app \in rejected
        /\ pc[r] = "tap" => l.days # {}

\* A day of an approved leave is on record, or its handler is on its way to it.
OnRecordInv ==
    /\ rejected \subseteq DOMAIN application
    /\ \A a \in DOMAIN application : application[a].status = "APPROVED" =>
          \A d \in application[a].days :
             \/ d \in DOMAIN attendance
                  /\ (attendance[d].status = "LEAVE" \/ attendance[d].by = "staff")
             \/ a \in cut
             \/ \E r \in Requests : /\ pc[r] \in {"count", "sync"} /\ local[r].app = a
                                    /\ local[r].to = "APPROVED" /\ d \in local[r].days
             \/ \E b \in rejected : d \in application[b].days

\* The days an application or a handler may yet add to used_days.
Counting == {local[r].app : r \in {q \in Requests : pc[q] = "count"}}
Claims ==
    {a \in DOMAIN application : application[a].kind = "employee"
        /\ (application[a].status = "PENDING" \/ a \in Counting)}
Applying == {r \in Requests : pc[r] = "apply"}
Fits(days) ==
    /\ Cardinality(days) <= type.count
    /\ \A x \in Live : assigned[x].used + Cardinality(days) <= type.count

\* One handler counts an application, which is approved and counted in no assignment.
CountInv ==
    /\ DOMAIN counted = DOMAIN assigned
    /\ \A x \in DOMAIN assigned : \A a \in counted[x] :
          a \in DOMAIN application /\ application[a].status # "PENDING"
    /\ overtaken = {} =>
          \A r \in Requests : pc[r] = "count" =>
                /\ application[local[r].app].status = "APPROVED"
                /\ \A x \in DOMAIN assigned : local[r].app \notin counted[x]
                /\ \A q \in Requests : pc[q] = "count" /\ local[q].app = local[r].app => q = r

\* One application at a time claims days, and they fit.
BalanceInv ==
    ~loose /\ overtaken = {} =>
        /\ \A x \in Live : assigned[x].used <= type.count
        /\ \A x, y \in Live : x = y
        /\ \A r \in Applying : Fits(local[r].days) /\ Claims = {}
        /\ \A a \in Claims : Fits(application[a].days)
        /\ \A a, b \in Claims : a = b
        /\ \A q, r \in Applying : q = r

\* An application adds its days once its handler has counted them.
Lengths == [a \in DOMAIN application |-> Cardinality(application[a].days)]
Added(x) == (Approved("employee") \ counted[x]) \ Counting
UsedInv ==
    overtaken \cup cut = {} =>
        \A x \in DOMAIN assigned : assigned[x].used = SumOver(Lengths, Added(x))

StaffInv ==
    /\ TypeOK /\ \A r \in Requests : HandlerInv(r)
    /\ OnRecordInv /\ CountInv /\ BalanceInv /\ UsedInv

-----------------------------------------------------------------------------
(* Tables and steps.                                                       *)

LEMMA Upserted ==
    ASSUME NEW a, NEW k, NEW v
    PROVE  /\ DOMAIN Upsert(a, k, v) = DOMAIN a \cup {k} /\ Upsert(a, k, v)[k] = v
           /\ \A j \in DOMAIN a \ {k} : Upsert(a, k, v)[j] = a[j]
    BY DEF Upsert

LEMMA UpsertTable ==
    ASSUME NEW S, NEW T, NEW a, IsTable(a, S, T), NEW k \in S, NEW v \in T
    PROVE  IsTable(Upsert(a, k, v), S, T)
    BY DEF IsTable, Upsert

LEMMA EmptyTable == ASSUME NEW S, NEW T PROVE IsTable(<< >>, S, T) /\ DOMAIN << >> = {}
    BY DEF IsTable

\* A range is a finite set of integers, and one that is not empty has a first day.
LEMMA RangeFinite ==
    ASSUME NEW days \in SUBSET Days
    PROVE  /\ IsFiniteSet(days) /\ Cardinality(days) \in Nat
           /\ days # {} => Min(days) \in days
<1>1. IsFiniteSet(days) /\ \A d \in days : d \in Int
    BY LeaveAssumption, FS_Subset
<1> QED
    BY <1>1, FS_CardinalityType, MinExists

LEMMA RangesDays == \A days \in Ranges : days \in SUBSET Days /\ days # {}
    BY DEF Ranges

LEMMA NothingTyped ==
    /\ Nothing \in Local /\ Nothing.app = None /\ None \notin Applications
    /\ Nothing.row = None /\ None \notin Assignments /\ Nothing.days = {}
    BY LeaveAssumption DEF Nothing, Local, Status

\* What Goto and Finish write.
LEMMA Gone ==
    ASSUME TypeOK, NEW r \in Requests, NEW s \in Steps, NEW l \in Local, Goto(r, s, l)
    PROVE  /\ pc' \in [Requests -> Steps] /\ local' \in [Requests -> Local]
           /\ pc'[r] = s /\ local'[r] = l
           /\ \A q \in Requests \ {r} : pc'[q] = pc[q] /\ local'[q] = local[q]
    BY DEF Goto, TypeOK

LEMMA Finished ==
    ASSUME TypeOK, NEW r \in Requests, Finish(r)
    PROVE  /\ pc' \in [Requests -> Steps] /\ local' \in [Requests -> Local]
           /\ pc'[r] = "idle" /\ local'[r] = Nothing
           /\ \A q \in Requests \ {r} : pc'[q] = pc[q] /\ local'[q] = local[q]
<1>1. "idle" \in Steps
    BY DEF Steps
<1> QED
    BY <1>1, NothingTyped, Gone DEF Finish

\* Parts of the invariant that a step keeps when it does not come near them.
LEMMA HandlersKeep ==
    ASSUME TypeOK, \A q \in Requests : HandlerInv(q), NEW r \in Requests,
           \A q \in Requests \ {r} : pc'[q] = pc[q] /\ local'[q] = local[q],
           DOMAIN application \subseteq DOMAIN application', rejected \subseteq rejected',
           \A a \in DOMAIN application : /\ application'[a].kind = application[a].kind
                                         /\ application'[a].days = application[a].days,
           \A q \in Requests \ {r} : pc[q] = "apply" =>
               /\ local[q].app \notin DOMAIN application'
               /\ pc'[r] = "apply" => local'[r].app # local[q].app,
           HandlerInv(r)'
    PROVE  \A q \in Requests : HandlerInv(q)'
<1> SUFFICES ASSUME NEW q \in Requests, q # r PROVE HandlerInv(q)'
    OBVIOUS
<1>1. HandlerInv(q) /\ pc'[q] = pc[q] /\ local'[q] = local[q]
    OBVIOUS
<1>2. pc[q] = "apply" =>
          \A z \in Requests : pc'[z] = "apply" /\ local'[z].app = local[q].app => z = q
    BY <1>1 DEF HandlerInv
<1> QED
    BY <1>1, <1>2 DEF HandlerInv

\* Who covers a day of an approved leave: a handler on its way to write it.
Covers(r, a, d) ==
    /\ pc[r] \in {"count", "sync"} /\ local[r].app = a
    /\ local[r].to = "APPROVED" /\ d \in local[r].days
Shown(d) ==
    /\ d \in DOMAIN attendance
    /\ attendance[d].status = "LEAVE" \/ attendance[d].by = "staff"

LEMMA RecordKeeps ==
    ASSUME OnRecordInv, NEW r \in Requests,
           \A q \in Requests \ {r} : pc'[q] = pc[q] /\ local'[q] = local[q],
           DOMAIN application \subseteq DOMAIN application',
           \A a \in DOMAIN application : application'[a].days = application[a].days,
           cut \subseteq cut', rejected \subseteq rejected',
           rejected' \subseteq DOMAIN application',
           \A a \in DOMAIN application' : application'[a].status = "APPROVED" =>
               \/ a \in DOMAIN application /\ application[a].status = "APPROVED"
               \/ \A d \in application'[a].days : Covers(r, a, d)',
           \A d \in Days : Shown(d) => Shown(d)' \/ \E b \in rejected' : d \in application'[b].days,
           \A a \in DOMAIN application : \A d \in Days :
               Covers(r, a, d) => Covers(r, a, d)' \/ a \in cut' \/ Shown(d)',
           \A a \in DOMAIN application : application[a].days \subseteq Days
    PROVE  OnRecordInv'
<1> SUFFICES ASSUME NEW a \in DOMAIN application', application'[a].status = "APPROVED",
                    NEW d \in application'[a].days
             PROVE  \/ Shown(d)' \/ a \in cut' \/ \E q \in Requests : Covers(q, a, d)'
                    \/ \E b \in rejected' : d \in application'[b].days
    BY DEF OnRecordInv, Shown, Covers
<1>1. CASE \A e \in application'[a].days : Covers(r, a, e)'
    BY <1>1
<1>2. CASE a \in DOMAIN application /\ application[a].status = "APPROVED"
    <2>1. d \in application[a].days /\ d \in Days
        BY <1>2
    <2>2. \/ Shown(d) \/ a \in cut \/ \E q \in Requests : Covers(q, a, d)
          \/ \E b \in rejected : d \in application[b].days
        BY <1>2, <2>1 DEF OnRecordInv, Shown, Covers
    <2>3. ASSUME NEW q \in Requests, q # r, Covers(q, a, d) PROVE Covers(q, a, d)'
        <3>1. pc'[q] = pc[q] /\ local'[q] = local[q]
            BY <2>3
        <3> QED
            BY <2>3, <3>1 DEF Covers
    <2>4. ASSUME NEW b \in rejected, d \in application[b].days
          PROVE  b \in rejected' /\ d \in application'[b].days
        BY <2>4 DEF OnRecordInv
    <2> QED
        BY <1>2, <2>1, <2>2, <2>3, <2>4
<1> QED
    BY <1>1, <1>2

\* What the tables and the handlers hold, read off the invariant.
LEMMA Tables ==
    ASSUME TypeOK
    PROVE  /\ DOMAIN application \subseteq Applications /\ IsFiniteSet(DOMAIN application)
           /\ \A a \in DOMAIN application :
                 /\ application[a] \in Application /\ application[a].days \in Ranges
                 /\ application[a].days \subseteq Days
                 /\ Cardinality(application[a].days) \in Nat
           /\ \A x \in DOMAIN assigned : assigned[x].used \in Nat
           /\ Live \subseteq DOMAIN assigned /\ type.count \in Nat
<1>1. DOMAIN application \subseteq Applications
    BY DEF TypeOK, IsTable
<1>2. IsFiniteSet(DOMAIN application)
    BY <1>1, LeaveAssumption, FS_Subset
<1>3. ASSUME NEW a \in DOMAIN application
      PROVE  /\ application[a] \in Application /\ application[a].days \in Ranges
             /\ application[a].days \subseteq Days /\ Cardinality(application[a].days) \in Nat
    <2>1. application[a] \in Application
        BY DEF TypeOK, IsTable
    <2>2. application[a].days \in Ranges
        BY <2>1 DEF Application
    <2> QED
        BY <2>1, <2>2, RangesDays, RangeFinite
<1>4. /\ \A x \in DOMAIN assigned : assigned[x].used \in Nat
      /\ Live \subseteq DOMAIN assigned /\ type.count \in Nat
    BY DEF TypeOK, IsTable, Assigned, Live
<1> QED
    BY <1>1, <1>2, <1>3, <1>4

LEMMA AddedFinite ==
    ASSUME TypeOK, NEW x
    PROVE  /\ IsFiniteSet(Added(x)) /\ Added(x) \subseteq DOMAIN application
           /\ \A a \in Added(x) :
                 Lengths[a] = Cardinality(application[a].days) /\ Lengths[a] \in Int
<1>1. Added(x) \subseteq DOMAIN application
    BY DEF Added, Approved
<1>2. IsFiniteSet(Added(x))
    BY <1>1, Tables, FS_Subset
<1> QED
    BY <1>1, <1>2, Tables DEF Lengths

LEMMA CountKeeps ==
    ASSUME CountInv, UNCHANGED counted, DOMAIN assigned' = DOMAIN assigned,
           overtaken \subseteq overtaken', DOMAIN application \subseteq DOMAIN application',
           \A a \in DOMAIN application :
               application[a].status # "PENDING" => application'[a].status # "PENDING",
           \A q \in Requests : pc'[q] = "count" =>
               /\ pc[q] = "count" /\ local'[q].app = local[q].app
               /\ overtaken' = {} =>
                     application'[local[q].app].status = application[local[q].app].status
    PROVE  CountInv'
<1>0. DOMAIN counted' = DOMAIN assigned'
    BY DEF CountInv
<1>1. \A x \in DOMAIN assigned' : \A a \in counted'[x] :
        a \in DOMAIN application' /\ application'[a].status # "PENDING"
    BY DEF CountInv
<1>2. ASSUME overtaken' = {}, NEW r \in Requests, pc'[r] = "count"
      PROVE  /\ application'[local'[r].app].status = "APPROVED"
             /\ \A x \in DOMAIN assigned' : local'[r].app \notin counted'[x]
             /\ \A q \in Requests : pc'[q] = "count" /\ local'[q].app = local'[r].app => q = r
    BY <1>2 DEF CountInv
<1> QED
    BY <1>0, <1>1, <1>2 DEF CountInv

LEMMA BalanceKeeps ==
    ASSUME TypeOK, TypeOK', BalanceInv, loose => loose', overtaken \subseteq overtaken',
           ~loose' => type.count <= type'.count,
           \A x \in Live' : x \in Live /\ assigned'[x].used = assigned[x].used,
           overtaken' = {} =>
               \A a \in Claims' : a \in Claims /\ application'[a].days = application[a].days,
           \A r \in Applying' : r \in Applying /\ local'[r].days = local[r].days
    PROVE  BalanceInv'
<1>1. SUFFICES ASSUME ~loose', overtaken' = {}
               PROVE  /\ \A x \in Live' : assigned'[x].used <= type'.count
                      /\ \A x, y \in Live' : x = y
                      /\ \A r \in Applying' : Fits(local[r].days)' /\ Claims' = {}
                      /\ \A a \in Claims' : Fits(application[a].days)'
                      /\ \A a, b \in Claims' : a = b
                      /\ \A q, r \in Applying' : q = r
    BY DEF BalanceInv
<1>2. /\ \A x \in Live : assigned[x].used <= type.count
      /\ \A x, y \in Live : x = y
      /\ \A r \in Applying : Fits(local[r].days) /\ Claims = {}
      /\ \A a \in Claims : Fits(application[a].days)
      /\ \A a, b \in Claims : a = b
      /\ \A q, r \in Applying : q = r
    BY <1>1 DEF BalanceInv
<1>3. /\ type.count \in Nat /\ type'.count \in Nat /\ type.count <= type'.count
      /\ \A x \in Live : assigned[x].used \in Nat
    BY <1>1, Tables DEF TypeOK
<1>4. ASSUME NEW days \in SUBSET Days, Fits(days) PROVE Fits(days)'
    <2>1. Cardinality(days) \in Nat
        BY RangeFinite
    <2> QED
        BY <1>3, <1>4, <2>1 DEF Fits
<1>5. \A x \in Live' : assigned'[x].used <= type'.count
    BY <1>2, <1>3
<1>6. ASSUME NEW r \in Applying' PROVE Fits(local[r].days)' /\ Claims' = {}
    <2>1. r \in Applying /\ local'[r].days = local[r].days /\ Fits(local[r].days) /\ Claims = {}
        BY <1>2
    <2>2. local[r].days \in SUBSET Days
        BY <2>1 DEF Applying, TypeOK, Local
    <2>3. PICK days : days = local[r].days
        OBVIOUS
    <2>4. Fits(days)' /\ local'[r].days = days
        BY <1>4, <2>1, <2>2, <2>3
    <2> QED
        BY <1>1, <2>1, <2>4 DEF Fits
<1>7. ASSUME NEW a \in Claims' PROVE Fits(application[a].days)'
    <2>1. a \in Claims /\ application'[a].days = application[a].days
        BY <1>1
    <2>2. Fits(application[a].days) /\ application[a].days \in SUBSET Days
        BY <1>2, <2>1, Tables DEF Claims
    <2>3. PICK days : days = application[a].days
        OBVIOUS
    <2>4. Fits(days)' /\ application'[a].days = days
        BY <1>4, <2>1, <2>2, <2>3
    <2> QED
        BY <2>4 DEF Fits
<1> QED
    BY <1>1, <1>2, <1>5, <1>6, <1>7

LEMMA UsedKeeps ==
    ASSUME TypeOK, UsedInv, overtaken \subseteq overtaken', cut \subseteq cut',
           DOMAIN assigned' = DOMAIN assigned,
           \A x \in DOMAIN assigned : assigned'[x].used = assigned[x].used,
           DOMAIN application \subseteq DOMAIN application',
           \A a \in DOMAIN application : application'[a].days = application[a].days,
           overtaken' \cup cut' = {} => \A x \in DOMAIN assigned : Added(x)' = Added(x)
    PROVE  UsedInv'
<1> SUFFICES ASSUME overtaken' \cup cut' = {}, NEW x \in DOMAIN assigned
             PROVE  assigned'[x].used = SumOver(Lengths', Added(x)')
    BY DEF UsedInv
<1>1. assigned[x].used = SumOver(Lengths, Added(x)) /\ Added(x)' = Added(x)
    BY DEF UsedInv
<1>2. \A a \in Added(x) : Lengths[a] = Lengths'[a]
    BY AddedFinite DEF Lengths
<1>3. SumOver(Lengths, Added(x)) = SumOver(Lengths', Added(x))
    BY <1>2, AddedFinite, SumOverSame
<1> QED
    BY <1>1, <1>3

\* A step that leaves the assignments, the applications and who applies or counts alone.
LEMMA AsideKeeps ==
    ASSUME TypeOK, TypeOK', CountInv, BalanceInv, UsedInv,
           UNCHANGED <<type, assigned, application, counted, overtaken>>,
           cut \subseteq cut', loose => loose',
           \A q \in Requests :
               pc'[q] \in {"count", "apply"} => pc'[q] = pc[q] /\ local'[q] = local[q],
           \A q \in Requests : pc[q] = "count" => pc'[q] = "count" \/ cut' # {}
    PROVE  CountInv' /\ BalanceInv' /\ UsedInv'
<1>1. CountInv'
    BY CountKeeps
<1>2. Counting' \subseteq Counting
    BY DEF Counting
<1>3. BalanceInv'
    <2>1. \A a \in Claims' : a \in Claims
        BY <1>2 DEF Claims
    <2>2. \A r \in Applying' : r \in Applying /\ local'[r].days = local[r].days
        BY DEF Applying
    <2>3. Live' = Live /\ type.count <= type'.count
        BY Tables DEF Live
    <2> QED
        BY <2>1, <2>2, <2>3, BalanceKeeps
<1>4. ASSUME cut' = {}, NEW x \in DOMAIN assigned PROVE Added(x)' = Added(x)
    <2>1. Counting' = Counting
        <3>1. \A q \in Requests : pc'[q] = "count" <=> pc[q] = "count"
            BY <1>4
        <3>2. \A q \in Requests : pc[q] = "count" => local'[q] = local[q]
            BY <1>4
        <3> QED
            BY <3>1, <3>2 DEF Counting
    <2> QED
        BY <2>1 DEF Added, Approved
<1>5. UsedInv'
    BY <1>4, UsedKeeps
<1> QED
    BY <1>1, <1>3, <1>5

\* A step of a handler that leaves the assignments and the applications alone.
LEMMA AsideStep ==
    ASSUME StaffInv, TypeOK', NEW r \in Requests,
           \A q \in Requests \ {r} : pc'[q] = pc[q] /\ local'[q] = local[q],
           UNCHANGED <<type, assigned, application, counted, overtaken, rejected>>,
           cut \subseteq cut', loose => loose', HandlerInv(r)',
           pc'[r] \in {"count", "apply"} => pc'[r] = pc[r] /\ local'[r] = local[r],
           pc[r] = "count" => pc'[r] = "count" \/ cut' # {},
           \A d \in Days : Shown(d) => Shown(d)' \/ \E b \in rejected : d \in application[b].days,
           \A a \in DOMAIN application : \A d \in Days :
               Covers(r, a, d) => Covers(r, a, d)' \/ a \in cut' \/ Shown(d)'
    PROVE  StaffInv'
<1>1. CountInv' /\ BalanceInv' /\ UsedInv'
    <2>1. \A q \in Requests : /\ pc'[q] \in {"count", "apply"} => pc'[q] = pc[q] /\ local'[q] = local[q]
                              /\ pc[q] = "count" => pc'[q] = "count" \/ cut' # {}
        OBVIOUS
    <2> QED
        BY <2>1, AsideKeeps DEF StaffInv
<1>2. \A q \in Requests : HandlerInv(q)'
    <2>1. ASSUME NEW q \in Requests \ {r}, pc[q] = "apply"
          PROVE  /\ local[q].app \notin DOMAIN application'
                 /\ pc'[r] = "apply" => local'[r].app # local[q].app
        <3>1. HandlerInv(q) /\ local[q].app \notin DOMAIN application
            BY <2>1 DEF StaffInv, HandlerInv
        <3>2. pc[r] = "apply" => local[r].app # local[q].app
            BY <2>1, <3>1 DEF HandlerInv
        <3> QED
            BY <3>1, <3>2
    <2> QED
        BY <2>1, HandlersKeep DEF StaffInv
<1>3. OnRecordInv'
    <2>1. /\ rejected' \subseteq DOMAIN application'
          /\ \A a \in DOMAIN application : application[a].days \subseteq Days
        BY Tables DEF StaffInv, OnRecordInv
    <2>2. \A a \in DOMAIN application' : application'[a].status = "APPROVED" =>
               \/ a \in DOMAIN application /\ application[a].status = "APPROVED"
               \/ \A d \in application'[a].days : Covers(r, a, d)'
        OBVIOUS
    <2>3. \A d \in Days : Shown(d) => Shown(d)' \/ \E b \in rejected' : d \in application'[b].days
        OBVIOUS
    <2> QED
        BY <2>1, <2>2, <2>3, RecordKeeps DEF StaffInv
<1> QED
    BY <1>1, <1>2, <1>3 DEF StaffInv

\* Nothing of the employee's changes but the cache, the year or the number of starts.
LEMMA StaffRests ==
    ASSUME StaffInv, UNCHANGED <<type, assigned, application, attendance, pc, local, history>>,
           IsTable(cached', Applications, Status), current' \in BOOLEAN, started' \in Nat
    PROVE  StaffInv'
<1>0. UNCHANGED <<counted, overtaken, cut, rejected, loose>>
    BY DEF history
<1>1. TypeOK'
    BY <1>0 DEF StaffInv, TypeOK
<1>2. CountInv' /\ BalanceInv' /\ UsedInv'
    BY <1>0, <1>1, AsideKeeps DEF StaffInv
<1>3. \A q \in Requests : HandlerInv(q)'
    BY <1>0 DEF StaffInv, HandlerInv
<1>4. OnRecordInv'
    BY <1>0 DEF StaffInv, OnRecordInv
<1> QED
    BY <1>1, <1>2, <1>3, <1>4 DEF StaffInv

LEMMA AssignLeaveKeeps ==
    ASSUME StaffInv, started' \in Nat, NEW r \in Requests, NEW x \in Assignments, AssignLeave(r, x)
    PROVE  StaffInv'
<1> DEFINE l == [Nothing EXCEPT !.row = x]
<1>1. l \in Local /\ l.row = x /\ "assign" \in Steps
    BY NothingTyped DEF Local, Nothing, Steps
<1>2. /\ pc[r] = "idle" /\ Goto(r, "assign", l)
      /\ UNCHANGED <<type, assigned, application, attendance, current, cached,
                     counted, overtaken, cut, rejected, loose>>
    BY DEF AssignLeave, tables, history
<1> HIDE DEF l
<1>3. /\ pc' \in [Requests -> Steps] /\ local' \in [Requests -> Local]
      /\ pc'[r] = "assign" /\ local'[r] = l
      /\ \A q \in Requests \ {r} : pc'[q] = pc[q] /\ local'[q] = local[q]
    BY <1>1, <1>2, Gone DEF StaffInv
<1>4. TypeOK'
    BY <1>2, <1>3 DEF StaffInv, TypeOK
<1>5. HandlerInv(r)'
    BY <1>1, <1>3 DEF HandlerInv
<1>6. \A d \in Days : Shown(d) => Shown(d)'
    BY <1>2 DEF Shown
<1>7. \A a \in DOMAIN application : \A d \in Days : ~Covers(r, a, d)
    BY <1>2 DEF Covers
<1> QED
    BY <1>2, <1>3, <1>4, <1>5, <1>6, <1>7, AsideStep

\* The two steps of a look at an application.
LEMMA JudgeKeeps ==
    ASSUME StaffInv, started' \in Nat, NEW r \in Requests, pc[r] \in {"idle", "store"},
           NEW a \in DOMAIN application, application[a].kind = "employee",
           NEW l \in Local, l.app = a, l.days = application[a].days,
           l.to \in {"APPROVED", "REJECTED", "CANCELLED"},
           Goto(r, "store", l) \/ Goto(r, "update", l) \/ Finish(r),
           UNCHANGED <<tables, history>>, IsTable(cached', Applications, Status)
    PROVE  StaffInv'
<1>1. UNCHANGED <<type, assigned, application, attendance, current,
                  counted, overtaken, cut, rejected, loose>>
    BY DEF tables, history
<1>2. {"store", "update", "idle"} \subseteq Steps
    BY DEF Steps
<1>3. /\ pc' \in [Requests -> Steps] /\ local' \in [Requests -> Local]
      /\ pc'[r] = "idle" \/ (pc'[r] \in {"store", "update"} /\ local'[r] = l)
      /\ \A q \in Requests \ {r} : pc'[q] = pc[q] /\ local'[q] = local[q]
    BY <1>2, Gone, Finished DEF StaffInv
<1>4. TypeOK'
    BY <1>1, <1>3 DEF StaffInv, TypeOK
<1>5. HandlerInv(r)'
    BY <1>1, <1>3 DEF HandlerInv
<1>6. \A d \in Days : Shown(d) => Shown(d)'
    BY <1>1 DEF Shown
<1>7. \A b \in DOMAIN application : \A d \in Days : ~Covers(r, b, d)
    BY DEF Covers
<1>8. pc'[r] \notin {"count", "apply"} /\ pc[r] # "count"
    BY <1>3
<1> QED
    BY <1>1, <1>3, <1>4, <1>5, <1>6, <1>7, <1>8, AsideStep

LEMMA FindApplicationKeeps ==
    ASSUME StaffInv, started' \in Nat, NEW r \in Requests, NEW a \in Applications,
           NEW to \in Status \ {"PENDING"}, FindApplication(r, a, to)
    PROVE  StaffInv'
<1> DEFINE seen == [Nothing EXCEPT !.app = a, !.to = to, !.days = application[a].days]
           read == [seen EXCEPT !.seen = application[a].status]
<1>1. /\ pc[r] = "idle" /\ a \in DOMAIN application /\ application[a].kind = "employee"
      /\ UNCHANGED <<tables, history>> /\ UNCHANGED cached
    BY DEF FindApplication
<1>2. /\ application[a].status \in Status /\ application[a].days \in SUBSET Days
      /\ to \in {"APPROVED", "REJECTED", "CANCELLED"}
    BY <1>1, Tables DEF StaffInv, Application, Status
<1>3. /\ seen \in Local /\ seen.app = a /\ seen.days = application[a].days /\ seen.to = to
      /\ read \in Local /\ read.app = a /\ read.days = application[a].days /\ read.to = to
    BY <1>2, NothingTyped DEF Local, Nothing
<1>4. Goto(r, "update", seen) \/ Finish(r) \/ Goto(r, "store", read)
    BY DEF FindApplication, Judge
<1>5. IsTable(cached', Applications, Status)
    BY <1>1 DEF StaffInv, TypeOK
<1> HIDE DEF seen, read
<1>6. CASE Goto(r, "store", read)
    BY <1>1, <1>2, <1>3, <1>5, <1>6, JudgeKeeps
<1>7. CASE Goto(r, "update", seen) \/ Finish(r)
    BY <1>1, <1>2, <1>3, <1>5, <1>7, JudgeKeeps
<1> QED
    BY <1>4, <1>6, <1>7

LEMMA StoreApplicationKeeps ==
    ASSUME StaffInv, started' \in Nat, NEW r \in Requests, StoreApplication(r)
    PROVE  StaffInv'
<1>0. PICK l : l = local[r]
    OBVIOUS
<1> DEFINE seen == [l EXCEPT !.seen = "PENDING"]
<1>1. /\ pc[r] = "store" /\ UNCHANGED <<tables, history>>
      /\ cached' = Upsert(cached, l.app, l.seen)
      /\ Goto(r, "update", seen) \/ Finish(r)
    BY <1>0 DEF StoreApplication, Judge
<1>2. /\ l \in Local /\ l.app \in DOMAIN application /\ application[l.app].kind = "employee"
      /\ l.days = application[l.app].days /\ l.to \in {"APPROVED", "REJECTED", "CANCELLED"}
    BY <1>0, <1>1 DEF StaffInv, TypeOK, HandlerInv
<1>3. seen \in Local /\ seen.app = l.app /\ seen.days = l.days /\ seen.to = l.to
    BY <1>2 DEF Local, Status
<1>4. IsTable(cached', Applications, Status)
    <2>1. l.app \in Applications /\ l.seen \in Status
        BY <1>2, Tables DEF StaffInv, Local
    <2> QED
        BY <1>1, <2>1, UpsertTable DEF StaffInv, TypeOK
<1> HIDE DEF seen
<1> QED
    BY <1>1, <1>2, <1>3, <1>4, JudgeKeeps

\* A day that is written stays on record when it says LEAVE or staff writes it, or when the
\* leave that writes it was rejected.
LEMMA ShownKeeps ==
    ASSUME NEW e, NEW v, attendance' = Upsert(attendance, e, v),
           v.status = "LEAVE" \/ v.by = "staff" \/ \E b \in rejected : e \in application[b].days,
           NEW d \in Days, Shown(d)
    PROVE  Shown(d)' \/ \E b \in rejected : d \in application[b].days
<1>1. /\ DOMAIN attendance' = DOMAIN attendance \cup {e} /\ attendance'[e] = v
      /\ \A j \in DOMAIN attendance \ {e} : attendance'[j] = attendance[j]
    BY DEF Upsert
<1>2. CASE d = e
    BY <1>1, <1>2 DEF Shown
<1>3. CASE d # e
    BY <1>1, <1>3 DEF Shown
<1> QED
    BY <1>2, <1>3

LEMMA MarkKeeps ==
    ASSUME StaffInv, started' \in Nat, NEW r \in Requests, NEW e \in Days, Mark(r, e)
    PROVE  StaffInv'
<1> DEFINE v == [status |-> "PRESENT", by |-> "staff"]
<1>1. /\ pc[r] = "idle" /\ attendance' = Upsert(attendance, e, v)
      /\ UNCHANGED <<type, assigned, application, current, cached, pc, local,
                     counted, overtaken, cut, rejected, loose>>
    BY DEF Mark, history
<1>2. v \in Record /\ v.by = "staff"
    BY DEF Record
<1> HIDE DEF v
<1>3. TypeOK'
    <2>1. IsTable(attendance', Days, Record)
        BY <1>1, <1>2, UpsertTable DEF StaffInv, TypeOK
    <2> QED
        BY <1>1, <2>1 DEF StaffInv, TypeOK
<1>4. HandlerInv(r)'
    BY <1>1 DEF StaffInv, HandlerInv
<1>5. \A d \in Days : Shown(d) => Shown(d)' \/ \E b \in rejected : d \in application[b].days
    BY <1>1, <1>2, ShownKeeps
<1>6. \A a \in DOMAIN application : \A d \in Days : ~Covers(r, a, d)
    BY <1>1 DEF Covers
<1> QED
    BY <1>1, <1>3, <1>4, <1>5, <1>6, AsideStep

LEMMA ResolveTapKeeps ==
    ASSUME StaffInv, started' \in Nat, NEW r \in Requests, NEW e \in Days, ResolveTap(r, e)
    PROVE  StaffInv'
<1>0. PICK to \in {"APPROVED", "PENDING"} :
        Goto(r, "tap", [Nothing EXCEPT !.days = {e}, !.to = to])
    BY DEF ResolveTap
<1> DEFINE l == [Nothing EXCEPT !.days = {e}, !.to = to]
<1>1. /\ pc[r] = "idle"
      /\ UNCHANGED <<type, assigned, application, attendance, current, cached,
                     counted, overtaken, cut, rejected, loose>>
    BY DEF ResolveTap, tables, history
<1>2. l \in Local /\ l.days # {} /\ "tap" \in Steps
    BY NothingTyped DEF Local, Nothing, Status, Steps
<1> HIDE DEF l
<1>3. /\ pc' \in [Requests -> Steps] /\ local' \in [Requests -> Local]
      /\ pc'[r] = "tap" /\ local'[r] = l
      /\ \A q \in Requests \ {r} : pc'[q] = pc[q] /\ local'[q] = local[q]
    BY <1>0, <1>2, Gone DEF StaffInv, l
<1>4. TypeOK'
    BY <1>1, <1>3 DEF StaffInv, TypeOK
<1>5. HandlerInv(r)'
    BY <1>2, <1>3 DEF HandlerInv
<1>6. \A d \in Days : Shown(d) => Shown(d)'
    BY <1>1 DEF Shown
<1>7. \A a \in DOMAIN application : \A d \in Days : ~Covers(r, a, d)
    BY <1>1 DEF Covers
<1> QED
    BY <1>1, <1>3, <1>4, <1>5, <1>6, <1>7, AsideStep

LEMMA InsertTapKeeps ==
    ASSUME StaffInv, started' \in Nat, NEW r \in Requests, InsertTap(r)
    PROVE  StaffInv'
<1>0. PICK e : e = Min(local[r].days)
    OBVIOUS
<1>1. PICK v \in Record :
        attendance' = IF e \in DOMAIN attendance THEN attendance ELSE Upsert(attendance, e, v)
    BY <1>0 DEF InsertTap, Record
<1>2. /\ pc[r] = "tap" /\ Finish(r)
      /\ UNCHANGED <<type, assigned, application, current, cached,
                     counted, overtaken, cut, rejected, loose>>
    BY DEF InsertTap, history
<1>3. e \in Days
    <2>1. local[r].days \in SUBSET Days /\ local[r].days # {}
        BY <1>2 DEF StaffInv, TypeOK, Local, HandlerInv
    <2> QED
        BY <1>0, <2>1, RangeFinite
<1>4. /\ pc' \in [Requests -> Steps] /\ local' \in [Requests -> Local] /\ pc'[r] = "idle"
      /\ \A q \in Requests \ {r} : pc'[q] = pc[q] /\ local'[q] = local[q]
    BY <1>2, Finished DEF StaffInv
<1>5. TypeOK'
    <2>1. IsTable(attendance', Days, Record)
        BY <1>1, <1>3, UpsertTable DEF StaffInv, TypeOK
    <2> QED
        BY <1>2, <1>4, <2>1 DEF StaffInv, TypeOK
<1>6. HandlerInv(r)'
    BY <1>4 DEF HandlerInv
<1>7. \A d \in Days : Shown(d) => Shown(d)'
    <2>1. CASE e \in DOMAIN attendance
        BY <1>1, <2>1 DEF Shown
    <2>2. CASE e \notin DOMAIN attendance
        <3>1. \A j \in DOMAIN attendance : j \in DOMAIN attendance' /\ attendance'[j] = attendance[j]
            BY <1>1, <2>2 DEF Upsert
        <3> QED
            BY <3>1 DEF Shown
    <2> QED
        BY <2>1, <2>2
<1>8. \A a \in DOMAIN application : \A d \in Days : ~Covers(r, a, d)
    BY <1>2 DEF Covers
<1> QED
    BY <1>2, <1>4, <1>5, <1>6, <1>7, <1>8, AsideStep

LEMMA BustCacheKeeps ==
    ASSUME StaffInv, started' \in Nat, NEW r \in Requests, BustCache(r)
    PROVE  StaffInv'
<1>1. /\ pc[r] = "bust" /\ cached' = << >> /\ Finish(r)
      /\ UNCHANGED <<type, assigned, application, attendance, current,
                     counted, overtaken, cut, rejected, loose>>
    BY DEF BustCache, tables, history
<1>2. /\ pc' \in [Requests -> Steps] /\ local' \in [Requests -> Local] /\ pc'[r] = "idle"
      /\ \A q \in Requests \ {r} : pc'[q] = pc[q] /\ local'[q] = local[q]
    BY <1>1, Finished DEF StaffInv
<1>3. TypeOK'
    BY <1>1, <1>2, EmptyTable DEF StaffInv, TypeOK
<1>4. HandlerInv(r)'
    BY <1>2 DEF HandlerInv
<1>5. \A d \in Days : Shown(d) => Shown(d)'
    BY <1>1 DEF Shown
<1>6. \A a \in DOMAIN application : \A d \in Days : ~Covers(r, a, d)
    BY <1>1 DEF Covers
<1> QED
    BY <1>1, <1>2, <1>3, <1>4, <1>5, <1>6, AsideStep

LEMMA HandlerFailsKeeps ==
    ASSUME StaffInv, started' \in Nat, NEW r \in Requests, HandlerFails(r)
    PROVE  StaffInv'
<1>1. /\ pc[r] # "idle" /\ Finish(r)
      /\ cut' = IF pc[r] \in {"count", "sync"} THEN cut \cup {local[r].app} ELSE cut
      /\ UNCHANGED <<type, assigned, application, attendance, current, cached,
                     counted, overtaken, rejected, loose>>
    BY DEF HandlerFails, tables
<1>2. /\ pc' \in [Requests -> Steps] /\ local' \in [Requests -> Local] /\ pc'[r] = "idle"
      /\ \A q \in Requests \ {r} : pc'[q] = pc[q] /\ local'[q] = local[q]
    BY <1>1, Finished DEF StaffInv
<1>3. pc[r] \in {"count", "sync"} => local[r].app \in Applications
    BY Tables DEF StaffInv, HandlerInv
<1>4. TypeOK'
    BY <1>1, <1>2, <1>3 DEF StaffInv, TypeOK
<1>5. HandlerInv(r)'
    BY <1>2 DEF HandlerInv
<1>6. \A d \in Days : Shown(d) => Shown(d)'
    BY <1>1 DEF Shown
<1>7. \A a \in DOMAIN application : \A d \in Days : Covers(r, a, d) => a \in cut'
    BY <1>1 DEF Covers
<1> QED
    BY <1>1, <1>2, <1>4, <1>5, <1>6, <1>7, AsideStep

LEMMA CacheExpiresKeeps ==
    ASSUME StaffInv, started' \in Nat, NEW a, CacheExpires(a)
    PROVE  StaffInv'
<1>1. IsTable(cached', Applications, Status)
    BY DEF CacheExpires, StaffInv, TypeOK, IsTable
<1> QED
    BY <1>1, StaffRests DEF CacheExpires, tables, StaffInv, TypeOK

LEMMA SetCurrentYearKeeps == ASSUME StaffInv, started' \in Nat, SetCurrentYear PROVE StaffInv'
    BY StaffRests DEF SetCurrentYear, StaffInv, TypeOK

LEMMA SyncDayKeeps ==
    ASSUME StaffInv, started' \in Nat, NEW r \in Requests, SyncDay(r)
    PROVE  StaffInv'
<1>0. PICK l, e : l = local[r] /\ e = Min(l.days)
    OBVIOUS
<1> DEFINE rest == [l EXCEPT !.days = l.days \ {e}]
           v == [status |-> IF l.to = "APPROVED" THEN "LEAVE" ELSE "ABSENT", by |-> "leave-sync"]
<1>1. /\ pc[r] = "sync" /\ attendance' = Upsert(attendance, e, v)
      /\ IF rest.days # {} THEN Goto(r, "sync", rest) ELSE Goto(r, "bust", rest) \/ Finish(r)
      /\ UNCHANGED <<type, assigned, application, current, cached,
                     counted, overtaken, cut, rejected, loose>>
    BY <1>0 DEF SyncDay, history
<1>2. /\ l \in Local /\ l.app \in DOMAIN application /\ l.days # {}
      /\ l.days \subseteq application[l.app].days /\ l.days \in SUBSET Days
      /\ l.to # "APPROVED" => l.app \in rejected
    BY <1>0, <1>1 DEF StaffInv, TypeOK, HandlerInv, Local
<1>3. e \in l.days /\ e \in Days
    BY <1>0, <1>2, RangeFinite
<1>4. /\ rest \in Local /\ rest.app = l.app /\ rest.to = l.to /\ rest.days = l.days \ {e}
      /\ v \in Record /\ (v.status = "LEAVE" \/ l.app \in rejected)
      /\ l.to = "APPROVED" => v.status = "LEAVE"
    BY <1>2 DEF Local, Record
<1> HIDE DEF rest, v
<1>5. {"sync", "bust"} \subseteq Steps
    BY DEF Steps
<1>6. /\ pc' \in [Requests -> Steps] /\ local' \in [Requests -> Local]
      /\ IF rest.days # {} THEN pc'[r] = "sync" /\ local'[r] = rest ELSE pc'[r] \in {"bust", "idle"}
      /\ \A q \in Requests \ {r} : pc'[q] = pc[q] /\ local'[q] = local[q]
    <2>1. CASE rest.days # {}
        BY <1>1, <1>4, <1>5, <2>1, Gone DEF StaffInv
    <2>2. CASE rest.days = {}
        BY <1>1, <1>4, <1>5, <2>2, Gone, Finished DEF StaffInv
    <2> QED
        BY <2>1, <2>2
<1>7. TypeOK'
    <2>1. IsTable(attendance', Days, Record)
        <3>1. IsTable(attendance, Days, Record) /\ v \in Record
            BY <1>4 DEF StaffInv, TypeOK
        <3> QED
            BY <1>1, <1>3, <3>1, UpsertTable
    <2> QED
        BY <1>1, <1>6, <2>1 DEF StaffInv, TypeOK
<1>8. HandlerInv(r)'
    <2>1. CASE rest.days # {}
        BY <1>1, <1>2, <1>4, <1>6, <2>1 DEF HandlerInv
    <2>2. CASE rest.days = {}
        BY <1>6, <2>2 DEF HandlerInv
    <2> QED
        BY <2>1, <2>2
<1>9. \A d \in Days : Shown(d) => Shown(d)' \/ \E b \in rejected : d \in application[b].days
    BY <1>1, <1>2, <1>3, <1>4, ShownKeeps
<1>10. ASSUME NEW a \in DOMAIN application, NEW d \in Days, Covers(r, a, d)
       PROVE  Covers(r, a, d)' \/ Shown(d)'
    <2>1. l.app = a /\ l.to = "APPROVED" /\ d \in l.days
        BY <1>0, <1>10 DEF Covers
    <2>2. CASE d = e
        <3>1. d \in DOMAIN attendance' /\ attendance'[d] = v
            BY <1>1, <2>2 DEF Upsert
        <3> QED
            BY <1>4, <2>1, <3>1 DEF Shown
    <2>3. CASE d # e
        BY <1>4, <1>6, <2>1, <2>3 DEF Covers
    <2> QED
        BY <2>2, <2>3
<1>11. pc'[r] \notin {"count", "apply"} /\ pc[r] # "count"
    BY <1>1, <1>6
<1> QED
    BY <1>1, <1>6, <1>7, <1>8, <1>9, <1>10, <1>11, AsideStep

\* A step at which no handler begins or ends to apply, and none writes the attendance.
LEMMA UnwrittenStep ==
    ASSUME StaffInv, TypeOK', NEW r \in Requests,
           \A q \in Requests \ {r} : pc'[q] = pc[q] /\ local'[q] = local[q],
           UNCHANGED <<attendance, cut>>, pc[r] \notin {"count", "sync"},
           DOMAIN application \subseteq DOMAIN application',
           \A a \in DOMAIN application : /\ application'[a].kind = application[a].kind
                                         /\ application'[a].days = application[a].days
                                         /\ application'[a].status = application[a].status,
           \A a \in DOMAIN application' \ DOMAIN application : application'[a].status = "PENDING",
           UNCHANGED rejected, HandlerInv(r)',
           \A q \in Requests \ {r} : pc[q] = "apply" =>
               /\ local[q].app \notin DOMAIN application'
               /\ pc'[r] = "apply" => local'[r].app # local[q].app
    PROVE  (\A q \in Requests : HandlerInv(q)') /\ OnRecordInv'
<1>1. \A q \in Requests : HandlerInv(q)'
    BY HandlersKeep DEF StaffInv
<1>2. \A a \in DOMAIN application : \A d \in Days : ~Covers(r, a, d)
    BY DEF Covers
<1>3. /\ rejected' \subseteq DOMAIN application'
      /\ \A a \in DOMAIN application : application[a].days \subseteq Days
      /\ \A b \in rejected : b \in DOMAIN application
    BY Tables DEF StaffInv, OnRecordInv
<1>4. \A a \in DOMAIN application' : application'[a].status = "APPROVED" =>
           a \in DOMAIN application /\ application[a].status = "APPROVED"
    <2>1. "PENDING" # "APPROVED"
        OBVIOUS
    <2> QED
        BY <2>1
<1>5. \A d \in Days : Shown(d) => Shown(d)'
    BY DEF Shown
<1>6. OnRecordInv'
    BY <1>2, <1>3, <1>4, <1>5, RecordKeeps DEF StaffInv
<1> QED
    BY <1>1, <1>6

LEMMA UpdateTypeKeeps ==
    ASSUME StaffInv, started' \in Nat, NEW r \in Requests, NEW count \in 0..Cardinality(Days),
           NEW enabled \in BOOLEAN, UpdateType(r, count, enabled)
    PROVE  StaffInv'
<1>1. /\ type' = [count |-> count, enabled |-> enabled]
      /\ loose' = (loose \/ count < type.count)
      /\ UNCHANGED <<assigned, application, attendance, current, cached, pc, local,
                     counted, overtaken, cut, rejected>>
    BY DEF UpdateType
<1>2. count \in Nat
    BY LeaveAssumption, FS_CardinalityType
<1>3. TypeOK'
    BY <1>1, <1>2 DEF StaffInv, TypeOK
<1>4. \A q \in Requests : HandlerInv(q)'
    BY <1>1 DEF StaffInv, HandlerInv
<1>5. OnRecordInv'
    BY <1>1 DEF StaffInv, OnRecordInv
<1>6. CountInv'
    BY <1>1 DEF StaffInv, CountInv
<1>7. BalanceInv'
    <2>1. Live' = Live /\ Claims' = Claims /\ Applying' = Applying
        BY <1>1 DEF Live, Claims, Applying, Counting
    <2>2. type.count \in Nat /\ type'.count = count
        BY <1>1, Tables DEF StaffInv
    <2>3. ASSUME ~loose' PROVE type.count <= type'.count
        <3>1. ~(count < type.count)
            BY <1>1, <2>3, Zenon
        <3> QED
            BY <1>2, <2>2, <3>1
    <2> QED
        BY <1>1, <1>3, <2>1, <2>3, BalanceKeeps DEF StaffInv
<1>8. UsedInv'
    <2>1. \A x \in DOMAIN assigned : Added(x)' = Added(x)
        BY <1>1 DEF Added, Approved, Counting
    <2> QED
        BY <1>1, <2>1, UsedKeeps DEF StaffInv
<1> QED
    BY <1>3, <1>4, <1>5, <1>6, <1>7, <1>8 DEF StaffInv

LEMMA ApplyLeaveKeeps ==
    ASSUME StaffInv, started' \in Nat, NEW r \in Requests, NEW a \in Applications,
           NEW days \in Ranges, ApplyLeave(r, a, days)
    PROVE  StaffInv'
<1> DEFINE l == [Nothing EXCEPT !.app = a, !.days = days]
<1>1. /\ pc[r] = "idle" /\ FreshId(a) /\ Goto(r, "apply", l) /\ loose' = (loose \/ Outstanding)
      /\ \E x \in Live : Cardinality(days) <= type.count - assigned[x].used
      /\ UNCHANGED <<type, assigned, application, attendance, current, cached,
                     counted, overtaken, cut, rejected>>
    BY DEF ApplyLeave, tables
<1>2. days \in SUBSET Days /\ days # {} /\ Cardinality(days) \in Nat
    BY RangesDays, RangeFinite
<1>3. l \in Local /\ l.app = a /\ l.days = days /\ "apply" \in Steps
    BY <1>2, NothingTyped DEF Local, Nothing, Steps
<1> HIDE DEF l
<1>4. /\ pc' \in [Requests -> Steps] /\ local' \in [Requests -> Local]
      /\ pc'[r] = "apply" /\ local'[r] = l
      /\ \A q \in Requests \ {r} : pc'[q] = pc[q] /\ local'[q] = local[q]
    BY <1>1, <1>3, Gone DEF StaffInv
<1>5. TypeOK'
    BY <1>1, <1>4 DEF StaffInv, TypeOK
<1>6. a \notin DOMAIN application /\ \A q \in Requests : local[q].app # a
    BY <1>1 DEF FreshId
<1>7. HandlerInv(r)'
    BY <1>1, <1>3, <1>4, <1>6 DEF HandlerInv
<1>8. (\A q \in Requests : HandlerInv(q)') /\ OnRecordInv'
    <2>1. \A q \in Requests \ {r} : pc[q] = "apply" =>
               local[q].app \notin DOMAIN application' /\ local'[r].app # local[q].app
        BY <1>1, <1>3, <1>4, <1>6 DEF StaffInv, HandlerInv
    <2> QED
        BY <1>1, <1>4, <1>5, <1>7, <2>1, UnwrittenStep
<1>9. Counting' = Counting
    <2>1. \A q \in Requests : pc'[q] = "count" <=> pc[q] = "count"
        BY <1>1, <1>4
    <2>2. \A q \in Requests : pc[q] = "count" => local'[q] = local[q]
        BY <1>1, <1>4
    <2> QED
        BY <2>1, <2>2 DEF Counting
<1>10. CountInv'
    <2>1. \A q \in Requests : pc'[q] = "count" => pc[q] = "count" /\ local'[q] = local[q]
        BY <1>1, <1>4
    <2> QED
        BY <1>1, <2>1, CountKeeps DEF StaffInv
<1>11. UsedInv'
    <2>1. \A x \in DOMAIN assigned : Added(x)' = Added(x)
        BY <1>1, <1>9 DEF Added, Approved
    <2> QED
        BY <1>1, <2>1, UsedKeeps DEF StaffInv
<1>12. BalanceInv'
    <2> SUFFICES ASSUME ~loose', overtaken' = {} PROVE BalanceInv'
        BY DEF BalanceInv
    <2>1. ~loose /\ overtaken = {} /\ ~Outstanding
        BY <1>1
    <2>2. Applying = {} /\ Claims = {}
        <3>1. Applying = {}
            BY <2>1 DEF Outstanding, Applying
        <3>2. ASSUME NEW b \in Claims PROVE FALSE
            <4>1. b \in DOMAIN application /\ application[b].kind = "employee"
                BY DEF Claims
            <4>2. application[b].status # "PENDING" /\ At({"update", "count"}, b) = {}
                BY <2>1, <4>1 DEF Outstanding
            <4>3. b \notin Counting
                BY <4>2 DEF At, Counting
            <4> QED
                BY <4>2, <4>3 DEF Claims
        <3> QED
            BY <3>1, <3>2
    <2>3. /\ \A x \in Live : assigned[x].used <= type.count
          /\ \A x, y \in Live : x = y
        BY <2>1 DEF StaffInv, BalanceInv
    <2>4. Live' = Live /\ Claims' = {} /\ Applying' = {r}
        <3>1. Live' = Live /\ Claims' = Claims
            BY <1>1, <1>9 DEF Live, Claims
        <3>2. Applying' = {r}
            BY <1>4, <2>2 DEF Applying
        <3> QED
            BY <2>2, <3>1, <3>2
    <2>5. Fits(days)'
        <3>1. PICK x \in Live : Cardinality(days) <= type.count - assigned[x].used
            BY <1>1
        <3>2. type.count \in Nat /\ assigned[x].used \in Nat /\ Live = {x}
            BY <2>3, <3>1, Tables DEF StaffInv
        <3>3. Cardinality(days) <= type.count /\ assigned[x].used + Cardinality(days) <= type.count
            BY <1>2, <3>1, <3>2
        <3> QED
            BY <1>1, <2>4, <3>2, <3>3 DEF Fits
    <2>6. Fits(local[r].days)'
        BY <1>3, <1>4, <2>5 DEF Fits
    <2> QED
        BY <1>1, <2>3, <2>4, <2>6 DEF BalanceInv
<1> QED
    BY <1>5, <1>8, <1>10, <1>11, <1>12 DEF StaffInv

\* An application is added, which no handler holds any more.
LEMMA AddApplication ==
    ASSUME StaffInv, started' \in Nat, NEW r \in Requests, pc[r] \in {"idle", "apply"},
           pc'[r] = "idle", \A q \in Requests \ {r} : pc'[q] = pc[q] /\ local'[q] = local[q],
           pc' \in [Requests -> Steps], local' \in [Requests -> Local],
           NEW a \in Applications, a \notin DOMAIN application,
           \A q \in Requests \ {r} : local[q].app # a \/ pc[q] # "apply",
           NEW p \in Application, p.status = "PENDING", application' = Upsert(application, a, p),
           UNCHANGED <<type, assigned, attendance, current, cached,
                       counted, overtaken, cut, rejected, loose>>,
           BalanceInv'
    PROVE  StaffInv'
<1>1. /\ DOMAIN application' = DOMAIN application \cup {a} /\ application'[a] = p
      /\ \A b \in DOMAIN application : application'[b] = application[b]
    BY DEF Upsert
<1>2. TypeOK'
    <2>1. IsTable(application', Applications, Application)
        BY UpsertTable DEF StaffInv, TypeOK
    <2> QED
        BY <2>1 DEF StaffInv, TypeOK
<1>3. HandlerInv(r)'
    BY DEF HandlerInv
<1>4. (\A q \in Requests : HandlerInv(q)') /\ OnRecordInv'
    <2>1. \A q \in Requests \ {r} : pc[q] = "apply" =>
               /\ local[q].app \notin DOMAIN application'
               /\ pc'[r] = "apply" => local'[r].app # local[q].app
        BY <1>1 DEF StaffInv, HandlerInv
    <2> QED
        BY <1>1, <1>2, <1>3, <2>1, UnwrittenStep
<1>5. \A q \in Requests : pc'[q] = "count" =>
          /\ pc[q] = "count" /\ local'[q] = local[q] /\ local[q].app \in DOMAIN application
    BY DEF StaffInv, HandlerInv
<1>6. CountInv'
    BY <1>1, <1>5, CountKeeps DEF StaffInv
<1>7. UsedInv'
    <2>1. Approved("employee")' = Approved("employee")
        BY <1>1 DEF Approved
    <2>2. Counting' = Counting
        <3>1. \A q \in Requests : pc'[q] = "count" <=> pc[q] = "count"
            OBVIOUS
        <3>2. \A q \in Requests : pc[q] = "count" => local'[q] = local[q]
            BY <1>5, <3>1
        <3> QED
            BY <3>1, <3>2 DEF Counting
    <2>3. \A x \in DOMAIN assigned : Added(x)' = Added(x)
        BY <2>1, <2>2 DEF Added
    <2> QED
        BY <1>1, <2>3, UsedKeeps DEF StaffInv
<1> QED
    BY <1>2, <1>4, <1>6, <1>7 DEF StaffInv

LEMMA CreateApplicationKeeps ==
    ASSUME StaffInv, started' \in Nat, NEW r \in Requests, CreateApplication(r)
    PROVE  StaffInv'
<1>0. PICK a, days : a = local[r].app /\ days = local[r].days
    OBVIOUS
<1> DEFINE p == [kind |-> "employee", days |-> days, status |-> "PENDING"]
<1>1. /\ pc[r] = "apply" /\ application' = Upsert(application, a, p) /\ Finish(r)
      /\ UNCHANGED <<type, assigned, attendance, current, cached,
                     counted, overtaken, cut, rejected, loose>>
    BY <1>0 DEF CreateApplication, history
<1>2. /\ a \in Applications /\ a \notin DOMAIN application /\ days \in Ranges
      /\ \A q \in Requests \ {r} : local[q].app # a \/ pc[q] # "apply"
    BY <1>0, <1>1 DEF StaffInv, HandlerInv
<1>3. p \in Application /\ p.status = "PENDING" /\ p.days = days
    BY <1>2 DEF Application, Status
<1> HIDE DEF p
<1>4. /\ pc' \in [Requests -> Steps] /\ local' \in [Requests -> Local] /\ pc'[r] = "idle"
      /\ \A q \in Requests \ {r} : pc'[q] = pc[q] /\ local'[q] = local[q]
    BY <1>1, Finished DEF StaffInv
<1>5. /\ DOMAIN application' = DOMAIN application \cup {a} /\ application'[a] = p
      /\ \A b \in DOMAIN application : application'[b] = application[b]
    BY <1>1, <1>2 DEF Upsert
<1>6. BalanceInv'
    <2> SUFFICES ASSUME ~loose', overtaken' = {} PROVE BalanceInv'
        BY DEF BalanceInv
    <2>1. /\ \A x \in Live : assigned[x].used <= type.count
          /\ \A x, y \in Live : x = y
          /\ \A q, z \in Applying : q = z
          /\ r \in Applying /\ Claims = {} /\ Fits(local[r].days)
        BY <1>1 DEF StaffInv, BalanceInv, Applying
    <2>2. Applying' = {}
        BY <1>4, <2>1 DEF Applying
    <2>3. Live' = Live
        BY <1>1 DEF Live
    <2>4. Claims' \subseteq {a}
        <3> SUFFICES ASSUME NEW b \in Claims', b # a PROVE b \in Claims
            BY <2>1
        <3>1. b \in DOMAIN application /\ application'[b] = application[b]
            BY <1>5 DEF Claims
        <3>2. Counting' \subseteq Counting
            BY <1>4 DEF Counting
        <3> QED
            BY <3>1, <3>2 DEF Claims
    <2>5. Fits(days) /\ application'[a].days = days
        BY <1>0, <1>3, <1>5, <2>1
    <2>6. Fits(application[a].days)'
        BY <1>1, <2>3, <2>5 DEF Fits
    <2> QED
        BY <1>1, <2>1, <2>2, <2>3, <2>4, <2>6 DEF BalanceInv
<1> QED
    BY <1>1, <1>2, <1>3, <1>4, <1>6, AddApplication

LEMMA ApplyTeacherLeaveKeeps ==
    ASSUME StaffInv, started' \in Nat, NEW r \in Requests, NEW a \in Applications,
           NEW days \in Ranges, ApplyTeacherLeave(r, a, days)
    PROVE  StaffInv'
<1> DEFINE p == [kind |-> "teacher", days |-> days, status |-> "PENDING"]
<1>1. /\ pc[r] = "idle" /\ FreshId(a) /\ application' = Upsert(application, a, p)
      /\ UNCHANGED <<type, assigned, attendance, current, cached, pc, local,
                     counted, overtaken, cut, rejected, loose>>
    BY DEF ApplyTeacherLeave, history
<1>2. a \notin DOMAIN application /\ \A q \in Requests : local[q].app # a
    BY <1>1 DEF FreshId
<1>3. p \in Application /\ p.status = "PENDING" /\ p.kind = "teacher"
    BY DEF Application, Status
<1> HIDE DEF p
<1>4. pc' \in [Requests -> Steps] /\ local' \in [Requests -> Local]
    BY <1>1 DEF StaffInv, TypeOK
<1>5. /\ DOMAIN application' = DOMAIN application \cup {a} /\ application'[a] = p
      /\ \A b \in DOMAIN application : application'[b] = application[b]
    BY <1>1, <1>2 DEF Upsert
<1>6. TypeOK'
    <2>1. IsTable(application', Applications, Application)
        BY <1>1, <1>3, UpsertTable DEF StaffInv, TypeOK
    <2> QED
        BY <1>1, <2>1 DEF StaffInv, TypeOK
<1>7. BalanceInv'
    <2>1. ASSUME NEW b \in Claims'
          PROVE  b \in Claims /\ application'[b].days = application[b].days
        <3>1. b # a
            BY <1>3, <1>5 DEF Claims
        <3>2. b \in DOMAIN application /\ application'[b] = application[b]
            BY <1>5, <3>1 DEF Claims
        <3>3. Counting' = Counting
            BY <1>1 DEF Counting
        <3> QED
            BY <3>2, <3>3 DEF Claims
    <2>2. Live' = Live /\ Applying' = Applying /\ type.count <= type'.count
        BY <1>1, Tables DEF Live, Applying, StaffInv
    <2> QED
        BY <1>1, <1>6, <2>1, <2>2, BalanceKeeps DEF StaffInv
<1> QED
    BY <1>1, <1>2, <1>3, <1>4, <1>7, AddApplication

LEMMA CreateAssignmentKeeps ==
    ASSUME StaffInv, started' \in Nat, NEW r \in Requests, CreateAssignment(r)
    PROVE  StaffInv'
<1>0. PICK x : x = local[r].row
    OBVIOUS
<1> DEFINE new == [used |-> 0, deleted |-> FALSE]
           old == {a \in DOMAIN application : application[a].status = "APPROVED"
                                              /\ At({"count"}, a) = {}}
<1>1. /\ pc[r] = "assign" /\ assigned' = Upsert(assigned, x, new)
      /\ counted' = Upsert(counted, x, old) /\ loose' = (loose \/ Live # {}) /\ Finish(r)
      /\ UNCHANGED <<type, application, attendance, current, cached, overtaken, cut, rejected>>
    BY <1>0 DEF CreateAssignment
<1>2. x \in Assignments
    BY <1>0, <1>1 DEF StaffInv, HandlerInv
<1>3. new \in Assigned /\ new.used = 0 /\ old \in SUBSET Applications
    BY Tables DEF Assigned, StaffInv
<1>4. \A a \in old :
          a \in DOMAIN application /\ application[a].status = "APPROVED" /\ a \notin Counting
    BY DEF At, Counting
<1>5. \A a \in DOMAIN application :
          application[a].status = "APPROVED" /\ a \notin Counting => a \in old
    BY DEF At, Counting
<1> HIDE DEF new, old
<1>6. /\ pc' \in [Requests -> Steps] /\ local' \in [Requests -> Local] /\ pc'[r] = "idle"
      /\ \A q \in Requests \ {r} : pc'[q] = pc[q] /\ local'[q] = local[q]
    BY <1>1, Finished DEF StaffInv
<1>7. /\ DOMAIN assigned' = DOMAIN assigned \cup {x} /\ assigned'[x] = new
      /\ \A y \in DOMAIN assigned \ {x} : assigned'[y] = assigned[y]
    BY <1>1 DEF Upsert
<1>8. /\ DOMAIN counted' = DOMAIN counted \cup {x} /\ counted'[x] = old
      /\ \A y \in DOMAIN counted \ {x} : counted'[y] = counted[y]
    BY <1>1 DEF Upsert
<1>9. TypeOK'
    <2>1. IsTable(assigned', Assignments, Assigned)
        BY <1>1, <1>2, <1>3, UpsertTable DEF StaffInv, TypeOK
    <2>2. IsTable(counted', DOMAIN assigned', SUBSET Applications)
        <3>1. IsTable(counted, DOMAIN assigned', SUBSET Applications)
            BY <1>7 DEF StaffInv, TypeOK, IsTable
        <3> QED
            BY <1>1, <1>3, <1>7, <3>1, UpsertTable
    <2>3. loose' \in BOOLEAN
        BY <1>1
    <2> QED
        BY <1>1, <1>6, <2>1, <2>2, <2>3 DEF StaffInv, TypeOK
<1>10. HandlerInv(r)'
    BY <1>6 DEF HandlerInv
<1>11. (\A q \in Requests : HandlerInv(q)') /\ OnRecordInv'
    <2>1. \A q \in Requests \ {r} : pc[q] = "apply" => local[q].app \notin DOMAIN application'
        BY <1>1 DEF StaffInv, HandlerInv
    <2> QED
        BY <1>1, <1>6, <1>9, <1>10, <2>1, UnwrittenStep
<1>12. Counting' = Counting
    <2>1. \A q \in Requests : pc'[q] = "count" <=> pc[q] = "count"
        BY <1>1, <1>6
    <2>2. \A q \in Requests : pc[q] = "count" => local'[q] = local[q]
        BY <1>1, <1>6
    <2> QED
        BY <2>1, <2>2 DEF Counting
<1>13. \A q \in Requests : pc'[q] = "count" => pc[q] = "count" /\ local'[q] = local[q]
    BY <1>1, <1>6
<1>14. CountInv'
    <2>1. DOMAIN counted' = DOMAIN assigned'
        BY <1>7, <1>8 DEF StaffInv, CountInv
    <2>2. \A y \in DOMAIN assigned' : y # x => y \in DOMAIN assigned /\ counted'[y] = counted[y]
        BY <1>7, <1>8 DEF StaffInv, CountInv
    <2>3. ASSUME NEW y \in DOMAIN assigned', NEW a \in counted'[y]
          PROVE  a \in DOMAIN application' /\ application'[a].status # "PENDING"
        BY <1>1, <1>4, <1>8, <2>2 DEF StaffInv, CountInv
    <2>4. ASSUME overtaken' = {}, NEW q \in Requests, pc'[q] = "count"
          PROVE  /\ application'[local'[q].app].status = "APPROVED"
                 /\ \A y \in DOMAIN assigned' : local'[q].app \notin counted'[y]
                 /\ \A z \in Requests : pc'[z] = "count" /\ local'[z].app = local'[q].app => z = q
        <3>1. pc[q] = "count" /\ local'[q] = local[q]
            BY <1>13, <2>4
        <3>2. local[q].app \in Counting
            BY <3>1 DEF Counting
        <3>3. local[q].app \notin old
            BY <1>4, <3>2
        <3>4. \A y \in DOMAIN assigned' : local[q].app \notin counted'[y]
            BY <1>1, <1>8, <2>2, <2>4, <3>1, <3>3 DEF StaffInv, CountInv
        <3> QED
            BY <1>1, <1>13, <2>4, <3>1, <3>4 DEF StaffInv, CountInv
    <2> QED
        BY <2>1, <2>3, <2>4 DEF CountInv
<1>15. BalanceInv'
    <2> SUFFICES ASSUME ~loose', overtaken' = {} PROVE BalanceInv'
        BY DEF BalanceInv
    <2>1. ~loose /\ overtaken = {} /\ Live = {}
        BY <1>1
    <2>2. Live' \subseteq {x}
        BY <1>7, <2>1 DEF Live
    <2>3. Claims' = Claims /\ Applying' = Applying
        <3>1. Applying' = Applying
            BY <1>1, <1>6 DEF Applying
        <3> QED
            BY <1>1, <1>12, <3>1 DEF Claims
    <2>4. /\ \A q \in Applying : Fits(local[q].days) /\ Claims = {}
          /\ \A a \in Claims : Fits(application[a].days)
          /\ \A a, b \in Claims : a = b
          /\ \A q, z \in Applying : q = z
        BY <2>1 DEF StaffInv, BalanceInv
    <2>5. ASSUME NEW days \in SUBSET Days, Fits(days) PROVE Fits(days)'
        <3>1. Cardinality(days) \in Nat
            BY RangeFinite
        <3> QED
            BY <1>1, <1>3, <1>7, <2>2, <2>5, <3>1 DEF Fits
    <2>6. \A y \in Live' : assigned'[y].used <= type'.count
        BY <1>1, <1>3, <1>7, <2>2, Tables DEF StaffInv
    <2>7. ASSUME NEW q \in Applying' PROVE Fits(local[q].days)' /\ Claims' = {}
        <3>1. q \in Applying /\ local'[q] = local[q] /\ Fits(local[q].days) /\ Claims = {}
            BY <1>1, <1>6, <2>3, <2>4 DEF Applying
        <3>2. PICK days \in SUBSET Days : days = local[q].days
            BY <3>1 DEF Applying, StaffInv, TypeOK, Local
        <3>3. Fits(days)' /\ local'[q].days = days
            BY <2>5, <3>1, <3>2
        <3> QED
            BY <2>3, <3>1, <3>3 DEF Fits
    <2>8. ASSUME NEW a \in Claims' PROVE Fits(application[a].days)'
        <3>1. a \in Claims /\ Fits(application[a].days)
            BY <2>3, <2>4
        <3>2. PICK days \in SUBSET Days : days = application[a].days
            BY <3>1, Tables DEF Claims, StaffInv
        <3>3. Fits(days)' /\ application'[a].days = days
            BY <1>1, <2>5, <3>1, <3>2
        <3> QED
            BY <3>3 DEF Fits
    <2> QED
        BY <2>2, <2>3, <2>4, <2>6, <2>7, <2>8 DEF BalanceInv
<1>16. UsedInv'
    <2> SUFFICES ASSUME overtaken' \cup cut' = {}, NEW y \in DOMAIN assigned'
                 PROVE  assigned'[y].used = SumOver(Lengths', Added(y)')
        BY DEF UsedInv
    <2>1. CASE y = x
        <3>1. Added(x)' = {}
            <4> SUFFICES ASSUME NEW a \in Added(x)' PROVE FALSE
                OBVIOUS
            <4>1. /\ a \in DOMAIN application /\ application[a].status = "APPROVED"
                  /\ a \notin Counting /\ a \notin old
                BY <1>1, <1>8, <1>12 DEF Added, Approved
            <4> QED
                BY <1>5, <4>1
        <3> QED
            BY <1>3, <1>7, <2>1, <3>1, SumOverEmpty
    <2>2. CASE y # x
        <3>1. y \in DOMAIN assigned /\ assigned'[y] = assigned[y] /\ counted'[y] = counted[y]
            BY <1>7, <1>8, <2>2 DEF StaffInv, CountInv
        <3>2. Lengths' = Lengths
            BY <1>1 DEF Lengths
        <3>3. Added(y)' = Added(y)
            BY <1>1, <1>12, <3>1 DEF Added, Approved
        <3>4. assigned[y].used = SumOver(Lengths, Added(y))
            BY <1>1, <3>1 DEF StaffInv, UsedInv
        <3> QED
            BY <3>1, <3>2, <3>3, <3>4
    <2> QED
        BY <2>1, <2>2
<1> QED
    BY <1>9, <1>11, <1>14, <1>15, <1>16 DEF StaffInv

LEMMA RevokeAssignedLeaveKeeps ==
    ASSUME StaffInv, started' \in Nat, NEW r \in Requests, NEW x, RevokeAssignedLeave(r, x)
    PROVE  StaffInv'
<1>1. /\ x \in Live /\ assigned' = [assigned EXCEPT ![x] = [assigned[x] EXCEPT !.deleted = TRUE]]
      /\ UNCHANGED <<type, application, attendance, current, cached, pc, local,
                     counted, overtaken, cut, rejected, loose>>
    BY DEF RevokeAssignedLeave, history
<1>2. x \in DOMAIN assigned /\ assigned[x] \in Assigned
    BY <1>1 DEF Live, StaffInv, TypeOK, IsTable
<1>3. PICK p : p = [assigned[x] EXCEPT !.deleted = TRUE]
    OBVIOUS
<1>4. p \in Assigned /\ p.used = assigned[x].used /\ p.deleted = TRUE
    BY <1>2, <1>3 DEF Assigned
<1>5. /\ DOMAIN assigned' = DOMAIN assigned /\ assigned'[x] = p
      /\ \A y \in DOMAIN assigned \ {x} : assigned'[y] = assigned[y]
    BY <1>1, <1>2, <1>3
<1>6. TypeOK'
    <2>1. IsTable(assigned', Assignments, Assigned)
        <3>1. assigned' = [y \in DOMAIN assigned |-> IF y = x THEN p ELSE assigned[y]]
            BY <1>1, <1>3
        <3> QED
            BY <1>4, <3>1 DEF StaffInv, TypeOK, IsTable
    <2> QED
        BY <1>1, <1>5, <2>1 DEF StaffInv, TypeOK
<1>7. \A y \in DOMAIN assigned : assigned'[y].used = assigned[y].used
    BY <1>4, <1>5
<1>8. \A q \in Requests : HandlerInv(q)'
    BY <1>1 DEF StaffInv, HandlerInv
<1>9. OnRecordInv'
    BY <1>1 DEF StaffInv, OnRecordInv
<1>10. CountInv'
    BY <1>1, <1>5 DEF StaffInv, CountInv
<1>11. BalanceInv'
    <2>1. Claims' = Claims /\ Applying' = Applying /\ Counting' = Counting
        BY <1>1 DEF Claims, Applying, Counting
    <2>2. \A y \in Live' : y \in Live /\ assigned'[y].used = assigned[y].used
        BY <1>4, <1>5 DEF Live
    <2>3. type.count <= type'.count
        BY <1>1, Tables DEF StaffInv
    <2> QED
        BY <1>1, <1>6, <2>1, <2>2, <2>3, BalanceKeeps DEF StaffInv
<1>12. UsedInv'
    <2>1. \A y \in DOMAIN assigned : Added(y)' = Added(y)
        BY <1>1 DEF Added, Approved, Counting
    <2> QED
        BY <1>1, <1>5, <1>7, <2>1, UsedKeeps DEF StaffInv
<1> QED
    BY <1>6, <1>8, <1>9, <1>10, <1>11, <1>12 DEF StaffInv

\* What a decision writes.
LEMMA DecidedWrites ==
    ASSUME StaffInv, NEW a \in DOMAIN application, NEW to \in Status, Decided(a, to)
    PROVE  /\ DOMAIN application' = DOMAIN application
           /\ \A b \in DOMAIN application : /\ application'[b].kind = application[b].kind
                                            /\ application'[b].days = application[b].days
           /\ application'[a].status = to
           /\ \A b \in DOMAIN application \ {a} : application'[b] = application[b]
           /\ IsTable(application', Applications, Application)
           /\ overtaken \subseteq overtaken' /\ overtaken' \subseteq Applications
           /\ overtaken' = {} => overtaken = {} /\ application[a].status = "PENDING"
           /\ rejected \subseteq rejected' /\ rejected' \subseteq DOMAIN application
           /\ to = "REJECTED" => a \in rejected'
           /\ UNCHANGED <<type, assigned, attendance, current, cached, counted, loose>>
<1>1. application[a] \in Application /\ a \in Applications
    BY Tables DEF StaffInv
<1>2. PICK p : p = [application[a] EXCEPT !.status = to]
    OBVIOUS
<1>3. /\ p \in Application /\ p.status = to
      /\ p.kind = application[a].kind /\ p.days = application[a].days
    BY <1>1, <1>2 DEF Application
<1>4. application' = [b \in DOMAIN application |-> IF b = a THEN p ELSE application[b]]
    BY <1>2 DEF Decided
<1>5. /\ DOMAIN application' = DOMAIN application /\ application'[a] = p
      /\ \A b \in DOMAIN application \ {a} : application'[b] = application[b]
    BY <1>4
<1>6. IsTable(application', Applications, Application)
    BY <1>3, <1>4 DEF StaffInv, TypeOK, IsTable
<1>7. /\ overtaken \subseteq overtaken' /\ overtaken' \subseteq Applications
      /\ overtaken' = {} => overtaken = {} /\ application[a].status = "PENDING"
    BY <1>1 DEF Decided, StaffInv, TypeOK
<1>8. /\ rejected \subseteq rejected' /\ rejected' \subseteq DOMAIN application
      /\ to = "REJECTED" => a \in rejected'
    BY DEF Decided, StaffInv, OnRecordInv
<1>9. UNCHANGED <<type, assigned, attendance, current, cached, counted, loose>>
    BY DEF Decided
<1>10. \A b \in DOMAIN application : /\ application'[b].kind = application[b].kind
                                     /\ application'[b].days = application[b].days
    BY <1>3, <1>5
<1> QED
    BY <1>3, <1>5, <1>6, <1>7, <1>8, <1>9, <1>10

\* The handlers and the record after a decision, which its handler has yet to write.
LEMMA DecidedStep ==
    ASSUME StaffInv, NEW r \in Requests, pc[r] \in {"idle", "update"},
           NEW a \in DOMAIN application, NEW to \in {"APPROVED", "REJECTED", "CANCELLED"},
           Decided(a, to), cut \subseteq cut', HandlerInv(r)', pc'[r] # "apply",
           \A q \in Requests \ {r} : pc'[q] = pc[q] /\ local'[q] = local[q],
           to = "APPROVED" => \A d \in application[a].days : Covers(r, a, d)'
    PROVE  (\A q \in Requests : HandlerInv(q)') /\ OnRecordInv'
<1>1. to \in Status
    BY DEF Status
<1>2. /\ DOMAIN application' = DOMAIN application
      /\ \A b \in DOMAIN application : /\ application'[b].kind = application[b].kind
                                       /\ application'[b].days = application[b].days
      /\ application'[a].status = to
      /\ \A b \in DOMAIN application \ {a} : application'[b] = application[b]
      /\ rejected \subseteq rejected' /\ rejected' \subseteq DOMAIN application
      /\ UNCHANGED attendance
    BY <1>1, DecidedWrites
<1>3. \A q \in Requests : HandlerInv(q)'
    <2>1. \A q \in Requests \ {r} : pc[q] = "apply" => local[q].app \notin DOMAIN application'
        BY <1>2 DEF StaffInv, HandlerInv
    <2> QED
        BY <1>2, <2>1, HandlersKeep DEF StaffInv
<1>4. OnRecordInv'
    <2>1. \A b \in DOMAIN application' : application'[b].status = "APPROVED" =>
               \/ b \in DOMAIN application /\ application[b].status = "APPROVED"
               \/ \A d \in application'[b].days : Covers(r, b, d)'
        BY <1>2
    <2>2. \A d \in Days : Shown(d) => Shown(d)'
        BY <1>2 DEF Shown
    <2>3. \A b \in DOMAIN application : \A d \in Days : ~Covers(r, b, d)
        BY DEF Covers
    <2>4. \A b \in DOMAIN application : application[b].days \subseteq Days
        BY Tables DEF StaffInv
    <2> QED
        BY <1>2, <2>1, <2>2, <2>3, <2>4, RecordKeeps DEF StaffInv
<1> QED
    BY <1>3, <1>4

LEMMA ReviewTeacherLeaveKeeps ==
    ASSUME StaffInv, started' \in Nat, NEW r \in Requests, NEW a \in Applications,
           NEW to \in {"APPROVED", "REJECTED"}, ReviewTeacherLeave(r, a, to)
    PROVE  StaffInv'
<1> DEFINE l == [Nothing EXCEPT !.app = a, !.to = to, !.days = application[a].days]
<1>1. /\ pc[r] = "idle" /\ a \in DOMAIN application /\ application[a].kind = "teacher"
      /\ Decided(a, to) /\ Goto(r, "sync", l) /\ UNCHANGED cut
    BY DEF ReviewTeacherLeave
<1>2. to \in Status /\ to # "PENDING"
    BY DEF Status
<1>3. /\ DOMAIN application' = DOMAIN application
      /\ \A b \in DOMAIN application : /\ application'[b].kind = application[b].kind
                                       /\ application'[b].days = application[b].days
      /\ application'[a].status = to
      /\ \A b \in DOMAIN application \ {a} : application'[b] = application[b]
      /\ IsTable(application', Applications, Application)
      /\ overtaken \subseteq overtaken' /\ overtaken' \subseteq Applications
      /\ rejected' \subseteq DOMAIN application /\ (to = "REJECTED" => a \in rejected')
      /\ UNCHANGED <<type, assigned, attendance, current, cached, counted, loose>>
    BY <1>1, <1>2, DecidedWrites
<1>4. application[a].days \in SUBSET Days /\ application[a].days # {}
    BY <1>1, Tables, RangesDays DEF StaffInv
<1>5. /\ l \in Local /\ l.app = a /\ l.to = to /\ l.days = application[a].days
      /\ "sync" \in Steps
    BY <1>2, <1>4, NothingTyped DEF Local, Nothing, Steps
<1> HIDE DEF l
<1>6. /\ pc' \in [Requests -> Steps] /\ local' \in [Requests -> Local]
      /\ pc'[r] = "sync" /\ local'[r] = l
      /\ \A q \in Requests \ {r} : pc'[q] = pc[q] /\ local'[q] = local[q]
    BY <1>1, <1>5, Gone DEF StaffInv
<1>7. TypeOK'
    <2>1. rejected' \subseteq Applications
        BY <1>3, Tables DEF StaffInv
    <2> QED
        BY <1>1, <1>3, <1>6, <2>1 DEF StaffInv, TypeOK
<1>8. HandlerInv(r)'
    BY <1>1, <1>3, <1>4, <1>5, <1>6 DEF HandlerInv
<1>9. (\A q \in Requests : HandlerInv(q)') /\ OnRecordInv'
    <2>1. to = "APPROVED" => \A d \in application[a].days : Covers(r, a, d)'
        BY <1>5, <1>6 DEF Covers
    <2> QED
        BY <1>1, <1>6, <1>8, <2>1, DecidedStep
<1>10. Counting' = Counting
    <2>1. \A q \in Requests : pc'[q] = "count" <=> pc[q] = "count"
        BY <1>1, <1>6
    <2>2. \A q \in Requests : pc[q] = "count" => local'[q] = local[q]
        BY <1>1, <1>6
    <2> QED
        BY <2>1, <2>2 DEF Counting
<1>11. CountInv'
    <2>1. ASSUME NEW q \in Requests, pc'[q] = "count"
          PROVE  /\ pc[q] = "count" /\ local'[q] = local[q]
                 /\ application'[local[q].app].status = application[local[q].app].status
        <3>1. pc[q] = "count" /\ local'[q] = local[q]
            BY <1>1, <1>6, <2>1
        <3>2. local[q].app \in DOMAIN application /\ application[local[q].app].kind = "employee"
            BY <3>1 DEF StaffInv, HandlerInv
        <3> QED
            BY <1>1, <1>3, <3>1, <3>2
    <2>2. \A b \in DOMAIN application :
            application[b].status # "PENDING" => application'[b].status # "PENDING"
        BY <1>2, <1>3
    <2> QED
        BY <1>3, <2>1, <2>2, CountKeeps DEF StaffInv
<1>12. BalanceInv'
    <2>1. ASSUME NEW b \in Claims'
          PROVE  b \in Claims /\ application'[b].days = application[b].days
        <3>1. b # a /\ b \in DOMAIN application
            BY <1>1, <1>3 DEF Claims
        <3> QED
            BY <1>3, <1>10, <3>1 DEF Claims
    <2>2. \A q \in Applying' : q \in Applying /\ local'[q].days = local[q].days
        BY <1>6 DEF Applying
    <2>3. Live' = Live /\ type.count <= type'.count
        BY <1>3, Tables DEF Live, StaffInv
    <2> QED
        BY <1>3, <1>7, <2>1, <2>2, <2>3, BalanceKeeps DEF StaffInv
<1>13. UsedInv'
    <2>1. Approved("employee")' = Approved("employee")
        BY <1>1, <1>3 DEF Approved
    <2>2. \A x \in DOMAIN assigned : Added(x)' = Added(x)
        BY <1>3, <1>10, <2>1 DEF Added
    <2> QED
        BY <1>1, <1>3, <2>2, UsedKeeps DEF StaffInv
<1> QED
    BY <1>7, <1>9, <1>11, <1>12, <1>13 DEF StaffInv

LEMMA UpdateApplicationKeeps ==
    ASSUME StaffInv, started' \in Nat, NEW r \in Requests, UpdateApplication(r)
    PROVE  StaffInv'
<1>0. PICK l : l = local[r]
    OBVIOUS
<1>1. PICK a, to : a = l.app /\ to = l.to
    OBVIOUS
<1>2. /\ pc[r] = "update" /\ Decided(a, to)
      /\ \/ to = "APPROVED" /\ Goto(r, "count", l) /\ UNCHANGED cut
         \/ to = "REJECTED" /\ Sync(r, l)
         \/ to = "CANCELLED" /\ Goto(r, "bust", l) /\ UNCHANGED cut
    BY <1>0, <1>1 DEF UpdateApplication
<1>3. /\ l \in Local /\ a \in DOMAIN application /\ application[a].kind = "employee"
      /\ l.days = application[a].days /\ to \in {"APPROVED", "REJECTED", "CANCELLED"}
    BY <1>0, <1>1, <1>2 DEF StaffInv, TypeOK, HandlerInv
<1>4. to \in Status /\ to # "PENDING"
    BY <1>3 DEF Status
<1>5. /\ DOMAIN application' = DOMAIN application
      /\ \A b \in DOMAIN application : /\ application'[b].kind = application[b].kind
                                       /\ application'[b].days = application[b].days
      /\ application'[a].status = to
      /\ \A b \in DOMAIN application \ {a} : application'[b] = application[b]
      /\ IsTable(application', Applications, Application)
      /\ overtaken \subseteq overtaken' /\ overtaken' \subseteq Applications
      /\ overtaken' = {} => overtaken = {} /\ application[a].status = "PENDING"
      /\ rejected' \subseteq DOMAIN application /\ (to = "REJECTED" => a \in rejected')
      /\ UNCHANGED <<type, assigned, attendance, current, cached, counted, loose>>
    BY <1>2, <1>3, <1>4, DecidedWrites
<1>6. {"count", "sync", "bust"} \subseteq Steps
    BY DEF Steps
<1>7. /\ pc' \in [Requests -> Steps] /\ local' \in [Requests -> Local] /\ local'[r] = l
      /\ \/ to = "APPROVED" /\ pc'[r] = "count" /\ cut' = cut
         \/ to = "REJECTED" /\ pc'[r] = "sync" /\ cut' = cut
         \/ to # "APPROVED" /\ pc'[r] = "bust" /\ (cut' = cut \/ cut' = cut \cup {a})
      /\ \A q \in Requests \ {r} : pc'[q] = pc[q] /\ local'[q] = local[q]
    <2>1. CASE to = "APPROVED" /\ Goto(r, "count", l) /\ UNCHANGED cut
        BY <1>3, <1>6, <2>1, Gone DEF StaffInv
    <2>2. CASE to = "REJECTED" /\ Sync(r, l)
        <3>1. CASE current
            <4>1. Goto(r, "sync", l) /\ cut' = cut
                BY <2>2, <3>1 DEF Sync
            <4> QED
                BY <1>3, <1>6, <2>2, <4>1, Gone DEF StaffInv
        <3>2. CASE ~current
            <4>1. Goto(r, "bust", l) /\ cut' = cut \cup {a}
                BY <1>1, <2>2, <3>2 DEF Sync
            <4> QED
                BY <1>3, <1>6, <2>2, <4>1, Gone DEF StaffInv
        <3> QED
            BY <3>1, <3>2
    <2>3. CASE to = "CANCELLED" /\ Goto(r, "bust", l) /\ UNCHANGED cut
        BY <1>3, <1>6, <2>3, Gone DEF StaffInv
    <2> QED
        BY <1>2, <2>1, <2>2, <2>3
<1>8. TypeOK'
    <2>1. rejected' \subseteq Applications /\ cut' \subseteq Applications
        BY <1>3, <1>5, <1>7, Tables DEF StaffInv, TypeOK
    <2> QED
        BY <1>5, <1>7, <2>1 DEF StaffInv, TypeOK
<1>9. HandlerInv(r)'
    <2>1. l.days # {}
        BY <1>3, Tables, RangesDays DEF StaffInv
    <2> QED
        BY <1>1, <1>3, <1>5, <1>7, <2>1 DEF HandlerInv
<1>10. (\A q \in Requests : HandlerInv(q)') /\ OnRecordInv'
    <2>1. to = "APPROVED" => \A d \in application[a].days : Covers(r, a, d)'
        BY <1>1, <1>3, <1>7 DEF Covers
    <2> QED
        BY <1>2, <1>3, <1>7, <1>9, <2>1, DecidedStep
<1>11. Counting' = Counting \cup (IF to = "APPROVED" THEN {a} ELSE {})
    <2>1. \A q \in Requests \ {r} : pc'[q] = "count" <=> pc[q] = "count"
        BY <1>7
    <2>2. \A q \in Requests \ {r} : local'[q] = local[q]
        BY <1>7
    <2>3. pc[r] # "count" /\ (pc'[r] = "count" <=> to = "APPROVED") /\ local'[r].app = a
        BY <1>1, <1>2, <1>7
    <2> QED
        BY <2>1, <2>2, <2>3 DEF Counting
<1>12. CountInv'
    <2>1. \A x \in DOMAIN assigned' : \A b \in counted'[x] :
            b \in DOMAIN application' /\ application'[b].status # "PENDING"
        BY <1>4, <1>5 DEF StaffInv, CountInv
    <2>2. ASSUME overtaken' = {}
          PROVE  /\ application[a].status = "PENDING"
                 /\ \A x \in DOMAIN assigned : a \notin counted[x]
                 /\ \A q \in Requests : pc[q] = "count" => local[q].app # a
        BY <1>5, <2>2 DEF StaffInv, CountInv
    <2>3. ASSUME overtaken' = {}, NEW q \in Requests, pc'[q] = "count"
          PROVE  /\ application'[local'[q].app].status = "APPROVED"
                 /\ \A x \in DOMAIN assigned' : local'[q].app \notin counted'[x]
                 /\ \A z \in Requests : pc'[z] = "count" /\ local'[z].app = local'[q].app => z = q
        <3>1. CASE q = r
            <4>1. to = "APPROVED" /\ local'[q].app = a
                BY <1>1, <1>7, <2>3, <3>1
            <4>2. \A z \in Requests \ {r} : pc'[z] = "count" => local'[z].app # a
                BY <1>7, <2>2, <2>3
            <4> QED
                BY <1>5, <2>2, <2>3, <3>1, <4>1, <4>2
        <3>2. CASE q # r
            <4>1. pc[q] = "count" /\ local'[q] = local[q] /\ local[q].app # a
                BY <1>7, <2>2, <2>3, <3>2
            <4>2. /\ local[q].app \in DOMAIN application
                  /\ application[local[q].app].status = "APPROVED"
                  /\ \A x \in DOMAIN assigned : local[q].app \notin counted[x]
                  /\ \A z \in Requests : pc[z] = "count" /\ local[z].app = local[q].app => z = q
                BY <1>5, <2>3, <4>1 DEF StaffInv, CountInv, HandlerInv
            <4>3. \A z \in Requests : pc'[z] = "count" /\ local'[z].app = local[q].app => z = q
                BY <1>1, <1>7, <4>1, <4>2
            <4> QED
                BY <1>5, <4>1, <4>2, <4>3
        <3> QED
            BY <3>1, <3>2
    <2>4. DOMAIN counted' = DOMAIN assigned'
        BY <1>5 DEF StaffInv, CountInv
    <2> QED
        BY <2>1, <2>3, <2>4 DEF CountInv
<1>13. BalanceInv'
    <2>1. ASSUME overtaken' = {}, NEW b \in Claims'
          PROVE  b \in Claims /\ application'[b].days = application[b].days
        <3>1. b \in DOMAIN application
            BY <1>5 DEF Claims
        <3>2. CASE b = a
            BY <1>3, <1>5, <2>1, <3>1, <3>2 DEF Claims
        <3>3. CASE b # a
            BY <1>5, <1>11, <3>1, <3>3 DEF Claims
        <3> QED
            BY <3>2, <3>3
    <2>2. \A q \in Applying' : q \in Applying /\ local'[q].days = local[q].days
        BY <1>7 DEF Applying
    <2>3. Live' = Live /\ type.count <= type'.count
        BY <1>5, Tables DEF Live, StaffInv
    <2> QED
        BY <1>5, <1>8, <2>1, <2>2, <2>3, BalanceKeeps DEF StaffInv
<1>14. UsedInv'
    <2>1. ASSUME overtaken' \cup cut' = {}, NEW x \in DOMAIN assigned PROVE Added(x)' = Added(x)
        <3>1. application[a].status = "PENDING"
            BY <1>5, <2>1
        <3>2. Approved("employee")' = Approved("employee") \cup (IF to = "APPROVED" THEN {a} ELSE {})
            BY <1>3, <1>5, <3>1 DEF Approved
        <3>3. a \notin Approved("employee") /\ counted' = counted
            BY <1>5, <3>1 DEF Approved
        <3> QED
            BY <1>11, <3>2, <3>3 DEF Added
    <2>2. cut \subseteq cut'
        BY <1>7
    <2> QED
        BY <1>5, <2>1, <2>2, UsedKeeps DEF StaffInv
<1> QED
    BY <1>8, <1>10, <1>12, <1>13, <1>14 DEF StaffInv

LEMMA IncrementUsedDaysKeeps ==
    ASSUME StaffInv, started' \in Nat, NEW r \in Requests, IncrementUsedDays(r)
    PROVE  StaffInv'
<1>0. PICK l : l = local[r]
    OBVIOUS
<1>1. PICK a, n : a = l.app /\ n = Cardinality(l.days)
    OBVIOUS
<1>2. /\ pc[r] = "count" /\ Sync(r, l)
      /\ assigned' = [x \in DOMAIN assigned |-> [assigned[x] EXCEPT !.used = @ + n]]
      /\ UNCHANGED <<type, application, attendance, current, cached,
                     counted, overtaken, rejected, loose>>
    BY <1>0, <1>1 DEF IncrementUsedDays
<1>3. /\ l \in Local /\ a \in DOMAIN application /\ application[a].kind = "employee"
      /\ l.days = application[a].days /\ l.to = "APPROVED"
    BY <1>0, <1>1, <1>2 DEF StaffInv, TypeOK, HandlerInv
<1>4. n \in Nat /\ n = Cardinality(application[a].days) /\ l.days # {} /\ a \in Applications
    BY <1>1, <1>3, Tables, RangesDays DEF StaffInv
<1>5. {"sync", "bust"} \subseteq Steps
    BY DEF Steps
<1>6. /\ pc' \in [Requests -> Steps] /\ local' \in [Requests -> Local] /\ local'[r] = l
      /\ \/ pc'[r] = "sync" /\ cut' = cut
         \/ pc'[r] = "bust" /\ cut' = cut \cup {a}
      /\ \A q \in Requests \ {r} : pc'[q] = pc[q] /\ local'[q] = local[q]
    <2>1. CASE current
        <3>1. Goto(r, "sync", l) /\ cut' = cut
            BY <1>2, <2>1 DEF Sync
        <3> QED
            BY <1>3, <1>5, <3>1, Gone DEF StaffInv
    <2>2. CASE ~current
        <3>1. Goto(r, "bust", l) /\ cut' = cut \cup {a}
            BY <1>1, <1>2, <2>2 DEF Sync
        <3> QED
            BY <1>3, <1>5, <3>1, Gone DEF StaffInv
    <2> QED
        BY <2>1, <2>2
<1>7. /\ DOMAIN assigned' = DOMAIN assigned
      /\ \A x \in DOMAIN assigned : /\ assigned[x] \in Assigned /\ assigned'[x] \in Assigned
                                    /\ assigned'[x].used = assigned[x].used + n
                                    /\ assigned'[x].deleted = assigned[x].deleted
    <2>1. DOMAIN assigned' = DOMAIN assigned
        BY <1>2
    <2>2. ASSUME NEW x \in DOMAIN assigned
          PROVE  /\ assigned[x] \in Assigned /\ assigned'[x] \in Assigned
                 /\ assigned'[x].used = assigned[x].used + n
                 /\ assigned'[x].deleted = assigned[x].deleted
        <3>1. assigned[x] \in Assigned
            BY DEF StaffInv, TypeOK, IsTable
        <3>2. assigned'[x] = [assigned[x] EXCEPT !.used = assigned[x].used + n]
            BY <1>2
        <3> QED
            BY <1>4, <3>1, <3>2 DEF Assigned
    <2> QED
        BY <2>1, <2>2
<1>8. TypeOK'
    <2>1. IsTable(assigned', Assignments, Assigned)
        BY <1>2, <1>7 DEF StaffInv, TypeOK, IsTable
    <2>2. cut' \subseteq Applications
        BY <1>4, <1>6 DEF StaffInv, TypeOK
    <2> QED
        BY <1>2, <1>6, <1>7, <2>1, <2>2 DEF StaffInv, TypeOK
<1>9. HandlerInv(r)'
    BY <1>1, <1>2, <1>3, <1>4, <1>6 DEF HandlerInv
<1>10. \A q \in Requests : HandlerInv(q)'
    <2>1. \A q \in Requests \ {r} : pc[q] = "apply" => local[q].app \notin DOMAIN application'
        BY <1>2 DEF StaffInv, HandlerInv
    <2>2. pc'[r] # "apply"
        BY <1>6
    <2> QED
        BY <1>2, <1>6, <1>9, <2>1, <2>2, HandlersKeep DEF StaffInv
<1>11. OnRecordInv'
    <2>1. ASSUME NEW b \in DOMAIN application, NEW d \in Days, Covers(r, b, d)
          PROVE  Covers(r, b, d)' \/ b \in cut'
        BY <1>0, <1>1, <1>6, <2>1 DEF Covers
    <2>2. \A d \in Days : Shown(d) => Shown(d)'
        BY <1>2 DEF Shown
    <2>3. \A b \in DOMAIN application : application[b].days \subseteq Days
        BY Tables DEF StaffInv
    <2>4. rejected' \subseteq DOMAIN application' /\ cut \subseteq cut'
        BY <1>2, <1>6 DEF StaffInv, OnRecordInv
    <2> QED
        BY <1>2, <1>6, <2>1, <2>2, <2>3, <2>4, RecordKeeps DEF StaffInv
<1>12. \A q \in Requests : pc'[q] = "count" => q # r /\ pc[q] = "count" /\ local'[q] = local[q]
    BY <1>6
<1>13. CountInv'
    BY <1>2, <1>7, <1>12, CountKeeps DEF StaffInv
<1>14. ASSUME overtaken = {}
       PROVE  /\ application[a].status = "APPROVED"
              /\ \A x \in DOMAIN assigned : a \notin counted[x]
              /\ \A q \in Requests : pc[q] = "count" /\ local[q].app = a => q = r
    BY <1>0, <1>1, <1>2, <1>14 DEF StaffInv, CountInv
<1>15. a \in Counting /\ Counting' \subseteq Counting /\ Counting \ {a} \subseteq Counting'
    <2>1. a \in Counting
        BY <1>0, <1>1, <1>2 DEF Counting
    <2>2. Counting' \subseteq Counting
        BY <1>12 DEF Counting
    <2>3. ASSUME NEW b \in Counting, b # a PROVE b \in Counting'
        <3>1. PICK q \in Requests : pc[q] = "count" /\ b = local[q].app
            BY DEF Counting
        <3>2. q # r
            BY <1>0, <1>1, <2>3, <3>1
        <3>3. pc'[q] = "count" /\ local'[q].app = b
            BY <1>6, <3>1, <3>2
        <3> QED
            BY <3>3 DEF Counting
    <2> QED
        BY <2>1, <2>2, <2>3
<1>16. ASSUME overtaken = {} PROVE a \notin Counting'
    BY <1>12, <1>14, <1>16 DEF Counting
<1>17. BalanceInv'
    <2> SUFFICES ASSUME ~loose', overtaken' = {} PROVE BalanceInv'
        BY DEF BalanceInv
    <2>1. overtaken = {} /\ ~loose
        BY <1>2
    <2>2. /\ \A x, y \in Live : x = y
          /\ \A q \in Applying : Claims = {}
          /\ \A b \in Claims : Fits(application[b].days)
          /\ \A b, c \in Claims : b = c
        BY <2>1 DEF StaffInv, BalanceInv
    <2>3. a \in Claims
        BY <1>3, <1>15 DEF Claims
    <2>4. Applying' = {}
        <3>1. Applying = {}
            BY <2>2, <2>3
        <3> QED
            BY <1>6, <3>1 DEF Applying
    <2>5. Claims' = {}
        <3> SUFFICES ASSUME NEW b \in Claims' PROVE FALSE
            OBVIOUS
        <3>1. b \in Claims
            BY <1>2, <1>15 DEF Claims
        <3>2. b = a
            BY <2>2, <2>3, <3>1
        <3>3. application[a].status # "PENDING" /\ a \notin Counting'
            BY <1>14, <1>16, <2>1
        <3> QED
            BY <1>2, <3>2, <3>3 DEF Claims
    <2>6. Live' = Live
        BY <1>7 DEF Live
    <2>7. \A x \in Live' : assigned'[x].used <= type'.count
        <3>1. \A x \in Live : assigned[x].used + n <= type.count
            BY <1>4, <2>2, <2>3 DEF Fits
        <3>2. \A x \in Live : assigned'[x].used = assigned[x].used + n
            BY <1>7 DEF Live
        <3> QED
            BY <1>2, <2>6, <3>1, <3>2
    <2> QED
        BY <2>2, <2>4, <2>5, <2>6, <2>7 DEF BalanceInv
<1>18. UsedInv'
    <2> SUFFICES ASSUME overtaken' \cup cut' = {}, NEW x \in DOMAIN assigned
                 PROVE  assigned'[x].used = SumOver(Lengths', Added(x)')
        BY <1>7 DEF UsedInv
    <2>1. overtaken = {} /\ cut = {}
        BY <1>2, <1>6
    <2>2. /\ IsFiniteSet(Added(x)') /\ \A b \in Added(x)' : Lengths'[b] \in Int
          /\ Lengths' = Lengths
        <3>1. Lengths' = Lengths
            BY <1>2 DEF Lengths
        <3>2. Added(x)' \subseteq DOMAIN application
            BY <1>2 DEF Added, Approved
        <3>3. IsFiniteSet(Added(x)')
            BY <3>2, Tables, FS_Subset DEF StaffInv
        <3>4. \A b \in DOMAIN application : Lengths[b] \in Int
            BY Tables DEF Lengths, StaffInv
        <3> QED
            BY <3>1, <3>2, <3>3, <3>4
    <2>3. a \in Added(x)'
        BY <1>2, <1>3, <1>14, <1>16, <2>1 DEF Added, Approved
    <2>4. Added(x)' \ {a} = Added(x)
        BY <1>2, <1>15 DEF Added, Approved
    <2>5. SumOver(Lengths, Added(x)') = SumOver(Lengths, Added(x)) + Lengths[a]
        <3>1. PICK S : S = Added(x)'
            OBVIOUS
        <3>2. SumOver(Lengths, S) = SumOver(Lengths, S \ {a}) + Lengths[a]
            BY <2>2, <2>3, <3>1, SumOverAny
        <3> QED
            BY <2>4, <3>1, <3>2
    <2>6. assigned[x].used = SumOver(Lengths, Added(x))
        BY <2>1 DEF StaffInv, UsedInv
    <2>7. assigned'[x].used = assigned[x].used + n /\ Lengths[a] = n
        BY <1>3, <1>4, <1>7 DEF Lengths
    <2> QED
        BY <2>2, <2>5, <2>6, <2>7
<1> QED
    BY <1>8, <1>10, <1>11, <1>13, <1>17, <1>18 DEF StaffInv

LEMMA InitStaff == Init => StaffInv
<1> SUFFICES ASSUME Init PROVE StaffInv
    OBVIOUS
<1>1. PICK x \in Assignments : assigned = [y \in {x} |-> [used |-> 0, deleted |-> FALSE]]
    BY DEF Init
<1>2. /\ type = [count |-> Cardinality(Days), enabled |-> TRUE]
      /\ application = << >> /\ attendance = << >> /\ cached = << >>
      /\ current = TRUE /\ started = 0
      /\ pc = [r \in Requests |-> "idle"] /\ local = [r \in Requests |-> Nothing]
      /\ counted = [y \in DOMAIN assigned |-> {}]
      /\ overtaken = {} /\ cut = {} /\ rejected = {} /\ loose = FALSE
    BY DEF Init
<1>3. DOMAIN assigned = {x} /\ assigned[x].used = 0 /\ ~assigned[x].deleted
    BY <1>1
<1>4. Cardinality(Days) \in Nat
    BY LeaveAssumption, FS_CardinalityType
<1>5. DOMAIN application = {} /\ Counting = {} /\ Applying = {}
    BY <1>2, EmptyTable DEF Counting, Applying
<1>6. TypeOK
    <2>1. IsTable(assigned, Assignments, Assigned)
        BY <1>1 DEF IsTable, Assigned
    <2>2. /\ IsTable(application, Applications, Application)
          /\ IsTable(attendance, Days, Record) /\ IsTable(cached, Applications, Status)
        BY <1>2, EmptyTable
    <2>3. IsTable(counted, DOMAIN assigned, SUBSET Applications)
        BY <1>2 DEF IsTable
    <2>4. pc \in [Requests -> Steps] /\ local \in [Requests -> Local]
        BY <1>2, NothingTyped DEF Steps
    <2>5. type \in [count : Nat, enabled : BOOLEAN]
        BY <1>2, <1>4
    <2> QED
        BY <1>2, <2>1, <2>2, <2>3, <2>4, <2>5 DEF TypeOK
<1>7. \A r \in Requests : HandlerInv(r)
    BY <1>2 DEF HandlerInv
<1>8. OnRecordInv
    BY <1>2, <1>5 DEF OnRecordInv
<1>9. CountInv
    BY <1>2 DEF CountInv
<1>10. BalanceInv
    <2>1. Claims = {} /\ Live = {x}
        BY <1>3, <1>5 DEF Claims, Live
    <2> QED
        BY <1>2, <1>3, <1>4, <1>5, <2>1 DEF BalanceInv
<1>11. UsedInv
    <2>1. \A y : Added(y) = {}
        BY <1>5 DEF Added, Approved
    <2> QED
        BY <1>3, <2>1, SumOverEmpty DEF UsedInv
<1> QED
    BY <1>6, <1>7, <1>8, <1>9, <1>10, <1>11 DEF StaffInv

LEMMA StaffNext == StaffInv /\ Next => StaffInv'
<1> SUFFICES ASSUME StaffInv, Next PROVE StaffInv'
    OBVIOUS
<1>1. started \in Nat
    BY DEF StaffInv, TypeOK
<1>2. CASE Rest
    <2>1. /\ UNCHANGED <<type, assigned, application, attendance, pc, local, history>>
          /\ UNCHANGED <<cached, current, started>>
        BY <1>2 DEF Rest, vars, history
    <2> QED
        BY <2>1, StaffRests DEF StaffInv, TypeOK
<1>3. CASE started < MaxStarted /\ Start /\ started' = started + 1
    <2>0. started' \in Nat
        BY <1>1, <1>3
    <2>1. CASE \E r \in Requests : HandlerFails(r)
        BY <2>0, <2>1, HandlerFailsKeeps
    <2>2. CASE \E a \in Applications : CacheExpires(a)
        BY <2>0, <2>2, CacheExpiresKeeps
    <2>3. CASE SetCurrentYear
        BY <2>0, <2>3, SetCurrentYearKeeps
    <2>4. ASSUME NEW r \in Requests, NEW count \in 0..Cardinality(Days), NEW enabled \in BOOLEAN,
                 UpdateType(r, count, enabled)
          PROVE  StaffInv'
        BY <2>0, <2>4, UpdateTypeKeeps
    <2>5. ASSUME NEW r \in Requests, NEW x \in Assignments,
                 AssignLeave(r, x) \/ RevokeAssignedLeave(r, x)
          PROVE  StaffInv'
        BY <2>0, <2>5, AssignLeaveKeeps, RevokeAssignedLeaveKeeps
    <2>6. ASSUME NEW r \in Requests, NEW a \in Applications, NEW days \in Ranges,
                 ApplyLeave(r, a, days) \/ ApplyTeacherLeave(r, a, days)
          PROVE  StaffInv'
        BY <2>0, <2>6, ApplyLeaveKeeps, ApplyTeacherLeaveKeeps
    <2>7. ASSUME NEW r \in Requests, NEW a \in Applications, NEW to \in {"APPROVED", "REJECTED"},
                 ReviewTeacherLeave(r, a, to)
          PROVE  StaffInv'
        BY <2>0, <2>7, ReviewTeacherLeaveKeeps
    <2>8. ASSUME NEW r \in Requests, NEW a \in Applications, NEW to \in Status \ {"PENDING"},
                 FindApplication(r, a, to)
          PROVE  StaffInv'
        BY <2>0, <2>8, FindApplicationKeeps
    <2>9. ASSUME NEW r \in Requests, NEW d \in Days, Mark(r, d) \/ ResolveTap(r, d)
          PROVE  StaffInv'
        BY <2>0, <2>9, MarkKeeps, ResolveTapKeeps
    <2> QED
        BY <1>3, <2>1, <2>2, <2>3, <2>4, <2>5, <2>6, <2>7, <2>8, <2>9 DEF Start
<1>4. ASSUME NEW r \in Requests, Continue(r), UNCHANGED started PROVE StaffInv'
    <2>0. started' \in Nat
        BY <1>1, <1>4
    <2>1. CASE CreateAssignment(r)
        BY <2>0, <2>1, CreateAssignmentKeeps
    <2>2. CASE CreateApplication(r)
        BY <2>0, <2>2, CreateApplicationKeeps
    <2>3. CASE StoreApplication(r)
        BY <2>0, <2>3, StoreApplicationKeeps
    <2>4. CASE UpdateApplication(r)
        BY <2>0, <2>4, UpdateApplicationKeeps
    <2>5. CASE IncrementUsedDays(r)
        BY <2>0, <2>5, IncrementUsedDaysKeeps
    <2>6. CASE SyncDay(r)
        BY <2>0, <2>6, SyncDayKeeps
    <2>7. CASE BustCache(r)
        BY <2>0, <2>7, BustCacheKeeps
    <2>8. CASE InsertTap(r)
        BY <2>0, <2>8, InsertTapKeeps
    <2> QED
        BY <1>4, <2>1, <2>2, <2>3, <2>4, <2>5, <2>6, <2>7, <2>8 DEF Continue
<1> QED
    BY <1>2, <1>3, <1>4 DEF Next

(***************************************************************************)
(* The student.                                                            *)
(***************************************************************************)
\* A handler has a number of its own, a day, and a status if it is to write one.
Filled(s, t) ==
    t.days # {} /\ (s \in {"upsert", "insert", "missing", "sync"} => t.status \in RowStatus)
TaskInv(r) ==
    LET t == task[r]
    IN  step[r] # "idle" =>
            /\ t.n <= started /\ Filled(step[r], t)
            /\ \A q \in Requests : step[q] # "idle" /\ task[q].n = t.n => q = r

\* The punch of a handler is of its day, and is not there before it inserts it.
PunchInv(r) ==
    \A p \in punch :
        /\ p.id <= started
        /\ step[r] \in {"resolve", "insert"} /\ p.id = task[r].n => p.day = DayOf(task[r])
        /\ step[r] = "punch" => p.id # task[r].n

\* Who marks after a leave was granted has asked for it; who rejects a leave has said so.
StatusInv(r) ==
    LET t == task[r]
    IN  /\ step[r] = "upsert" /\ t.granted => t.status = "LEAVE" \/ DayOf(t) \in holiday
        /\ step[r] = "sync" => t.status = "LEAVE" \/ t.days \subseteq loosened

\* A morning of an approved leave says LEAVE, or its review is on its way to it.
Shows(d) == <<d, "MORNING">> \in DOMAIN row /\ row[<<d, "MORNING">>].status = "LEAVE"
Brings(r, l, d) ==
    step[r] = "sync" /\ task[r].leave = l /\ d \in task[r].days /\ task[r].status = "LEAVE"
ShownInv ==
    \A l \in DOMAIN asked : asked[l].status = "APPROVED" =>
        \A d \in asked[l].days \ (loosened \cup holiday) :
            Shows(d) \/ \E r \in Requests : Brings(r, l, d)

\* Between the audit record and the update of a row the update's is the last word.
Written(t) == IF t.status = None THEN t.old ELSE t.status
Chained(log) == \A i \in 1..Len(log) - 1 : log[i].new = log[i + 1].old
LastWord(k) ==
    LET log == audit[k]
    IN  /\ Chained(log)
        /\ Writing(k) = {} => row[k].status = log[Len(log)].new
        /\ \A r \in Writing(k) :
              /\ \A q \in Writing(k) : q = r
              /\ Known(task[r]) /\ row[k].status = task[r].old
              /\ log[Len(log)].new = Written(task[r])
AuditInv ==
    \A k \in DOMAIN audit :
        k \in DOMAIN row /\ audit[k] # << >> /\ (k \notin unsure => LastWord(k))

StudentInv ==
    /\ StudentTypeOK /\ started \in Nat
    /\ \A r \in Requests : TaskInv(r) /\ PunchInv(r) /\ StatusInv(r)
    /\ TapIsOnRecord /\ ShownInv /\ AuditInv

-----------------------------------------------------------------------------
(* What the tables and the handlers hold.                                  *)

LEMMA StudentTables ==
    ASSUME StudentTypeOK
    PROVE  /\ DOMAIN row \subseteq Keys /\ DOMAIN audit \subseteq DOMAIN row
           /\ \A k \in DOMAIN row : row[k] \in Row
           /\ \A k \in DOMAIN audit : audit[k] \in Seq(AuditRecord)
           /\ DOMAIN asked \subseteq Applications /\ \A l \in DOMAIN asked : asked[l] \in Request
    BY DEF StudentTypeOK, IsTable

\* A handler that has a day has a key.
LEMMA DayKey ==
    ASSUME NEW t \in Task, t.days # {}
    PROVE  /\ DayOf(t) \in t.days /\ DayOf(t) \in Days
           /\ KeyOf(t) = <<DayOf(t), t.session>> /\ KeyOf(t) \in Keys
           /\ <<DayOf(t), "MORNING">> \in Keys
<1>1. t.days \in SUBSET Days /\ t.session \in Sessions
    BY DEF Task
<1>2. DayOf(t) \in t.days
    BY DEF DayOf
<1> QED
    BY <1>1, <1>2, AttendanceAssumption DEF KeyOf, Keys

LEMMA DayOfOne == ASSUME NEW t, NEW d, t.days = {d} PROVE DayOf(t) = d
    BY DEF DayOf

LEMMA NoTaskTyped ==
    /\ NoTask \in Task /\ NoTask.days = {} /\ NoTask.session = "MORNING"
    /\ NoTask.status = "PRESENT" /\ NoTask.old = "PRESENT" /\ ~NoTask.granted
<1>1. 1 \in Handlers
    BY AttendanceAssumption DEF Handlers
<1>2. "PRESENT" \in RowStatus
    BY DEF RowStatus
<1> QED
    BY <1>1, <1>2, AttendanceAssumption DEF NoTask, Task

\* What Proceed, Done and Begin write.
LEMMA Proceeded ==
    ASSUME StudentTypeOK, NEW r \in Requests, NEW s \in TaskSteps, NEW t \in Task, Proceed(r, s, t)
    PROVE  /\ step' \in [Requests -> TaskSteps] /\ task' \in [Requests -> Task]
           /\ step'[r] = s /\ task'[r] = t
           /\ \A q \in Requests \ {r} : step'[q] = step[q] /\ task'[q] = task[q]
    BY DEF Proceed, StudentTypeOK

LEMMA DoneWith ==
    ASSUME StudentTypeOK, NEW r \in Requests, Done(r)
    PROVE  /\ step' \in [Requests -> TaskSteps] /\ task' \in [Requests -> Task]
           /\ step'[r] = "idle" /\ task'[r] = NoTask
           /\ \A q \in Requests \ {r} : step'[q] = step[q] /\ task'[q] = task[q]
<1>1. "idle" \in TaskSteps
    BY DEF TaskSteps
<1> QED
    BY <1>1, NoTaskTyped, Proceeded DEF Done

LEMMA Begun ==
    ASSUME StudentTypeOK, started \in Nat, started < MaxTasks, NEW r \in Requests,
           NEW s \in TaskSteps, NEW t \in Task, Begin(r, s, t)
    PROVE  /\ step[r] = "idle" /\ step'[r] = s /\ task'[r].n = started + 1
           /\ task'[r].days = t.days /\ task'[r].session = t.session
           /\ task'[r].status = t.status /\ task'[r].leave = t.leave
           /\ task'[r].granted = t.granted
           /\ step' \in [Requests -> TaskSteps] /\ task' \in [Requests -> Task]
           /\ \A q \in Requests \ {r} : step'[q] = step[q] /\ task'[q] = task[q]
<1> DEFINE u == [t EXCEPT !.n = started + 1]
<1>1. started + 1 \in Handlers
    BY AttendanceAssumption DEF Handlers
<1>2. /\ u \in Task /\ u.n = started + 1 /\ u.days = t.days /\ u.session = t.session
      /\ u.status = t.status /\ u.leave = t.leave /\ u.granted = t.granted
    BY <1>1 DEF Task
<1>3. step[r] = "idle" /\ Proceed(r, s, u)
    BY DEF Begin
<1> HIDE DEF u
<1> QED
    BY <1>2, <1>3, Proceeded

-----------------------------------------------------------------------------
(* Parts of the invariant that a step keeps when it does not come near them. *)

\* A handler goes on under its number or begins under a new one.
GoesOn(r) ==
    step'[r] # "idle" =>
        /\ Filled(step'[r], task'[r])
        /\ \/ step[r] # "idle" /\ task'[r].n = task[r].n
           \/ task'[r].n = started + 1 /\ started' = started + 1

LEMMA TasksKeep ==
    ASSUME StudentTypeOK, started \in Nat, started' \in Nat, started <= started',
           \A q \in Requests : TaskInv(q), NEW r \in Requests, GoesOn(r),
           \A q \in Requests \ {r} : step'[q] = step[q] /\ task'[q] = task[q]
    PROVE  \A q \in Requests : TaskInv(q)'
<1>1. \A q \in Requests : task[q].n \in Nat
    BY DEF StudentTypeOK, Task, Handlers
<1>2. \A q \in Requests : step[q] # "idle" => task[q].n <= started
    BY DEF TaskInv
<1>3. step'[r] # "idle" =>
        /\ task'[r].n <= started'
        /\ \A q \in Requests \ {r} : step[q] # "idle" => task[q].n # task'[r].n
    <2>1. CASE step'[r] # "idle" /\ step[r] # "idle" /\ task'[r].n = task[r].n
        BY <1>1, <1>2, <2>1 DEF TaskInv
    <2>2. CASE task'[r].n = started + 1 /\ started' = started + 1
        BY <1>1, <1>2, <2>2
    <2> QED
        BY <2>1, <2>2 DEF GoesOn
<1>4. ASSUME NEW q \in Requests \ {r} PROVE TaskInv(q)'
    <2> SUFFICES ASSUME step[q] # "idle" PROVE TaskInv(q)'
        BY DEF TaskInv
    <2>1. task[q].n <= started'
        BY <1>1, <1>2
    <2> QED
        BY <1>3, <2>1 DEF TaskInv
<1>5. TaskInv(r)'
    BY <1>3 DEF TaskInv, GoesOn
<1> QED
    BY <1>4, <1>5

\* Punches stay those of the same handlers and days, but for the one its handler inserts.
LEMMA PunchesKeep ==
    ASSUME started \in Nat, started' \in Nat, started <= started', StudentTypeOK,
           \A q \in Requests : TaskInv(q) /\ PunchInv(q), NEW r \in Requests,
           \A q \in Requests \ {r} : step'[q] = step[q] /\ task'[q] = task[q],
           \A p \in punch' : \/ \E o \in punch : p.id = o.id /\ p.day = o.day
                             \/ /\ step[r] = "punch" /\ step'[r] = "resolve"
                                /\ p.id = task[r].n /\ p.day = DayOf(task[r]),
           step'[r] \in {"resolve", "insert"} =>
               /\ step[r] \in {"punch", "resolve", "insert"}
               /\ task'[r].n = task[r].n /\ DayOf(task'[r]) = DayOf(task[r]),
           step'[r] = "punch" => task'[r].n = started + 1 /\ step[r] = "idle"
    PROVE  \A q \in Requests : PunchInv(q)'
<1>1. \A o \in punch : o.id <= started /\ o.id \in Nat
    BY DEF PunchInv, Punch, Handlers, StudentTypeOK
<1>2. task[r].n \in Nat /\ (step[r] # "idle" => task[r].n <= started)
    BY DEF TaskInv, StudentTypeOK, Task, Handlers
<1>3. ASSUME NEW p \in punch', NEW q \in Requests
      PROVE  /\ p.id <= started'
             /\ step'[q] \in {"resolve", "insert"} /\ p.id = task'[q].n => p.day = DayOf(task'[q])
             /\ step'[q] = "punch" => p.id # task'[q].n
    <2>1. CASE \E o \in punch : p.id = o.id /\ p.day = o.day
        <3>1. PICK o \in punch : p.id = o.id /\ p.day = o.day
            BY <2>1
        <3>2. p.id <= started'
            BY <1>1, <3>1
        <3>3. CASE q = r
            <4>1. step'[r] = "punch" => p.id # task'[r].n
                BY <1>1, <3>1
            <4>2. step[r] \in {"resolve", "insert"} /\ o.id = task[r].n => o.day = DayOf(task[r])
                BY DEF PunchInv
            <4>3. step[r] = "punch" => o.id # task[r].n
                BY DEF PunchInv
            <4> QED
                BY <3>1, <3>2, <3>3, <4>1, <4>2, <4>3
        <3>4. CASE q # r
            <4>1. step'[q] = step[q] /\ task'[q] = task[q]
                BY <3>4
            <4> QED
                BY <3>1, <3>2, <4>1 DEF PunchInv
        <3> QED
            BY <3>3, <3>4
    <2>2. CASE /\ step[r] = "punch" /\ step'[r] = "resolve"
               /\ p.id = task[r].n /\ p.day = DayOf(task[r])
        <3>1. PICK n : n = task[r].n
            OBVIOUS
        <3>2. p.id <= started' /\ task'[r].n = n /\ DayOf(task'[r]) = p.day
            BY <1>2, <2>2, <3>1
        <3>3. \A z \in Requests \ {r} : step[z] # "idle" => task[z].n # n
            BY <2>2, <3>1 DEF TaskInv
        <3> QED
            BY <2>2, <3>1, <3>2, <3>3
    <2> QED
        BY <2>1, <2>2
<1> QED
    BY <1>3 DEF PunchInv

\* An entry punch keeps the row of its day, its handler, or its excuse.
LEMMA TapsKeep ==
    ASSUME TapIsOnRecord, \A q \in Requests : PunchInv(q), NEW r \in Requests,
           \A q \in Requests \ {r} : step'[q] = step[q] /\ task'[q] = task[q],
           DOMAIN row \subseteq DOMAIN row', UNCHANGED holiday, untapped \subseteq untapped',
           \A p \in punch' : \/ \E o \in punch : p.id = o.id /\ p.day = o.day
                             \/ step'[r] = "resolve" /\ p.id = task'[r].n,
           step[r] \in {"resolve", "insert"} =>
               \/ step'[r] \in {"resolve", "insert"} /\ task'[r].n = task[r].n
               \/ task[r].n \in untapped' \/ DayOf(task[r]) \in holiday
               \/ <<DayOf(task[r]), "MORNING">> \in DOMAIN row'
    PROVE  TapIsOnRecord'
<1> SUFFICES ASSUME NEW p \in punch'
             PROVE  \/ <<p.day, "MORNING">> \in DOMAIN row' \/ p.day \in holiday
                    \/ p.id \in untapped'
                    \/ \E q \in Requests : /\ step'[q] \in {"resolve", "insert"}
                                           /\ task'[q].n = p.id
    BY DEF TapIsOnRecord
<1>1. CASE step'[r] = "resolve" /\ p.id = task'[r].n
    BY <1>1
<1>2. CASE \E o \in punch : p.id = o.id /\ p.day = o.day
    <2>1. PICK o \in punch : p.id = o.id /\ p.day = o.day
        BY <1>2
    <2>2. ASSUME NEW q \in Requests, step[q] \in {"resolve", "insert"}, task[q].n = o.id
          PROVE  \/ <<p.day, "MORNING">> \in DOMAIN row' \/ p.day \in holiday
                 \/ p.id \in untapped'
                 \/ \E z \in Requests : /\ step'[z] \in {"resolve", "insert"}
                                        /\ task'[z].n = p.id
        <3>1. CASE q # r
            BY <2>1, <2>2, <3>1
        <3>2. CASE q = r
            <4>1. o.day = DayOf(task[r])
                BY <2>2, <3>2 DEF PunchInv
            <4> QED
                BY <2>1, <2>2, <3>2, <4>1
        <3> QED
            BY <3>1, <3>2
    <2> QED
        BY <2>1, <2>2 DEF TapIsOnRecord
<1> QED
    BY <1>1, <1>2

\* A morning keeps its LEAVE, or the history says why it need not.
LEMMA MorningsKeep ==
    ASSUME StudentTypeOK, ShownInv, NEW r \in Requests,
           \A q \in Requests \ {r} : step'[q] = step[q] /\ task'[q] = task[q],
           UNCHANGED <<asked, holiday>>, loosened \subseteq loosened',
           \A d \in Days : Shows(d) /\ Granted(d) => Shows(d)' \/ d \in loosened' \cup holiday,
           \A d \in Days : \A l \in DOMAIN asked :
               Brings(r, l, d) => Brings(r, l, d)' \/ Shows(d)' \/ d \in loosened'
    PROVE  ShownInv'
<1> SUFFICES ASSUME NEW l \in DOMAIN asked, asked[l].status = "APPROVED",
                    NEW d \in asked[l].days \ (loosened' \cup holiday)
             PROVE  Shows(d)' \/ \E q \in Requests : Brings(q, l, d)'
    BY DEF ShownInv
<1>1. d \in Days /\ Granted(d)
    <2>1. asked[l].days \subseteq Days
        BY StudentTables, RangesDays DEF Request
    <2> QED
        BY <2>1 DEF Granted
<1>2. Shows(d) \/ \E q \in Requests : Brings(q, l, d)
    BY DEF ShownInv
<1>3. ASSUME NEW q \in Requests, q # r, Brings(q, l, d) PROVE Brings(q, l, d)'
    <2>1. step'[q] = step[q] /\ task'[q] = task[q]
        BY <1>3
    <2> QED
        BY <1>3, <2>1 DEF Brings
<1> QED
    BY <1>1, <1>2, <1>3

\* A log keeps its last word when its row, and those about to write it, stay as they are.
LEMMA LogKeeps ==
    ASSUME NEW k, LastWord(k), audit'[k] = audit[k], k \in DOMAIN row', NEW r \in Requests,
           row'[k].id = row[k].id, row'[k].status = row[k].status,
           \A q \in Requests \ {r} : step'[q] = step[q] /\ task'[q] = task[q],
           ~(step[r] = "write" /\ KeyOf(task[r]) = k),
           ~(step'[r] = "write" /\ KeyOf(task'[r]) = k)
    PROVE  LastWord(k)'
<1>1. \A q \in Requests : q \in Writing(k) <=> step[q] = "write" /\ KeyOf(task[q]) = k
    BY DEF Writing
<1>2. \A q \in Requests : q \in Writing(k)' <=> step'[q] = "write" /\ KeyOf(task'[q]) = k
    BY DEF Writing, KeyOf, DayOf
<1>3. \A q \in Requests : q \in Writing(k)' <=> q \in Writing(k)
    <2>1. r \notin Writing(k) /\ r \notin Writing(k)'
        BY <1>1, <1>2
    <2> QED
        BY <1>1, <1>2, <2>1
<1>4. Writing(k)' = Writing(k)
    BY <1>3 DEF Writing
<1>5. ASSUME NEW q \in Writing(k)
      PROVE  /\ Known(task[q])' /\ row'[k].status = task'[q].old
             /\ audit'[k][Len(audit'[k])].new = Written(task[q])'
    <2>1. /\ Known(task[q]) /\ row[k].status = task[q].old
          /\ audit[k][Len(audit[k])].new = Written(task[q])
        BY DEF LastWord
    <2>2. q \in Requests /\ q # r /\ KeyOf(task[q]) = k
        BY <1>1 DEF Writing
    <2>3. task'[q] = task[q] /\ KeyOf(task'[q]) = k
        BY <2>2
    <2>4. row[k].id = task[q].id
        BY <2>1, <2>2 DEF Known
    <2> QED
        BY <2>1, <2>3, <2>4 DEF Known, Written
<1> QED
    BY <1>4, <1>5 DEF LastWord

\* The rows keep their ids, and the rows whose log is to be trusted their status.
LEMMA LogsKeep ==
    ASSUME AuditInv, NEW r \in Requests,
           \A q \in Requests \ {r} : step'[q] = step[q] /\ task'[q] = task[q],
           UNCHANGED audit, DOMAIN row \subseteq DOMAIN row', unsure \subseteq unsure',
           \A k \in DOMAIN audit \ unsure' :
               row'[k].id = row[k].id /\ row'[k].status = row[k].status,
           step'[r] # "write", step[r] = "write" => KeyOf(task[r]) \in unsure'
    PROVE  AuditInv'
<1> SUFFICES ASSUME NEW k \in DOMAIN audit, k \notin unsure' PROVE LastWord(k)'
    BY DEF AuditInv
<1>1. LastWord(k) /\ k \in DOMAIN row'
    BY DEF AuditInv
<1> QED
    BY <1>1, LogKeeps

\* A step of a handler that leaves the requests for leave and the audit log alone.
LEMMA TaskStep ==
    ASSUME StudentInv, StudentTypeOK', NEW r \in Requests, started' \in Nat, started <= started',
           \A q \in Requests \ {r} : step'[q] = step[q] /\ task'[q] = task[q],
           UNCHANGED <<asked, holiday, audit>>, DOMAIN row \subseteq DOMAIN row',
           loosened \subseteq loosened', unsure \subseteq unsure', untapped \subseteq untapped',
           GoesOn(r), StatusInv(r)',
           \A p \in punch' : \/ \E o \in punch : p.id = o.id /\ p.day = o.day
                             \/ /\ step[r] = "punch" /\ step'[r] = "resolve"
                                /\ p.id = task[r].n /\ p.day = DayOf(task[r]),
           step'[r] \in {"resolve", "insert"} =>
               /\ step[r] \in {"punch", "resolve", "insert"}
               /\ task'[r].n = task[r].n /\ DayOf(task'[r]) = DayOf(task[r]),
           step'[r] = "punch" => task'[r].n = started + 1 /\ step[r] = "idle",
           step[r] \in {"resolve", "insert"} =>
               \/ step'[r] \in {"resolve", "insert"}
               \/ task[r].n \in untapped' \/ DayOf(task[r]) \in holiday
               \/ <<DayOf(task[r]), "MORNING">> \in DOMAIN row',
           \A d \in Days : Shows(d) /\ Granted(d) => Shows(d)' \/ d \in loosened' \cup holiday,
           \A d \in Days : \A l \in DOMAIN asked :
               Brings(r, l, d) => Brings(r, l, d)' \/ Shows(d)' \/ d \in loosened',
           \A k \in DOMAIN audit \ unsure' :
               row'[k].id = row[k].id /\ row'[k].status = row[k].status,
           step'[r] # "write", step[r] = "write" => KeyOf(task[r]) \in unsure'
    PROVE  StudentInv'
<1>1. \A q \in Requests : TaskInv(q)'
    BY TasksKeep DEF StudentInv
<1>2. \A q \in Requests : PunchInv(q)'
    BY PunchesKeep DEF StudentInv
<1>3. \A q \in Requests : StatusInv(q)'
    <2> SUFFICES ASSUME NEW q \in Requests, q # r PROVE StatusInv(q)'
        OBVIOUS
    <2>1. StatusInv(q) /\ step'[q] = step[q] /\ task'[q] = task[q]
        BY DEF StudentInv
    <2> QED
        BY <2>1 DEF StatusInv, DayOf
<1>4. TapIsOnRecord'
    <2>1. \A p \in punch' : \/ \E o \in punch : p.id = o.id /\ p.day = o.day
                            \/ step'[r] = "resolve" /\ p.id = task'[r].n
        OBVIOUS
    <2> QED
        BY <2>1, TapsKeep DEF StudentInv
<1>5. ShownInv'
    BY MorningsKeep DEF StudentInv
<1>6. AuditInv'
    BY LogsKeep DEF StudentInv
<1> QED
    BY <1>1, <1>2, <1>3, <1>4, <1>5, <1>6 DEF StudentInv

\* A handler begins, and writes nothing yet.
LEMMA BeginStep ==
    ASSUME StudentInv, started < MaxTasks, started' = started + 1, NEW r \in Requests,
           NEW s \in {"upsert", "audit", "punch", "exit", "missing"}, NEW t \in Task, Begin(r, s, t),
           Filled(s, t), t.granted => t.status = "LEAVE" \/ DayOf(t) \in holiday,
           UNCHANGED <<row, audit, asked, holiday, loosened, unsure, untapped>>,
           punch' \subseteq Punch,
           \A p \in punch' : \E o \in punch : p.id = o.id /\ p.day = o.day
    PROVE  StudentInv'
<1>0. s \in TaskSteps
    BY DEF TaskSteps
<1>1. /\ step[r] = "idle" /\ step'[r] = s /\ task'[r].n = started + 1
      /\ task'[r].days = t.days /\ task'[r].status = t.status /\ task'[r].granted = t.granted
      /\ step' \in [Requests -> TaskSteps] /\ task' \in [Requests -> Task]
      /\ \A q \in Requests \ {r} : step'[q] = step[q] /\ task'[q] = task[q]
    BY <1>0, Begun DEF StudentInv
<1>2. started \in Nat /\ started' \in Nat /\ started <= started'
    BY DEF StudentInv
<1>3. StudentTypeOK'
    BY <1>1 DEF StudentInv, StudentTypeOK
<1>4. GoesOn(r)
    BY <1>1 DEF GoesOn, Filled
<1>5. StatusInv(r)'
    BY <1>1 DEF StatusInv, DayOf
<1>6. \A d \in Days : (Shows(d) => Shows(d)') /\ \A l \in DOMAIN asked : ~Brings(r, l, d)
    BY <1>1 DEF Shows, Brings
<1>7. step'[r] \notin {"resolve", "insert", "write"} /\ (step'[r] = "punch" => step[r] = "idle")
    BY <1>1
<1> QED
    BY <1>1, <1>2, <1>3, <1>4, <1>5, <1>6, <1>7, TaskStep

LEMMA MarkStudentKeeps ==
    ASSUME StudentInv, started < MaxTasks, started' = started + 1, NEW r \in Requests,
           NEW k \in Keys, NEW status \in Marks, MarkStudent(r, k, status)
    PROVE  StudentInv'
<1>0. PICK d, to, granted : d = k[1] /\ to = resolve(k[1], status) /\ granted = Granted(k[1])
    OBVIOUS
<1> DEFINE t == [NoTask EXCEPT !.days = {d}, !.session = k[2], !.status = to,
                               !.granted = granted]
<1>1. Begin(r, "upsert", t)
    BY <1>0 DEF MarkStudent
<1>2. d \in Days /\ k[2] \in Sessions
    BY <1>0 DEF Keys
<1>3. to \in RowStatus /\ (granted => to = "LEAVE" \/ d \in holiday) /\ granted \in BOOLEAN
    BY <1>0 DEF resolve, hasApprovedLeave, Granted, RowStatus
<1>4. /\ t \in Task /\ t.days = {d} /\ t.status = to /\ t.granted = granted
    BY <1>2, <1>3, NoTaskTyped DEF Task, NoTask
<1> HIDE DEF t
<1>5. Filled("upsert", t) /\ DayOf(t) = d
    BY <1>3, <1>4, DayOfOne DEF Filled
<1>6. punch' = punch /\ punch \subseteq Punch
    BY DEF MarkStudent, StudentInv, StudentTypeOK
<1> QED
    BY <1>1, <1>3, <1>4, <1>5, <1>6, BeginStep DEF MarkStudent

LEMMA UpdateRowKeeps ==
    ASSUME StudentInv, started < MaxTasks, started' = started + 1, NEW r \in Requests,
           NEW k \in Keys, NEW status \in Marks \cup {None}, UpdateRow(r, k, status)
    PROVE  StudentInv'
<1>0. PICK d, id, old : d = k[1] /\ id = row[k].id /\ old = row[k].status
    OBVIOUS
<1> DEFINE t == [NoTask EXCEPT !.days = {d}, !.session = k[2], !.status = status,
                               !.id = id, !.old = old]
<1>1. k \in DOMAIN row /\ Begin(r, "audit", t)
    BY <1>0 DEF UpdateRow
<1>2. d \in Days /\ k[2] \in Sessions /\ id \in Handlers /\ old \in RowStatus
    BY <1>0, <1>1, StudentTables DEF Keys, StudentInv, Row
<1>3. status \in RowStatus \cup {None}
    BY DEF RowStatus
<1>4. t \in Task /\ t.days = {d} /\ ~t.granted
    BY <1>2, <1>3, NoTaskTyped DEF Task, NoTask
<1> HIDE DEF t
<1>5. Filled("audit", t)
    BY <1>4 DEF Filled
<1>6. punch' = punch /\ punch \subseteq Punch
    BY DEF UpdateRow, StudentInv, StudentTypeOK
<1> QED
    BY <1>1, <1>4, <1>5, <1>6, BeginStep DEF UpdateRow

LEMMA ReadCardKeeps ==
    ASSUME StudentInv, started < MaxTasks, started' = started + 1, NEW r \in Requests,
           NEW d \in Days, NEW tap \in Taps, ReadCard(r, d, tap)
    PROVE  StudentInv'
<1> DEFINE t == [NoTask EXCEPT !.days = {d}, !.tap = tap]
           u(i) == [t EXCEPT !.id = i]
<1>1. punch' = punch /\ punch \subseteq Punch
    BY DEF ReadCard, StudentInv, StudentTypeOK
<1>2. t \in Task /\ t.days = {d} /\ ~t.granted
    BY NoTaskTyped DEF Task, NoTask
<1>3. \A i \in Handlers : u(i) \in Task /\ u(i).days = {d} /\ ~u(i).granted
    BY <1>2 DEF Task
<1>4. Begin(r, "punch", t) \/ \E p \in punch : Begin(r, "exit", u(p.id))
    BY DEF ReadCard
<1> HIDE DEF t, u
<1>5. CASE Begin(r, "punch", t)
    <2>1. Filled("punch", t)
        BY <1>2 DEF Filled
    <2> QED
        BY <1>1, <1>2, <1>5, <2>1, BeginStep DEF ReadCard
<1>6. ASSUME NEW p \in punch, Begin(r, "exit", u(p.id)) PROVE StudentInv'
    <2>1. p.id \in Handlers
        BY <1>1 DEF Punch
    <2>2. PICK v : v = u(p.id)
        OBVIOUS
    <2>3. v \in Task /\ v.days = {d} /\ ~v.granted
        BY <1>3, <2>1, <2>2
    <2>4. Filled("exit", v)
        BY <2>3 DEF Filled
    <2> QED
        BY <1>1, <1>6, <2>2, <2>3, <2>4, BeginStep DEF ReadCard
<1> QED
    BY <1>4, <1>5, <1>6

LEMMA ApproveExitKeeps ==
    ASSUME StudentInv, started < MaxTasks, started' = started + 1, NEW r \in Requests,
           NEW d \in Days, ApproveExit(r, d)
    PROVE  StudentInv'
<1> DEFINE t == [NoTask EXCEPT !.days = {d}, !.status = "HALF_DAY"]
<1>1. Begin(r, "missing", t)
    BY DEF ApproveExit
<1>2. t \in Task /\ t.days = {d} /\ t.status = "HALF_DAY" /\ ~t.granted
    BY NoTaskTyped DEF Task, NoTask, RowStatus
<1> HIDE DEF t
<1>3. Filled("missing", t)
    BY <1>2 DEF Filled, RowStatus
<1>4. punch' = punch /\ punch \subseteq Punch
    BY DEF ApproveExit, StudentInv, StudentTypeOK
<1> QED
    BY <1>1, <1>2, <1>3, <1>4, BeginStep DEF ApproveExit

LEMMA ResolvePunchKeeps ==
    ASSUME StudentInv, started < MaxTasks, started' = started + 1, NEW r \in Requests,
           NEW p \in punch, NEW status \in {"PRESENT", "HALF_DAY"}, ResolvePunch(r, p, status)
    PROVE  StudentInv'
<1>0. PICK d : d = p.day
    OBVIOUS
<1> DEFINE t == [NoTask EXCEPT !.days = {d}, !.status = status]
           resolved(q) == IF q = p THEN [q EXCEPT !.status = "COMPLETE"] ELSE q
<1>1. Begin(r, "missing", t) /\ punch' = {resolved(q) : q \in punch}
    BY <1>0 DEF ResolvePunch
<1>2. punch \subseteq Punch /\ d \in Days
    BY <1>0 DEF StudentInv, StudentTypeOK, Punch
<1>3. t \in Task /\ t.days = {d} /\ t.status = status /\ ~t.granted
    BY <1>2, NoTaskTyped DEF Task, NoTask, RowStatus
<1>4. \A q \in punch : resolved(q) \in Punch /\ resolved(q).id = q.id /\ resolved(q).day = q.day
    BY <1>2 DEF Punch
<1> HIDE DEF t, resolved
<1>5. Filled("missing", t)
    BY <1>3 DEF Filled, RowStatus
<1>6. /\ punch' \subseteq Punch
      /\ \A q \in punch' : \E o \in punch : q.id = o.id /\ q.day = o.day
    BY <1>1, <1>4
<1> QED
    BY <1>1, <1>3, <1>5, <1>6, BeginStep DEF ResolvePunch

\* A handler ends.
LEMMA DoneStep ==
    ASSUME StudentInv, StudentTypeOK', NEW r \in Requests, Done(r), started' \in Nat,
           started <= started',
           UNCHANGED <<asked, holiday, audit>>, DOMAIN row \subseteq DOMAIN row',
           loosened \subseteq loosened', unsure \subseteq unsure', untapped \subseteq untapped',
           \A p \in punch' : \E o \in punch : p.id = o.id /\ p.day = o.day,
           step[r] \in {"resolve", "insert"} =>
               \/ task[r].n \in untapped' \/ DayOf(task[r]) \in holiday
               \/ <<DayOf(task[r]), "MORNING">> \in DOMAIN row',
           \A d \in Days : Shows(d) /\ Granted(d) => Shows(d)' \/ d \in loosened' \cup holiday,
           step[r] = "sync" =>
               \A d \in task[r].days : task[r].status = "LEAVE" => Shows(d)' \/ d \in loosened',
           \A k \in DOMAIN audit \ unsure' :
               row'[k].id = row[k].id /\ row'[k].status = row[k].status,
           step[r] = "write" => KeyOf(task[r]) \in unsure'
    PROVE  StudentInv'
<1>1. /\ step'[r] = "idle"
      /\ \A q \in Requests \ {r} : step'[q] = step[q] /\ task'[q] = task[q]
    BY DoneWith DEF StudentInv
<1>2. GoesOn(r) /\ StatusInv(r)'
    BY <1>1 DEF GoesOn, StatusInv
<1>3. \A d \in Days : \A l \in DOMAIN asked : Brings(r, l, d) => Shows(d)' \/ d \in loosened'
    BY DEF Brings
<1> QED
    BY <1>1, <1>2, <1>3, TaskStep

\* The types after a step that writes the rows only.
LEMMA RowTypes ==
    ASSUME StudentInv, NEW r \in Requests, Done(r), IsTable(row', Keys, Row),
           DOMAIN row \subseteq DOMAIN row', UNCHANGED <<asked, holiday, audit, punch>>,
           loosened' \subseteq Days, unsure' \subseteq Keys, untapped' \subseteq Handlers
    PROVE  StudentTypeOK'
<1>1. step' \in [Requests -> TaskSteps] /\ task' \in [Requests -> Task]
    BY DoneWith DEF StudentInv
<1>2. IsTable(audit', DOMAIN row', Seq(AuditRecord))
    BY DEF StudentInv, StudentTypeOK, IsTable
<1> QED
    BY <1>1, <1>2 DEF StudentInv, StudentTypeOK

LEMMA UpsertRowKeeps ==
    ASSUME StudentInv, UNCHANGED started, NEW r \in Requests, UpsertRow(r)
    PROVE  StudentInv'
<1>0. PICK t : t = task[r]
    OBVIOUS
<1>1. PICK k, id : k = KeyOf(t) /\ id = IF k \in DOMAIN row THEN row[k].id ELSE t.n
    OBVIOUS
<1> DEFINE v == [id |-> id, status |-> t.status]
<1>2. /\ step[r] = "upsert" /\ Wrote(Upsert(row, k, v), {k}) /\ Done(r)
      /\ loosened' = IF Overtook(t) THEN loosened \cup {k[1]} ELSE loosened
      /\ UNCHANGED <<audit, punch, asked, holiday, untapped>>
    BY <1>0, <1>1 DEF UpsertRow
<1>3. /\ t \in Task /\ t.days # {} /\ t.status \in RowStatus
      /\ t.granted => t.status = "LEAVE" \/ DayOf(t) \in holiday
    BY <1>0, <1>2 DEF StudentInv, StudentTypeOK, TaskInv, Filled, StatusInv
<1>4. k = <<DayOf(t), t.session>> /\ k \in Keys /\ DayOf(t) \in Days /\ k[1] = DayOf(t)
    <2>1. k = <<DayOf(t), t.session>> /\ k \in Keys /\ DayOf(t) \in Days
        BY <1>1, <1>3, DayKey
    <2> QED
        BY <2>1
<1>5. id \in Handlers
    BY <1>1, <1>3, StudentTables DEF StudentInv, Row, Task
<1>6. v \in Row /\ v.id = id /\ v.status = t.status
    BY <1>3, <1>5 DEF Row
<1> HIDE DEF v
<1>7. /\ DOMAIN row' = DOMAIN row \cup {k} /\ row'[k] = v
      /\ \A j \in DOMAIN row \ {k} : row'[j] = row[j]
    BY <1>2 DEF Wrote, Upsert
<1>8. unsure' = unsure \cup {j \in {k} \cap DOMAIN row : row[j].status # row'[j].status}
    BY <1>2 DEF Wrote
<1>9. StudentTypeOK'
    <2>1. IsTable(row', Keys, Row)
        <3>1. IsTable(row, Keys, Row) /\ row' = Upsert(row, k, v)
            BY <1>2 DEF StudentInv, StudentTypeOK, Wrote
        <3> QED
            BY <1>4, <1>6, <3>1, UpsertTable
    <2>2. loosened' \subseteq Days /\ unsure' \subseteq Keys /\ untapped' \subseteq Handlers
        BY <1>2, <1>4, <1>8 DEF StudentInv, StudentTypeOK
    <2> QED
        BY <1>2, <1>7, <2>1, <2>2, RowTypes
<1>10. ASSUME NEW d \in Days, Shows(d), Granted(d) PROVE Shows(d)' \/ d \in loosened' \cup holiday
    <2>1. CASE <<d, "MORNING">> # k
        BY <1>7, <1>10, <2>1 DEF Shows
    <2>2. CASE <<d, "MORNING">> = k
        <3>1. d = DayOf(t)
            BY <1>4, <2>2
        <3>2. CASE t.granted
            BY <1>3, <1>6, <1>7, <2>2, <3>1, <3>2 DEF Shows
        <3>3. CASE ~t.granted
            BY <1>2, <1>4, <1>10, <3>1, <3>3 DEF Overtook
        <3> QED
            BY <3>2, <3>3
    <2> QED
        BY <2>1, <2>2
<1>11. ASSUME NEW j \in DOMAIN audit \ unsure'
       PROVE  row'[j].id = row[j].id /\ row'[j].status = row[j].status
    <2>1. j \in DOMAIN row
        BY DEF StudentInv, AuditInv
    <2>2. CASE j = k
        BY <1>1, <1>6, <1>7, <1>8, <2>1, <2>2
    <2>3. CASE j # k
        BY <1>7, <2>1, <2>3
    <2> QED
        BY <2>2, <2>3
<1>12. started' \in Nat /\ started <= started'
    BY DEF StudentInv
<1>13. loosened \subseteq loosened' /\ unsure \subseteq unsure'
    BY <1>2, <1>8
<1> QED
    BY <1>2, <1>7, <1>9, <1>10, <1>11, <1>12, <1>13, DoneStep

LEMMA InsertRowKeeps ==
    ASSUME StudentInv, UNCHANGED started, NEW r \in Requests, InsertRow(r)
    PROVE  StudentInv'
<1>0. PICK t : t = task[r]
    OBVIOUS
<1>1. PICK k : k = <<DayOf(t), "MORNING">>
    OBVIOUS
<1> DEFINE v == [id |-> t.n, status |-> t.status]
<1>2. /\ step[r] = "insert" /\ Done(r)
      /\ row' = IF k \in DOMAIN row THEN row ELSE Upsert(row, k, v)
      /\ loosened' = loosened \/ loosened' = loosened \cup {k[1]}
      /\ UNCHANGED <<audit, punch, asked, holiday, unsure, untapped>>
    BY <1>0, <1>1 DEF InsertRow
<1>3. t \in Task /\ t.days # {} /\ t.status \in RowStatus
    BY <1>0, <1>2 DEF StudentInv, StudentTypeOK, TaskInv, Filled
<1>4. k \in Keys /\ k[1] \in Days
    BY <1>1, <1>3, DayKey
<1>5. v \in Row
    BY <1>3 DEF Row, Task
<1> HIDE DEF v
<1>6. /\ DOMAIN row' = DOMAIN row \cup {k}
      /\ \A j \in DOMAIN row : row'[j] = row[j]
    <2>1. CASE k \in DOMAIN row
        BY <1>2, <2>1
    <2>2. CASE k \notin DOMAIN row
        BY <1>2, <2>2 DEF Upsert
    <2> QED
        BY <2>1, <2>2
<1>7. StudentTypeOK'
    <2>1. IsTable(row', Keys, Row)
        <3>1. IsTable(row, Keys, Row)
            BY DEF StudentInv, StudentTypeOK
        <3> QED
            BY <1>2, <1>4, <1>5, <3>1, UpsertTable
    <2>2. loosened' \subseteq Days /\ unsure' \subseteq Keys /\ untapped' \subseteq Handlers
        BY <1>2, <1>4 DEF StudentInv, StudentTypeOK
    <2> QED
        BY <1>2, <1>6, <2>1, <2>2, RowTypes
<1>8. \A d \in Days : Shows(d) => Shows(d)'
    BY <1>6 DEF Shows
<1>9. \A j \in DOMAIN audit \ unsure' : row'[j].id = row[j].id /\ row'[j].status = row[j].status
    BY <1>6 DEF StudentInv, AuditInv
<1>10. started' \in Nat /\ started <= started'
    BY DEF StudentInv
<1>11. <<DayOf(task[r]), "MORNING">> \in DOMAIN row' /\ loosened \subseteq loosened'
    BY <1>0, <1>1, <1>2, <1>6
<1> QED
    BY <1>2, <1>6, <1>7, <1>8, <1>9, <1>10, <1>11, DoneStep

LEMMA WriteDayKeeps ==
    ASSUME StudentInv, UNCHANGED started, NEW r \in Requests, WriteDay(r)
    PROVE  StudentInv'
<1>0. PICK t : t = task[r]
    OBVIOUS
<1>1. PICK d : d = DayOf(t)
    OBVIOUS
<1> DEFINE table == [k \in DOMAIN row |-> IF k \in OnDay(d)
                                          THEN [row[k] EXCEPT !.status = t.status] ELSE row[k]]
<1>2. /\ step[r] = "missing" /\ Wrote(table, OnDay(d)) /\ Done(r)
      /\ loosened' = loosened \cup {d} /\ UNCHANGED <<audit, punch, asked, holiday, untapped>>
    BY <1>0, <1>1 DEF WriteDay
<1>3. t \in Task /\ t.days # {} /\ t.status \in RowStatus /\ d \in Days
    BY <1>0, <1>1, <1>2, DayKey DEF StudentInv, StudentTypeOK, TaskInv, Filled
<1>4. /\ DOMAIN row' = DOMAIN row
      /\ \A k \in DOMAIN row : /\ row'[k] \in Row /\ row'[k].id = row[k].id
                               /\ k[1] # d => row'[k] = row[k]
    <2>1. row' = table
        BY <1>2 DEF Wrote
    <2>2. ASSUME NEW k \in DOMAIN row
          PROVE  /\ row'[k] \in Row /\ row'[k].id = row[k].id
                 /\ k[1] # d => row'[k] = row[k]
        <3>1. row[k] \in Row
            BY StudentTables DEF StudentInv
        <3>2. row'[k] = IF k \in OnDay(d) THEN [row[k] EXCEPT !.status = t.status] ELSE row[k]
            BY <2>1
        <3> QED
            BY <1>3, <3>1, <3>2 DEF Row, OnDay
    <2> QED
        BY <2>1, <2>2
<1>5. unsure' = unsure \cup {k \in OnDay(d) \cap DOMAIN row : row[k].status # row'[k].status}
    BY <1>2 DEF Wrote
<1> HIDE DEF table
<1>6. StudentTypeOK'
    <2>1. IsTable(row', Keys, Row)
        <3>1. row' = [k \in DOMAIN row |-> row'[k]]
            BY <1>2 DEF Wrote, table
        <3> QED
            BY <1>4, <3>1, StudentTables DEF StudentInv, IsTable
    <2>2. loosened' \subseteq Days /\ unsure' \subseteq Keys /\ untapped' \subseteq Handlers
        BY <1>2, <1>3, <1>5, StudentTables DEF StudentInv, StudentTypeOK
    <2> QED
        BY <1>2, <1>4, <2>1, <2>2, RowTypes
<1>7. ASSUME NEW e \in Days, Shows(e) PROVE Shows(e)' \/ e \in loosened'
    <2>1. CASE e = d
        BY <1>2, <2>1
    <2>2. CASE e # d
        <3>1. <<e, "MORNING">>[1] # d
            BY <2>2
        <3> QED
            BY <1>4, <1>7, <3>1 DEF Shows
    <2> QED
        BY <2>1, <2>2
<1>8. ASSUME NEW j \in DOMAIN audit \ unsure'
      PROVE  row'[j].id = row[j].id /\ row'[j].status = row[j].status
    <2>1. j \in DOMAIN row
        BY DEF StudentInv, AuditInv
    <2>2. CASE j[1] = d
        BY <1>4, <1>5, <2>1, <2>2 DEF OnDay
    <2>3. CASE j[1] # d
        BY <1>4, <2>1, <2>3
    <2> QED
        BY <2>2, <2>3
<1>9. started' \in Nat /\ started <= started'
    BY DEF StudentInv
<1>10. loosened \subseteq loosened' /\ unsure \subseteq unsure'
    BY <1>2, <1>5
<1> QED
    BY <1>2, <1>4, <1>6, <1>7, <1>8, <1>9, <1>10, DoneStep

LEMMA TapOutKeeps ==
    ASSUME StudentInv, UNCHANGED started, NEW r \in Requests, TapOut(r)
    PROVE  StudentInv'
<1> DEFINE out(p) == IF p.id = task[r].id THEN [p EXCEPT !.exit = TRUE, !.status = "COMPLETE"]
                     ELSE p
<1>1. /\ step[r] = "exit" /\ punch' = {out(p) : p \in punch} /\ Done(r)
      /\ UNCHANGED <<row, audit, asked, holiday, loosened, unsure, untapped>>
    BY DEF TapOut
<1>2. \A p \in punch : out(p) \in Punch /\ out(p).id = p.id /\ out(p).day = p.day
    BY DEF StudentInv, StudentTypeOK, Punch
<1> HIDE DEF out
<1>3. /\ punch' \subseteq Punch
      /\ \A p \in punch' : \E o \in punch : p.id = o.id /\ p.day = o.day
    BY <1>1, <1>2
<1>4. StudentTypeOK'
    <2>1. step' \in [Requests -> TaskSteps] /\ task' \in [Requests -> Task]
        BY <1>1, DoneWith DEF StudentInv
    <2> QED
        BY <1>1, <1>3, <2>1 DEF StudentInv, StudentTypeOK
<1>5. \A d \in Days : Shows(d) => Shows(d)'
    BY <1>1 DEF Shows
<1>6. started' \in Nat /\ started <= started'
    BY DEF StudentInv
<1> QED
    BY <1>1, <1>3, <1>4, <1>5, <1>6, DoneStep

LEMMA StudentHandlerFailsKeeps ==
    ASSUME StudentInv, started' \in Nat, started <= started', NEW r \in Requests,
           StudentHandlerFails(r)
    PROVE  StudentInv'
<1>0. PICK t : t = task[r]
    OBVIOUS
<1>1. /\ step[r] # "idle" /\ Done(r)
      /\ loosened' = IF step[r] = "sync" THEN loosened \cup t.days ELSE loosened
      /\ unsure' = IF step[r] = "write" THEN unsure \cup {KeyOf(t)} ELSE unsure
      /\ untapped' = IF step[r] \in {"resolve", "insert"} THEN untapped \cup {t.n} ELSE untapped
      /\ UNCHANGED <<row, audit, punch, asked, holiday>>
    BY <1>0 DEF StudentHandlerFails
<1>2. t \in Task /\ t.days \subseteq Days /\ t.n \in Handlers /\ KeyOf(t) \in Keys
    BY <1>0, <1>1, DayKey DEF StudentInv, StudentTypeOK, TaskInv, Filled, Task
<1>3. StudentTypeOK'
    <2>1. step' \in [Requests -> TaskSteps] /\ task' \in [Requests -> Task]
        BY <1>1, DoneWith DEF StudentInv
    <2> QED
        BY <1>1, <1>2, <2>1 DEF StudentInv, StudentTypeOK
<1>4. \A d \in Days : Shows(d) => Shows(d)'
    BY <1>1 DEF Shows
<1>5. step[r] = "sync" => \A d \in task[r].days : d \in loosened'
    BY <1>0, <1>1
<1>6. step[r] \in {"resolve", "insert"} => task[r].n \in untapped'
    BY <1>0, <1>1
<1>7. step[r] = "write" => KeyOf(task[r]) \in unsure'
    BY <1>0, <1>1
<1>8. /\ loosened \subseteq loosened' /\ unsure \subseteq unsure' /\ untapped \subseteq untapped'
      /\ \A p \in punch' : \E o \in punch : p.id = o.id /\ p.day = o.day
    BY <1>1
<1>9. \A k \in DOMAIN audit \ unsure' : row'[k].id = row[k].id /\ row'[k].status = row[k].status
    BY <1>1
<1> QED
    BY <1>1, <1>3, <1>4, <1>5, <1>6, <1>7, <1>8, <1>9, DoneStep

LEMMA InsertPunchKeeps ==
    ASSUME StudentInv, UNCHANGED started, NEW r \in Requests, InsertPunch(r)
    PROVE  StudentInv'
<1>0. PICK t : t = task[r]
    OBVIOUS
<1> DEFINE p == [id |-> t.n, day |-> DayOf(t), exit |-> FALSE, status |-> "MISSING_EXIT"]
<1>1. /\ step[r] = "punch" /\ punch' = punch \cup {p} /\ Proceed(r, "resolve", t)
      /\ UNCHANGED <<row, audit, asked, holiday, loosened, unsure, untapped>>
    BY <1>0 DEF InsertPunch
<1>2. t \in Task /\ t.days # {} /\ t.n <= started /\ DayOf(t) \in Days /\ t.n \in Handlers
    BY <1>0, <1>1, DayKey DEF StudentInv, StudentTypeOK, TaskInv, Filled, Task
<1>3. p \in Punch /\ p.id = t.n /\ p.day = DayOf(t)
    BY <1>2 DEF Punch
<1> HIDE DEF p
<1>4. /\ step' \in [Requests -> TaskSteps] /\ task' \in [Requests -> Task]
      /\ step'[r] = "resolve" /\ task'[r] = t
      /\ \A q \in Requests \ {r} : step'[q] = step[q] /\ task'[q] = task[q]
    <2>1. "resolve" \in TaskSteps
        BY DEF TaskSteps
    <2> QED
        BY <1>1, <1>2, <2>1, Proceeded DEF StudentInv
<1>5. StudentTypeOK'
    BY <1>1, <1>3, <1>4 DEF StudentInv, StudentTypeOK
<1>6. GoesOn(r) /\ StatusInv(r)'
    BY <1>0, <1>1, <1>2, <1>4 DEF GoesOn, Filled, StatusInv
<1>7. \A q \in punch' : \/ \E o \in punch : q.id = o.id /\ q.day = o.day
                        \/ /\ step[r] = "punch" /\ step'[r] = "resolve"
                           /\ q.id = task[r].n /\ q.day = DayOf(task[r])
    BY <1>0, <1>1, <1>3, <1>4
<1>8. \A d \in Days : (Shows(d) => Shows(d)') /\ \A l \in DOMAIN asked : ~Brings(r, l, d)
    BY <1>1 DEF Shows, Brings
<1>9. started' \in Nat /\ started <= started'
    BY DEF StudentInv
<1>10. task'[r].n = task[r].n /\ DayOf(task'[r]) = DayOf(task[r])
    BY <1>0, <1>4
<1> QED
    BY <1>1, <1>4, <1>5, <1>6, <1>7, <1>8, <1>9, <1>10, TaskStep

LEMMA ResolveCardKeeps ==
    ASSUME StudentInv, UNCHANGED started, NEW r \in Requests, ResolveCard(r)
    PROVE  StudentInv'
<1>0. PICK t : t = task[r]
    OBVIOUS
<1>1. PICK status, granted :
        status = resolve(DayOf(t), computeStatusFromTime(t.tap)) /\ granted = Granted(DayOf(t))
    OBVIOUS
<1> DEFINE u == [t EXCEPT !.status = status, !.tap = None, !.granted = granted]
<1>2. /\ step[r] = "resolve"
      /\ IF status = "HOLIDAY" THEN Done(r) ELSE Proceed(r, "insert", u)
      /\ UNCHANGED <<row, audit, punch, asked, holiday, loosened, unsure, untapped>>
    BY <1>0, <1>1 DEF ResolveCard
<1>3. t \in Task /\ t.days # {} /\ t.n <= started
    BY <1>0, <1>2 DEF StudentInv, StudentTypeOK, TaskInv, Filled
<1>4. /\ status \in RowStatus /\ granted \in BOOLEAN
      /\ status = "HOLIDAY" => DayOf(t) \in holiday
    BY <1>1 DEF resolve, computeStatusFromTime, RowStatus, Granted
<1>5. u \in Task /\ u.days = t.days /\ u.n = t.n /\ u.status = status
    BY <1>3, <1>4 DEF Task
<1> HIDE DEF u
<1>6. \A d \in Days : (Shows(d) => Shows(d)') /\ \A l \in DOMAIN asked : ~Brings(r, l, d)
    BY <1>2 DEF Shows, Brings
<1>7. started' \in Nat /\ started <= started'
    BY DEF StudentInv
<1>8. \A p \in punch' : \E o \in punch : p.id = o.id /\ p.day = o.day
    BY <1>2
<1>9. CASE status = "HOLIDAY"
    <2>1. StudentTypeOK'
        <3>1. step' \in [Requests -> TaskSteps] /\ task' \in [Requests -> Task]
            BY <1>2, <1>9, DoneWith DEF StudentInv
        <3> QED
            BY <1>2, <3>1 DEF StudentInv, StudentTypeOK
    <2>2. DayOf(task[r]) \in holiday
        BY <1>0, <1>4, <1>9
    <2> QED
        BY <1>2, <1>6, <1>7, <1>8, <1>9, <2>1, <2>2, DoneStep
<1>10. CASE status # "HOLIDAY"
    <2>1. /\ step' \in [Requests -> TaskSteps] /\ task' \in [Requests -> Task]
          /\ step'[r] = "insert" /\ task'[r] = u
          /\ \A q \in Requests \ {r} : step'[q] = step[q] /\ task'[q] = task[q]
        <3>1. "insert" \in TaskSteps
            BY DEF TaskSteps
        <3> QED
            BY <1>2, <1>5, <1>10, <3>1, Proceeded DEF StudentInv
    <2>2. StudentTypeOK'
        BY <1>2, <2>1 DEF StudentInv, StudentTypeOK
    <2>3. GoesOn(r) /\ StatusInv(r)'
        BY <1>0, <1>2, <1>3, <1>4, <1>5, <2>1 DEF GoesOn, Filled, StatusInv
    <2>4. task'[r].n = task[r].n /\ DayOf(task'[r]) = DayOf(task[r])
        BY <1>0, <1>5, <2>1 DEF DayOf
    <2> QED
        BY <1>2, <1>6, <1>7, <1>8, <2>1, <2>2, <2>3, <2>4, TaskStep
<1> QED
    BY <1>9, <1>10

LEMMA SyncStudentDayKeeps ==
    ASSUME StudentInv, UNCHANGED started, NEW r \in Requests, SyncStudentDay(r)
    PROVE  StudentInv'
<1>0. PICK t : t = task[r]
    OBVIOUS
<1>1. PICK e, k, id : /\ e = Min(t.days) /\ k = <<e, "MORNING">>
                      /\ id = IF k \in DOMAIN row THEN row[k].id ELSE t.n
    OBVIOUS
<1> DEFINE v == [id |-> id, status |-> t.status]
           rest == [t EXCEPT !.days = t.days \ {k[1]}]
<1>2. /\ step[r] = "sync" /\ Wrote(Upsert(row, k, v), {k})
      /\ IF rest.days = {} THEN Done(r) ELSE Proceed(r, "sync", rest)
      /\ UNCHANGED <<audit, punch, asked, holiday, loosened, untapped>>
    BY <1>0, <1>1 DEF SyncStudentDay
<1>3. /\ t \in Task /\ t.days \in SUBSET Days /\ t.days # {} /\ t.status \in RowStatus
      /\ t.n <= started /\ (t.status = "LEAVE" \/ t.days \subseteq loosened)
    BY <1>0, <1>2 DEF StudentInv, StudentTypeOK, TaskInv, Filled, StatusInv, Task
<1>4. e \in t.days /\ e \in Days /\ k[1] = e /\ k \in Keys
    <2>1. e \in t.days
        BY <1>1, <1>3, RangeFinite
    <2> QED
        BY <1>1, <1>3, <2>1, AttendanceAssumption DEF Keys
<1>5. id \in Handlers
    BY <1>1, <1>3, StudentTables DEF StudentInv, Row, Task
<1>6. v \in Row /\ v.id = id /\ v.status = t.status
    BY <1>3, <1>5 DEF Row
<1>7. /\ rest \in Task /\ rest.days = t.days \ {e} /\ rest.n = t.n
      /\ rest.status = t.status /\ rest.leave = t.leave
    BY <1>3, <1>4 DEF Task
<1> HIDE DEF v, rest
<1>8. /\ DOMAIN row' = DOMAIN row \cup {k} /\ row'[k] = v
      /\ \A j \in DOMAIN row \ {k} : row'[j] = row[j]
    BY <1>2 DEF Wrote, Upsert
<1>9. unsure' = unsure \cup {j \in {k} \cap DOMAIN row : row[j].status # row'[j].status}
    BY <1>2 DEF Wrote
<1>10. IF rest.days = {} THEN step'[r] = "idle" ELSE step'[r] = "sync" /\ task'[r] = rest
    <2>1. "sync" \in TaskSteps
        BY DEF TaskSteps
    <2> QED
        BY <1>2, <1>7, <2>1, DoneWith, Proceeded DEF StudentInv
<1>11. /\ step' \in [Requests -> TaskSteps] /\ task' \in [Requests -> Task]
       /\ \A q \in Requests \ {r} : step'[q] = step[q] /\ task'[q] = task[q]
    <2>1. "sync" \in TaskSteps
        BY DEF TaskSteps
    <2>2. Done(r) \/ Proceed(r, "sync", rest)
        BY <1>2
    <2> QED
        BY <1>7, <2>1, <2>2, DoneWith, Proceeded DEF StudentInv
<1>12. StudentTypeOK'
    <2>1. IsTable(row', Keys, Row)
        <3>1. IsTable(row, Keys, Row) /\ row' = Upsert(row, k, v)
            BY <1>2 DEF StudentInv, StudentTypeOK, Wrote
        <3> QED
            BY <1>4, <1>6, <3>1, UpsertTable
    <2>2. unsure' \subseteq Keys
        BY <1>4, <1>9 DEF StudentInv, StudentTypeOK
    <2>3. IsTable(audit', DOMAIN row', Seq(AuditRecord))
        BY <1>2, <1>8 DEF StudentInv, StudentTypeOK, IsTable
    <2> QED
        BY <1>2, <1>11, <2>1, <2>2, <2>3 DEF StudentInv, StudentTypeOK
<1>13. GoesOn(r) /\ StatusInv(r)'
    BY <1>0, <1>2, <1>3, <1>7, <1>10 DEF GoesOn, Filled, StatusInv
<1>14. ASSUME NEW d \in Days, Shows(d) PROVE Shows(d)' \/ d \in loosened'
    <2>1. CASE d # e
        <3>1. <<d, "MORNING">> # k
            BY <1>1, <2>1
        <3> QED
            BY <1>8, <1>14, <3>1 DEF Shows
    <2>2. CASE d = e
        BY <1>1, <1>2, <1>3, <1>4, <1>6, <1>8, <2>2 DEF Shows
    <2> QED
        BY <2>1, <2>2
<1>15. ASSUME NEW d \in Days, NEW l \in DOMAIN asked, Brings(r, l, d)
       PROVE  Brings(r, l, d)' \/ Shows(d)'
    <2>1. t.leave = l /\ d \in t.days /\ t.status = "LEAVE"
        BY <1>0, <1>15 DEF Brings
    <2>2. CASE d = e
        BY <1>1, <1>6, <1>8, <2>1, <2>2 DEF Shows
    <2>3. CASE d # e
        BY <1>7, <1>10, <2>1, <2>3 DEF Brings
    <2> QED
        BY <2>2, <2>3
<1>16. ASSUME NEW j \in DOMAIN audit \ unsure'
       PROVE  row'[j].id = row[j].id /\ row'[j].status = row[j].status
    <2>1. j \in DOMAIN row
        BY DEF StudentInv, AuditInv
    <2>2. CASE j = k
        BY <1>1, <1>6, <1>8, <1>9, <2>1, <2>2
    <2>3. CASE j # k
        BY <1>8, <2>1, <2>3
    <2> QED
        BY <2>2, <2>3
<1>17. started' \in Nat /\ started <= started'
    BY DEF StudentInv
<1>18. step'[r] \notin {"resolve", "insert", "write", "punch"} /\ unsure \subseteq unsure'
    BY <1>9, <1>10
<1>19. \A p \in punch' : \E o \in punch : p.id = o.id /\ p.day = o.day
    BY <1>2
<1> QED
    BY <1>2, <1>8, <1>11, <1>12, <1>13, <1>14, <1>15, <1>16, <1>17, <1>18, <1>19, TaskStep

\* The update, which the audit log foretold.
LEMMA WriteRowKeeps ==
    ASSUME StudentInv, UNCHANGED started, NEW r \in Requests, WriteRow(r)
    PROVE  StudentInv'
<1>0. PICK t : t = task[r]
    OBVIOUS
<1>1. PICK k, d : k = KeyOf(t) /\ d = DayOf(t)
    OBVIOUS
<1>2. /\ step[r] = "write" /\ Done(r)
      /\ row' = IF Known(t) /\ t.status # None
                THEN [row EXCEPT ![k] = [row[k] EXCEPT !.status = t.status]] ELSE row
      /\ loosened' = IF t.session = "MORNING" THEN loosened \cup {d} ELSE loosened
      /\ UNCHANGED <<audit, punch, asked, holiday, unsure, untapped>>
    BY <1>0, <1>1 DEF WriteRow
<1>3. t \in Task /\ t.days # {}
    BY <1>0, <1>2 DEF StudentInv, StudentTypeOK, TaskInv, Filled
<1>4. k = <<d, t.session>> /\ k \in Keys /\ d \in Days
    BY <1>1, <1>3, DayKey
<1>5. /\ step' \in [Requests -> TaskSteps] /\ task' \in [Requests -> Task] /\ step'[r] = "idle"
      /\ \A q \in Requests \ {r} : step'[q] = step[q] /\ task'[q] = task[q]
    BY <1>2, DoneWith DEF StudentInv
<1>6. /\ DOMAIN row' = DOMAIN row /\ IsTable(row', Keys, Row)
      /\ \A j \in DOMAIN row : row'[j].id = row[j].id
      /\ \A j \in DOMAIN row \ {k} : row'[j] = row[j]
      /\ Known(t) => row'[k].status = IF t.status = None THEN row[k].status ELSE t.status
    <2>1. CASE Known(t) /\ t.status # None
        <3>1. PICK v : v = [row[k] EXCEPT !.status = t.status]
            OBVIOUS
        <3>2. k \in DOMAIN row /\ row[k] \in Row
            BY <1>1, <2>1, StudentTables DEF Known, StudentInv
        <3>3. v \in Row /\ v.id = row[k].id /\ v.status = t.status
            BY <1>3, <2>1, <3>1, <3>2 DEF Row, Task
        <3>4. row' = [j \in DOMAIN row |-> IF j = k THEN v ELSE row[j]]
            BY <1>2, <2>1, <3>1
        <3> QED
            BY <2>1, <3>2, <3>3, <3>4, StudentTables DEF StudentInv, StudentTypeOK, IsTable
    <2>2. CASE ~(Known(t) /\ t.status # None)
        BY <1>2, <2>2 DEF StudentInv, StudentTypeOK
    <2> QED
        BY <2>1, <2>2
<1>7. StudentTypeOK'
    <2>1. IsTable(audit', DOMAIN row', Seq(AuditRecord))
        BY <1>2, <1>6 DEF StudentInv, StudentTypeOK
    <2> QED
        BY <1>2, <1>4, <1>5, <1>6, <2>1 DEF StudentInv, StudentTypeOK
<1>8. started' \in Nat /\ started <= started' /\ GoesOn(r)
    BY <1>5 DEF StudentInv, GoesOn
<1>9. \A q \in Requests : TaskInv(q)'
    BY <1>5, <1>8, TasksKeep DEF StudentInv
<1>10. \A p \in punch' : \E o \in punch : p.id = o.id /\ p.day = o.day
    BY <1>2
<1>11. \A q \in Requests : PunchInv(q)'
    BY <1>5, <1>8, <1>10, PunchesKeep DEF StudentInv
<1>12. loosened \subseteq loosened'
    BY <1>2
<1>13. \A q \in Requests : StatusInv(q)'
    <2>1. StatusInv(r)'
        BY <1>5 DEF StatusInv
    <2>2. ASSUME NEW q \in Requests \ {r} PROVE StatusInv(q)'
        <3>1. StatusInv(q) /\ step'[q] = step[q] /\ task'[q] = task[q]
            BY <1>5 DEF StudentInv
        <3> QED
            BY <1>2, <1>12, <3>1 DEF StatusInv, DayOf
    <2> QED
        BY <2>1, <2>2
<1>14. TapIsOnRecord'
    BY <1>2, <1>5, <1>6, <1>10, TapsKeep DEF StudentInv
<1>15. ShownInv'
    <2>1. ASSUME NEW e \in Days, Shows(e) PROVE Shows(e)' \/ e \in loosened'
        <3>1. CASE <<e, "MORNING">> # k
            BY <1>6, <2>1, <3>1 DEF Shows
        <3>2. CASE <<e, "MORNING">> = k
            BY <1>2, <1>4, <3>2
        <3> QED
            BY <3>1, <3>2
    <2>2. \A e \in Days : \A l \in DOMAIN asked : ~Brings(r, l, e)
        BY <1>2 DEF Brings
    <2> QED
        BY <1>2, <1>5, <1>12, <2>1, <2>2, MorningsKeep DEF StudentInv
<1>16. AuditInv'
    <2> SUFFICES ASSUME NEW j \in DOMAIN audit, j \notin unsure PROVE LastWord(j)'
        BY <1>2, <1>6 DEF StudentInv, AuditInv
    <2>1. LastWord(j) /\ j \in DOMAIN row
        BY DEF StudentInv, AuditInv
    <2>2. CASE j = k
        <3>1. \A q \in Requests : q \in Writing(j) <=> step[q] = "write" /\ KeyOf(task[q]) = j
            BY DEF Writing
        <3>2. r \in Writing(j)
            BY <1>0, <1>1, <1>2, <2>2, <3>1
        <3>3. /\ \A q \in Writing(j) : q = r
              /\ Known(t) /\ row[j].status = t.old
              /\ audit[j][Len(audit[j])].new = Written(t)
            BY <1>0, <2>1, <3>2 DEF LastWord
        <3>4. Writing(j)' = {}
            <4>1. \A q \in Requests : q \in Writing(j)' <=>
                      step'[q] = "write" /\ KeyOf(task'[q]) = j
                BY DEF Writing, KeyOf, DayOf
            <4>2. \A q \in Requests : q \notin Writing(j)'
                BY <1>5, <3>1, <3>3, <4>1
            <4> QED
                BY <4>2 DEF Writing
        <3>5. row'[j].status = Written(t)
            BY <1>6, <2>2, <3>3 DEF Written
        <3> QED
            BY <1>2, <2>1, <3>3, <3>4, <3>5 DEF LastWord
    <2>3. CASE j # k
        <3>1. KeyOf(task[r]) # j /\ row'[j] = row[j] /\ j \in DOMAIN row'
            BY <1>0, <1>1, <1>6, <2>1, <2>3
        <3> QED
            BY <1>2, <1>5, <2>1, <3>1, LogKeeps
    <2> QED
        BY <2>2, <2>3
<1> QED
    BY <1>7, <1>8, <1>9, <1>11, <1>13, <1>14, <1>15, <1>16 DEF StudentInv

\* The audit record of an update, which begins where the log ended.
LEMMA AuditRowKeeps ==
    ASSUME StudentInv, UNCHANGED started, NEW r \in Requests, AuditRow(r)
    PROVE  StudentInv'
<1>0. PICK t : t = task[r]
    OBVIOUS
<1>1. PICK k, log : k = KeyOf(t) /\ log = IF k \in DOMAIN audit THEN audit[k] ELSE << >>
    OBVIOUS
<1> DEFINE v == [old |-> t.old, new |-> Written(t)]
           stale == row[k].status # t.old \/ Writing(k) # {}
<1>2. /\ step[r] = "audit"
      /\ IF Known(t)
         THEN /\ audit' = Upsert(audit, k, Append(log, v))
              /\ unsure' = IF stale THEN unsure \cup {k} ELSE unsure
              /\ Proceed(r, "write", t)
         ELSE Done(r) /\ UNCHANGED <<audit, unsure>>
      /\ UNCHANGED <<row, punch, asked, holiday, loosened, untapped>>
    BY <1>0, <1>1 DEF AuditRow, Written
<1>3. t \in Task /\ t.days # {} /\ t.n <= started
    BY <1>0, <1>2 DEF StudentInv, StudentTypeOK, TaskInv, Filled
<1>4. k \in Keys
    BY <1>1, <1>3, DayKey
<1>5. v \in AuditRecord /\ v.old = t.old /\ v.new = Written(t)
    BY <1>3 DEF Written, Task, AuditRecord
<1> HIDE DEF v
<1>6. started' \in Nat /\ started <= started'
    BY DEF StudentInv
<1>7. \A d \in Days : (Shows(d) => Shows(d)') /\ \A l \in DOMAIN asked : ~Brings(r, l, d)
    BY <1>2 DEF Shows, Brings
<1>8. \A p \in punch' : \E o \in punch : p.id = o.id /\ p.day = o.day
    BY <1>2
<1>9. CASE ~Known(t)
    <2>1. StudentTypeOK'
        <3>1. step' \in [Requests -> TaskSteps] /\ task' \in [Requests -> Task]
            BY <1>2, <1>9, DoneWith DEF StudentInv
        <3> QED
            BY <1>2, <1>9, <3>1 DEF StudentInv, StudentTypeOK
    <2> QED
        BY <1>2, <1>6, <1>7, <1>8, <1>9, <2>1, DoneStep
<1>10. CASE Known(t)
    <2>1. /\ audit' = Upsert(audit, k, Append(log, v))
          /\ unsure' = IF stale THEN unsure \cup {k} ELSE unsure
          /\ k \in DOMAIN row /\ row[k].id = t.id
        BY <1>1, <1>2, <1>10 DEF Known
    <2>2. /\ step' \in [Requests -> TaskSteps] /\ task' \in [Requests -> Task]
          /\ step'[r] = "write" /\ task'[r] = t
          /\ \A q \in Requests \ {r} : step'[q] = step[q] /\ task'[q] = task[q]
        <3>1. "write" \in TaskSteps
            BY DEF TaskSteps
        <3> QED
            BY <1>2, <1>3, <1>10, <3>1, Proceeded DEF StudentInv
    <2>3. /\ log \in Seq(AuditRecord) /\ Append(log, v) \in Seq(AuditRecord)
          /\ Len(Append(log, v)) = Len(log) + 1 /\ Len(log) \in Nat
          /\ Append(log, v)[Len(log) + 1] = v
          /\ \A i \in 1..Len(log) : Append(log, v)[i] = log[i]
        <3>1. log \in Seq(AuditRecord)
            BY <1>1, StudentTables DEF StudentInv
        <3> QED
            BY <1>5, <3>1
    <2>4. /\ DOMAIN audit' = DOMAIN audit \cup {k} /\ audit'[k] = Append(log, v)
          /\ \A j \in DOMAIN audit \ {k} : audit'[j] = audit[j]
        BY <2>1 DEF Upsert
    <2>5. StudentTypeOK'
        <3>1. IsTable(audit', DOMAIN row', Seq(AuditRecord))
            <4>1. IsTable(audit, DOMAIN row, Seq(AuditRecord))
                BY DEF StudentInv, StudentTypeOK
            <4> QED
                BY <1>2, <2>1, <2>3, <4>1, UpsertTable
        <3>2. unsure' \subseteq Keys
            BY <1>4, <2>1 DEF StudentInv, StudentTypeOK
        <3> QED
            BY <1>2, <2>2, <3>1, <3>2 DEF StudentInv, StudentTypeOK
    <2>6. GoesOn(r)
        BY <1>0, <1>2, <1>3, <2>2 DEF GoesOn, Filled
    <2>7. \A q \in Requests : TaskInv(q)'
        BY <1>6, <2>2, <2>6, TasksKeep DEF StudentInv
    <2>8. \A q \in Requests : PunchInv(q)'
        BY <1>6, <1>8, <2>2, PunchesKeep DEF StudentInv
    <2>9. \A q \in Requests : StatusInv(q)'
        <3>1. StatusInv(r)'
            BY <2>2 DEF StatusInv
        <3>2. ASSUME NEW q \in Requests \ {r} PROVE StatusInv(q)'
            <4>1. StatusInv(q) /\ step'[q] = step[q] /\ task'[q] = task[q]
                BY <2>2 DEF StudentInv
            <4> QED
                BY <1>2, <4>1 DEF StatusInv, DayOf
        <3> QED
            BY <3>1, <3>2
    <2>10. TapIsOnRecord'
        BY <1>2, <1>8, <2>2, TapsKeep DEF StudentInv
    <2>11. ShownInv'
        BY <1>2, <1>7, <2>2, MorningsKeep DEF StudentInv
    <2>12. AuditInv'
        <3>1. \A j \in DOMAIN audit' : j \in DOMAIN row' /\ audit'[j] # << >>
            <4>1. Append(log, v) # << >>
                BY <2>3
            <4> QED
                BY <1>2, <2>1, <2>4, <4>1 DEF StudentInv, AuditInv
        <3>2. ASSUME NEW j \in DOMAIN audit', j # k, j \notin unsure' PROVE LastWord(j)'
            <4>1. LastWord(j) /\ audit'[j] = audit[j] /\ j \in DOMAIN row'
                BY <1>2, <2>1, <2>4, <3>2 DEF StudentInv, AuditInv
            <4>2. KeyOf(task[r]) # j /\ KeyOf(task'[r]) # j
                BY <1>0, <1>1, <2>2, <3>2
            <4> QED
                BY <1>2, <2>2, <4>1, <4>2, LogKeeps
        <3>3. ASSUME k \notin unsure' PROVE LastWord(k)'
            <4>1. k \notin unsure /\ row[k].status = t.old /\ Writing(k) = {}
                BY <2>1, <3>3
            <4>2. Writing(k)' = {r}
                <5>1. \A q \in Requests : q \in Writing(k) <=>
                          step[q] = "write" /\ KeyOf(task[q]) = k
                    BY DEF Writing
                <5>2. \A q \in Requests : q \in Writing(k)' <=>
                          step'[q] = "write" /\ KeyOf(task'[q]) = k
                    BY DEF Writing, KeyOf, DayOf
                <5>3. \A q \in Requests : q \in Writing(k)' <=> q = r
                    BY <1>1, <2>2, <4>1, <5>1, <5>2
                <5> QED
                    BY <5>3 DEF Writing
            <4>3. Known(task[r])'
                BY <1>1, <1>2, <1>10, <2>2 DEF Known, KeyOf, DayOf
            <4>4. row'[k].status = task'[r].old
                BY <1>2, <2>2, <4>1
            <4>5. Len(audit'[k]) = Len(log) + 1 /\ audit'[k][Len(audit'[k])] = v
                BY <2>3, <2>4
            <4>6. v.new = Written(task[r])'
                BY <1>5, <2>2 DEF Written
            <4>7. Chained(audit[k])'
                <5>1. Chained(Append(log, v))
                    <6>1. CASE k \in DOMAIN audit
                        <7>1. log = audit[k] /\ LastWord(k)
                            BY <1>1, <4>1, <6>1 DEF StudentInv, AuditInv
                        <7>2. Chained(log) /\ log[Len(log)].new = v.old
                            BY <1>5, <4>1, <7>1 DEF LastWord
                        <7>3. ASSUME NEW i \in 1..Len(Append(log, v)) - 1
                              PROVE  Append(log, v)[i].new = Append(log, v)[i + 1].old
                            <8>1. i \in 1..Len(log) /\ Append(log, v)[i] = log[i]
                                BY <2>3
                            <8>2. CASE i = Len(log)
                                BY <2>3, <7>2, <8>1, <8>2
                            <8>3. CASE i # Len(log)
                                <9>1. i \in 1..Len(log) - 1 /\ i + 1 \in 1..Len(log)
                                    BY <2>3, <8>1, <8>3
                                <9>2. log[i].new = log[i + 1].old
                                    BY <7>2, <9>1 DEF Chained
                                <9> QED
                                    BY <2>3, <8>1, <9>1, <9>2
                            <8> QED
                                BY <8>2, <8>3
                        <7> QED
                            BY <7>3 DEF Chained
                    <6>2. CASE k \notin DOMAIN audit
                        <7>1. Len(log) = 0
                            BY <1>1, <6>2
                        <7> QED
                            BY <2>3, <7>1 DEF Chained
                    <6> QED
                        BY <6>1, <6>2
                <5> QED
                    BY <2>4, <5>1 DEF Chained
            <4> QED
                BY <4>2, <4>3, <4>4, <4>5, <4>6, <4>7 DEF LastWord
        <3> QED
            BY <2>4, <3>1, <3>2, <3>3 DEF AuditInv
    <2> QED
        BY <1>6, <2>5, <2>7, <2>8, <2>9, <2>10, <2>11, <2>12 DEF StudentInv
<1> QED
    BY <1>9, <1>10

\* The handlers keep their numbers, and the punches theirs, as time goes on.
LEMMA NumbersKeep ==
    ASSUME StudentInv, started' \in Nat, started <= started', UNCHANGED <<punch, step, task>>
    PROVE  \A q \in Requests : TaskInv(q)' /\ PunchInv(q)'
<1>1. \A q \in Requests : task[q].n \in Nat
    BY DEF StudentInv, StudentTypeOK, Task, Handlers
<1>2. \A p \in punch : p.id \in Nat
    BY DEF StudentInv, StudentTypeOK, Punch, Handlers
<1>3. started \in Nat /\ started' \in Nat /\ started <= started'
    BY DEF StudentInv
<1>4. ASSUME NEW q \in Requests PROVE TaskInv(q)'
    <2>1. TaskInv(q)
        BY DEF StudentInv
    <2> QED
        BY <1>1, <1>3, <2>1 DEF TaskInv
<1>5. ASSUME NEW q \in Requests PROVE PunchInv(q)'
    <2>1. PunchInv(q)
        BY DEF StudentInv
    <2> QED
        BY <1>2, <1>3, <2>1 DEF PunchInv, DayOf
<1> QED
    BY <1>4, <1>5

\* Nothing of the student's changes but the requests for leave.
LEMMA StudentAside ==
    ASSUME StudentInv, started' \in Nat, started <= started', loosened \subseteq loosened',
           UNCHANGED <<row, audit, punch, holiday, step, task, unsure, untapped>>,
           loosened' \subseteq Days, IsTable(asked', Applications, Request), ShownInv'
    PROVE  StudentInv'
<1>1. StudentTypeOK'
    BY DEF StudentInv, StudentTypeOK
<1>2. \A q \in Requests : TaskInv(q)' /\ PunchInv(q)'
    BY NumbersKeep
<1>3. \A q \in Requests : StatusInv(q)'
    <2> SUFFICES ASSUME NEW q \in Requests PROVE StatusInv(q)'
        OBVIOUS
    <2>1. StatusInv(q)
        BY DEF StudentInv
    <2> QED
        BY <2>1 DEF StatusInv, DayOf
<1>4. TapIsOnRecord'
    BY DEF StudentInv, TapIsOnRecord
<1>5. AuditInv'
    <2>1. \A k : LastWord(k) => LastWord(k)'
        BY DEF LastWord, Writing, Known, KeyOf, DayOf
    <2> QED
        BY <2>1 DEF StudentInv, AuditInv
<1> QED
    BY <1>1, <1>2, <1>3, <1>4, <1>5 DEF StudentInv

LEMMA RemoveRowKeeps ==
    ASSUME StudentInv, started' \in Nat, started <= started', NEW r \in Requests, NEW k \in Keys,
           RemoveRow(r, k)
    PROVE  StudentInv'
<1>1. /\ k \in DOMAIN row /\ row' = Without(row, {k}) /\ audit' = Without(audit, {k})
      /\ unsure' = unsure \ {k} /\ loosened' = loosened \cup {k[1]}
      /\ untapped' = untapped \cup {p.id : p \in {p \in punch : p.day = k[1]}}
      /\ UNCHANGED <<punch, asked, holiday, step, task>>
    BY DEF RemoveRow
<1>2. /\ DOMAIN row' = DOMAIN row \ {k} /\ \A j \in DOMAIN row \ {k} : row'[j] = row[j]
      /\ DOMAIN audit' = DOMAIN audit \ {k} /\ \A j \in DOMAIN audit \ {k} : audit'[j] = audit[j]
    BY <1>1 DEF Without
<1>3. k[1] \in Days
    BY DEF Keys
<1>4. StudentTypeOK'
    <2>1. IsTable(row', Keys, Row) /\ IsTable(audit', DOMAIN row', Seq(AuditRecord))
        BY <1>1, <1>2 DEF StudentInv, StudentTypeOK, IsTable, Without
    <2>2. untapped' \subseteq Handlers
        BY <1>1 DEF StudentInv, StudentTypeOK, Punch
    <2> QED
        BY <1>1, <1>3, <2>1, <2>2 DEF StudentInv, StudentTypeOK
<1>5. \A q \in Requests : TaskInv(q)' /\ PunchInv(q)'
    BY <1>1, NumbersKeep
<1>6. \A q \in Requests : StatusInv(q)'
    BY <1>1 DEF StudentInv, StatusInv, DayOf
<1>7. TapIsOnRecord'
    <2> SUFFICES ASSUME NEW p \in punch
                 PROVE  \/ <<p.day, "MORNING">> \in DOMAIN row' \/ p.day \in holiday
                        \/ p.id \in untapped'
                        \/ \E q \in Requests : step[q] \in {"resolve", "insert"} /\ task[q].n = p.id
        BY <1>1 DEF TapIsOnRecord
    <2>1. CASE p.day = k[1]
        BY <1>1, <2>1
    <2>2. CASE p.day # k[1]
        <3>1. <<p.day, "MORNING">> # k
            BY <2>2
        <3> QED
            BY <1>1, <1>2, <3>1 DEF StudentInv, TapIsOnRecord
    <2> QED
        BY <2>1, <2>2
<1>8. ShownInv'
    <2> SUFFICES ASSUME NEW l \in DOMAIN asked, asked[l].status = "APPROVED",
                        NEW d \in asked[l].days \ (loosened' \cup holiday)
                 PROVE  Shows(d)' \/ \E q \in Requests : Brings(q, l, d)'
        BY <1>1 DEF ShownInv
    <2>1. Shows(d) \/ \E q \in Requests : Brings(q, l, d)
        BY <1>1 DEF StudentInv, ShownInv
    <2>2. d # k[1]
        BY <1>1
    <2>3. Shows(d) => Shows(d)'
        <3>1. <<d, "MORNING">> # k
            BY <2>2
        <3> QED
            BY <1>2, <3>1 DEF Shows
    <2>4. \A q \in Requests : Brings(q, l, d) => Brings(q, l, d)'
        BY <1>1 DEF Brings
    <2> QED
        BY <2>1, <2>3, <2>4
<1>9. AuditInv'
    <2>1. ASSUME NEW j \in DOMAIN audit' PROVE j \in DOMAIN row' /\ audit'[j] # << >>
        BY <1>2 DEF StudentInv, AuditInv
    <2>2. ASSUME NEW j \in DOMAIN audit', j \notin unsure' PROVE LastWord(j)'
        <3>1. j # k /\ LastWord(j) /\ audit'[j] = audit[j] /\ row'[j] = row[j]
            BY <1>1, <1>2, <2>2 DEF StudentInv, AuditInv
        <3>2. Writing(j)' = Writing(j)
            BY <1>1 DEF Writing, KeyOf, DayOf
        <3>3. ASSUME NEW q \in Writing(j)
              PROVE  /\ Known(task[q])' /\ row'[j].status = task'[q].old
                     /\ audit'[j][Len(audit'[j])].new = Written(task[q])'
            <4>1. /\ Known(task[q]) /\ row[j].status = task[q].old
                  /\ audit[j][Len(audit[j])].new = Written(task[q])
                BY <3>1 DEF LastWord
            <4>2. KeyOf(task[q]) = j /\ task' = task /\ j \in DOMAIN row'
                BY <1>1, <2>1 DEF Writing
            <4> QED
                BY <3>1, <4>1, <4>2 DEF Known, Written
        <3> QED
            BY <3>1, <3>2, <3>3 DEF LastWord
    <2> QED
        BY <2>1, <2>2 DEF AuditInv
<1> QED
    BY <1>4, <1>5, <1>6, <1>7, <1>8, <1>9 DEF StudentInv

LEMMA ApplyStudentLeaveKeeps ==
    ASSUME StudentInv, started' \in Nat, started <= started', NEW r \in Requests,
           NEW l \in Applications, NEW days \in Ranges, ApplyStudentLeave(r, l, days)
    PROVE  StudentInv'
<1> DEFINE p == [days |-> days, status |-> "PENDING"]
<1>1. /\ l \notin DOMAIN asked /\ asked' = Upsert(asked, l, p)
      /\ UNCHANGED <<row, audit, punch, holiday, step, task, loosened, unsure, untapped>>
    BY DEF ApplyStudentLeave
<1>2. p \in Request /\ p.status = "PENDING"
    BY DEF Request, Status
<1> HIDE DEF p
<1>3. /\ DOMAIN asked' = DOMAIN asked \cup {l} /\ asked'[l] = p
      /\ \A j \in DOMAIN asked : asked'[j] = asked[j]
    BY <1>1 DEF Upsert
<1>4. IsTable(asked', Applications, Request)
    BY <1>1, <1>2, UpsertTable DEF StudentInv, StudentTypeOK
<1>5. ShownInv'
    <2> SUFFICES ASSUME NEW j \in DOMAIN asked', asked'[j].status = "APPROVED",
                        NEW d \in asked'[j].days \ (loosened \cup holiday)
                 PROVE  Shows(d)' \/ \E q \in Requests : Brings(q, j, d)'
        BY <1>1 DEF ShownInv
    <2>1. j \in DOMAIN asked /\ asked[j].status = "APPROVED" /\ d \in asked[j].days
        BY <1>2, <1>3
    <2>2. Shows(d) \/ \E q \in Requests : Brings(q, j, d)
        BY <2>1 DEF StudentInv, ShownInv
    <2> QED
        BY <1>1, <2>2 DEF Shows, Brings
<1>6. loosened' \subseteq Days
    BY <1>1 DEF StudentInv, StudentTypeOK
<1> QED
    BY <1>1, <1>4, <1>5, <1>6, StudentAside

LEMMA ReviewStudentLeaveKeeps ==
    ASSUME StudentInv, started < MaxTasks, started' = started + 1, NEW r \in Requests,
           NEW l \in Applications, NEW to \in {"APPROVED", "REJECTED"},
           ReviewStudentLeave(r, l, to)
    PROVE  StudentInv'
<1>0. PICK days : days = asked[l].days
    OBVIOUS
<1> DEFINE t == [NoTask EXCEPT !.days = days, !.leave = l,
                               !.status = IF to = "APPROVED" THEN "LEAVE" ELSE "ABSENT"]
<1>1. /\ l \in DOMAIN asked /\ asked' = [asked EXCEPT ![l] = [asked[l] EXCEPT !.status = to]]
      /\ IF current THEN Begin(r, "sync", t) ELSE step[r] = "idle" /\ UNCHANGED <<step, task>>
      /\ loosened' = IF to = "REJECTED" \/ ~current THEN loosened \cup days ELSE loosened
      /\ UNCHANGED <<row, audit, punch, holiday, unsure, untapped>>
    BY <1>0 DEF ReviewStudentLeave
<1>2. asked[l] \in Request /\ days \in Ranges /\ days \in SUBSET Days /\ days # {}
    BY <1>0, <1>1, StudentTables, RangesDays DEF StudentInv, Request
<1>3. /\ t \in Task /\ t.days = days /\ t.leave = l /\ ~t.granted
      /\ t.status = (IF to = "APPROVED" THEN "LEAVE" ELSE "ABSENT")
    BY <1>2, NoTaskTyped DEF Task, NoTask, RowStatus
<1> HIDE DEF t
<1>4. /\ DOMAIN asked' = DOMAIN asked /\ IsTable(asked', Applications, Request)
      /\ asked'[l].status = to /\ \A j \in DOMAIN asked : asked'[j].days = asked[j].days
      /\ \A j \in DOMAIN asked \ {l} : asked'[j] = asked[j]
    <2>1. PICK p : p = [asked[l] EXCEPT !.status = to]
        OBVIOUS
    <2>2. p \in Request /\ p.status = to /\ p.days = asked[l].days
        BY <1>2, <2>1 DEF Request, Status
    <2>3. asked' = [j \in DOMAIN asked |-> IF j = l THEN p ELSE asked[j]]
        BY <1>1, <2>1
    <2> QED
        BY <1>1, <2>2, <2>3 DEF StudentInv, StudentTypeOK, IsTable
<1>5. /\ started \in Nat /\ started' \in Nat /\ started <= started'
      /\ loosened \subseteq loosened' /\ loosened' \subseteq Days
    BY <1>1, <1>2 DEF StudentInv, StudentTypeOK
<1>6. \A d \in Days : Shows(d) => Shows(d)'
    BY <1>1 DEF Shows
<1>7. ASSUME NEW j \in DOMAIN asked', asked'[j].status = "APPROVED", j # l,
             NEW d \in asked'[j].days \ (loosened' \cup holiday)
      PROVE  Shows(d)' \/ \E q \in Requests : Brings(q, j, d)
    <2>1. j \in DOMAIN asked /\ asked[j].status = "APPROVED" /\ d \in asked[j].days
        BY <1>4, <1>7
    <2>2. d \in Days
        BY <2>1, StudentTables, RangesDays DEF StudentInv, Request
    <2>3. Shows(d) \/ \E q \in Requests : Brings(q, j, d)
        BY <1>5, <2>1 DEF StudentInv, ShownInv
    <2> QED
        BY <1>6, <2>2, <2>3
<1>8. CASE current
    <2>1. "sync" \in TaskSteps
        BY DEF TaskSteps
    <2>2. /\ step[r] = "idle" /\ step'[r] = "sync" /\ task'[r].n = started + 1
          /\ task'[r].days = days /\ task'[r].leave = l /\ task'[r].status = t.status
          /\ step' \in [Requests -> TaskSteps] /\ task' \in [Requests -> Task]
          /\ \A q \in Requests \ {r} : step'[q] = step[q] /\ task'[q] = task[q]
        BY <1>1, <1>3, <1>8, <2>1, Begun DEF StudentInv
    <2>3. StudentTypeOK'
        BY <1>1, <1>4, <1>5, <2>2 DEF StudentInv, StudentTypeOK
    <2>4. GoesOn(r)
        BY <1>2, <1>3, <2>2 DEF GoesOn, Filled, RowStatus
    <2>5. \A q \in Requests : TaskInv(q)'
        BY <1>5, <2>2, <2>4, TasksKeep DEF StudentInv
    <2>6. \A p \in punch' : \E o \in punch : p.id = o.id /\ p.day = o.day
        BY <1>1
    <2>7. \A q \in Requests : PunchInv(q)'
        BY <1>5, <2>2, <2>6, PunchesKeep DEF StudentInv
    <2>8. \A q \in Requests : StatusInv(q)'
        <3>1. StatusInv(r)'
            BY <1>1, <1>3, <2>2 DEF StatusInv
        <3>2. ASSUME NEW q \in Requests \ {r} PROVE StatusInv(q)'
            <4>1. StatusInv(q) /\ step'[q] = step[q] /\ task'[q] = task[q]
                BY <2>2 DEF StudentInv
            <4> QED
                BY <1>1, <1>5, <4>1 DEF StatusInv, DayOf
        <3> QED
            BY <3>1, <3>2
    <2>9. TapIsOnRecord'
        BY <1>1, <2>2, <2>6, TapsKeep DEF StudentInv
    <2>10. AuditInv'
        BY <1>1, <2>2, LogsKeep DEF StudentInv
    <2>11. ShownInv'
        <3> SUFFICES ASSUME NEW j \in DOMAIN asked', asked'[j].status = "APPROVED",
                            NEW d \in asked'[j].days \ (loosened' \cup holiday)
                     PROVE  Shows(d)' \/ \E q \in Requests : Brings(q, j, d)'
            BY <1>1 DEF ShownInv
        <3>1. CASE j = l
            <4>1. Brings(r, l, d)'
                BY <1>0, <1>3, <1>4, <2>2, <3>1 DEF Brings
            <4> QED
                BY <3>1, <4>1
        <3>2. CASE j # l
            <4>1. ASSUME NEW q \in Requests, Brings(q, j, d) PROVE Brings(q, j, d)'
                <5>1. q # r
                    BY <2>2, <4>1 DEF Brings
                <5>2. step'[q] = step[q] /\ task'[q] = task[q]
                    BY <2>2, <5>1
                <5> QED
                    BY <4>1, <5>2 DEF Brings
            <4> QED
                BY <1>7, <3>2, <4>1
        <3> QED
            BY <3>1, <3>2
    <2> QED
        BY <1>5, <2>3, <2>5, <2>7, <2>8, <2>9, <2>10, <2>11 DEF StudentInv
<1>9. CASE ~current
    <2>1. UNCHANGED <<step, task>> /\ loosened' = loosened \cup days
        BY <1>1, <1>9
    <2>2. ShownInv'
        <3> SUFFICES ASSUME NEW j \in DOMAIN asked', asked'[j].status = "APPROVED",
                            NEW d \in asked'[j].days \ (loosened' \cup holiday)
                     PROVE  Shows(d)' \/ \E q \in Requests : Brings(q, j, d)'
            BY <1>1 DEF ShownInv
        <3>1. j # l
            BY <1>0, <1>4, <2>1
        <3>2. \A q \in Requests : Brings(q, j, d) => Brings(q, j, d)'
            BY <2>1 DEF Brings
        <3> QED
            BY <1>7, <3>1, <3>2
    <2> QED
        BY <1>1, <1>4, <1>5, <2>1, <2>2, StudentAside
<1> QED
    BY <1>8, <1>9

-----------------------------------------------------------------------------
(* The invariant holds at first, and every step keeps it.                   *)

LEMMA InitStudent == StudentInit => StudentInv
<1> SUFFICES ASSUME StudentInit PROVE StudentInv
    OBVIOUS
<1>1. /\ started = 0 /\ row = << >> /\ audit = << >> /\ punch = {} /\ asked = << >>
      /\ step = [r \in Requests |-> "idle"] /\ task = [r \in Requests |-> NoTask]
      /\ loosened = {} /\ unsure = {} /\ untapped = {}
    BY DEF StudentInit, Init
<1>2. holiday \subseteq Days
    BY AttendanceAssumption DEF StudentInit
<1>3. DOMAIN asked = {} /\ DOMAIN audit = {}
    BY <1>1, EmptyTable
<1>4. StudentTypeOK
    <2>1. IsTable(row, Keys, Row) /\ IsTable(asked, Applications, Request)
        BY <1>1, EmptyTable
    <2>2. IsTable(audit, DOMAIN row, Seq(AuditRecord))
        BY <1>1, EmptyTable
    <2>3. step \in [Requests -> TaskSteps] /\ task \in [Requests -> Task]
        BY <1>1, NoTaskTyped DEF TaskSteps
    <2> QED
        BY <1>1, <1>2, <2>1, <2>2, <2>3 DEF StudentTypeOK
<1>5. \A r \in Requests : TaskInv(r) /\ PunchInv(r) /\ StatusInv(r)
    <2> SUFFICES ASSUME NEW r \in Requests PROVE TaskInv(r) /\ PunchInv(r) /\ StatusInv(r)
        OBVIOUS
    <2>1. step[r] = "idle" /\ punch = {}
        BY <1>1
    <2> QED
        BY <2>1 DEF TaskInv, PunchInv, StatusInv
<1>6. TapIsOnRecord /\ ShownInv /\ AuditInv
    BY <1>1, <1>3 DEF TapIsOnRecord, ShownInv, AuditInv
<1> QED
    BY <1>1, <1>4, <1>5, <1>6 DEF StudentInv

\* What happens on the side of the employee leaves the student's alone.
LEMMA StudentRests ==
    ASSUME StudentInv, started' \in Nat, started <= started', UNCHANGED studentVars
    PROVE  StudentInv'
<1>1. /\ UNCHANGED <<row, audit, punch, asked, holiday, step, task>>
      /\ UNCHANGED <<loosened, unsure, untapped>>
    BY DEF studentVars
<1>2. loosened' \subseteq Days /\ IsTable(asked', Applications, Request)
    BY <1>1 DEF StudentInv, StudentTypeOK
<1>3. ShownInv'
    <2>1. ASSUME NEW d PROVE Shows(d)' <=> Shows(d)
        BY <1>1 DEF Shows
    <2>2. ASSUME NEW q, NEW l, NEW d PROVE Brings(q, l, d)' <=> Brings(q, l, d)
        BY <1>1 DEF Brings
    <2> QED
        BY <1>1, <2>1, <2>2 DEF StudentInv, ShownInv
<1> QED
    BY <1>1, <1>2, <1>3, StudentAside

LEMMA StudentStarts ==
    ASSUME StudentInv, started < MaxTasks, started' = started + 1, StudentStart
    PROVE  StudentInv'
<1>1. started \in Nat /\ started' \in Nat /\ started <= started'
    BY DEF StudentInv
<1>2. PICK r \in Requests :
          \/ \E k \in Keys : \/ \E status \in Marks : MarkStudent(r, k, status)
                             \/ \E status \in Marks \cup {None} : UpdateRow(r, k, status)
                             \/ RemoveRow(r, k)
          \/ \E d \in Days : ApproveExit(r, d) \/ \E tap \in Taps : ReadCard(r, d, tap)
          \/ \E p \in punch, status \in {"PRESENT", "HALF_DAY"} : ResolvePunch(r, p, status)
          \/ \E l \in Applications : \/ \E days \in Ranges : ApplyStudentLeave(r, l, days)
                                     \/ \E to \in {"APPROVED", "REJECTED"} :
                                           ReviewStudentLeave(r, l, to)
          \/ StudentHandlerFails(r)
    BY DEF StudentStart
<1>3. ASSUME NEW k \in Keys, NEW status \in Marks, MarkStudent(r, k, status) PROVE StudentInv'
    BY <1>3, MarkStudentKeeps
<1>4. ASSUME NEW k \in Keys, NEW status \in Marks \cup {None}, UpdateRow(r, k, status)
      PROVE  StudentInv'
    BY <1>4, UpdateRowKeeps
<1>5. ASSUME NEW k \in Keys, RemoveRow(r, k) PROVE StudentInv'
    BY <1>1, <1>5, RemoveRowKeeps
<1>6. ASSUME NEW d \in Days, ApproveExit(r, d) PROVE StudentInv'
    BY <1>6, ApproveExitKeeps
<1>7. ASSUME NEW d \in Days, NEW tap \in Taps, ReadCard(r, d, tap) PROVE StudentInv'
    BY <1>7, ReadCardKeeps
<1>8. ASSUME NEW p \in punch, NEW status \in {"PRESENT", "HALF_DAY"}, ResolvePunch(r, p, status)
      PROVE  StudentInv'
    BY <1>8, ResolvePunchKeeps
<1>9. ASSUME NEW l \in Applications, NEW days \in Ranges, ApplyStudentLeave(r, l, days)
      PROVE  StudentInv'
    BY <1>1, <1>9, ApplyStudentLeaveKeeps
<1>10. ASSUME NEW l \in Applications, NEW to \in {"APPROVED", "REJECTED"},
              ReviewStudentLeave(r, l, to)
       PROVE  StudentInv'
    BY <1>10, ReviewStudentLeaveKeeps
<1>11. CASE StudentHandlerFails(r)
    BY <1>1, <1>11, StudentHandlerFailsKeeps
<1> QED
    BY <1>2, <1>3, <1>4, <1>5, <1>6, <1>7, <1>8, <1>9, <1>10, <1>11

LEMMA StudentContinues ==
    ASSUME StudentInv, UNCHANGED started, NEW r \in Requests, StudentContinue(r)
    PROVE  StudentInv'
    BY UpsertRowKeeps, AuditRowKeeps, WriteRowKeeps, TapOutKeeps, InsertPunchKeeps,
       ResolveCardKeeps, InsertRowKeeps, WriteDayKeeps, SyncStudentDayKeeps DEF StudentContinue

LEMMA NoStaffKeeps ==
    ASSUME StaffInv, NoStaff, current' \in BOOLEAN, started' \in Nat
    PROVE  StaffInv'
<1>1. UNCHANGED <<type, assigned, application, attendance, cached, pc, local, history>>
    BY DEF NoStaff
<1>2. IsTable(cached', Applications, Status)
    BY <1>1 DEF StaffInv, TypeOK
<1> QED
    BY <1>1, <1>2, StaffRests

LEMMA AttendanceStep ==
    ASSUME StaffInv, StudentInv, AttendanceNext \/ UNCHANGED allVars
    PROVE  StaffInv' /\ StudentInv'
<1>1. started \in Nat /\ current \in BOOLEAN
    BY DEF StaffInv, TypeOK
<1>2. CASE UNCHANGED allVars
    <2>1. NoStaff /\ UNCHANGED <<current, started, studentVars>>
        BY <1>2 DEF allVars, vars, history, NoStaff
    <2> QED
        BY <1>1, <2>1, NoStaffKeeps, StudentRests
<1>3. CASE started < MaxTasks /\ started' = started + 1 /\ StudentStart /\ NoStaff
           /\ UNCHANGED current
    BY <1>1, <1>3, StudentStarts, NoStaffKeeps
<1>4. CASE started < MaxTasks /\ started' = started + 1 /\ SetCurrentYear
           /\ UNCHANGED studentVars
    <2>1. started' \in Nat /\ started <= started'
        BY <1>1, <1>4
    <2> QED
        BY <1>4, <2>1, SetCurrentYearKeeps, StudentRests
<1>5. ASSUME NEW r \in Requests, StudentContinue(r), NoStaff, UNCHANGED <<current, started>>
      PROVE  StaffInv' /\ StudentInv'
    BY <1>1, <1>5, StudentContinues, NoStaffKeeps
<1>6. CASE Next /\ UNCHANGED studentVars
    <2>1. started' \in Nat /\ started <= started'
        BY <1>1, <1>6 DEF Next, Rest, vars
    <2> QED
        BY <1>6, <2>1, StaffNext, StudentRests
<1> QED
    BY <1>2, <1>3, <1>4, <1>5, <1>6 DEF AttendanceNext, StudentNext

LEMMA AttendanceInvariant == AttendanceSpec => [](StaffInv /\ StudentInv)
<1>1. StudentInit => StaffInv /\ StudentInv
    BY InitStaff, InitStudent DEF StudentInit
<1>2. StaffInv /\ StudentInv /\ [AttendanceNext]_allVars => (StaffInv /\ StudentInv)'
    BY AttendanceStep
<1> QED
    BY <1>1, <1>2, PTL DEF AttendanceSpec

-----------------------------------------------------------------------------
(* What the invariant says.                                                *)

\* The sum of UsedDaysMatchApprovals.
DaySums(f, S) ==
    f = [s \in SUBSET S |-> IF s = {} THEN 0
                            ELSE Cardinality(application[First(s)].days) + f[s \ {First(s)}]]

LEMMA UsedIsSum ==
    ASSUME NEW S \in SUBSET DOMAIN application, IsFiniteSet(S)
    PROVE  MapThenSumSet(LAMBDA a : Cardinality(application[a].days), S) = SumOver(Lengths, S)
<1> DEFINE F == Lengths
<1>1. MapThenSumSet(LAMBDA a : Cardinality(application[a].days), S)
      = (CHOOSE f : DaySums(f, S))[S]
    BY DEF MapThenSumSet, MapThenFoldSet, DaySums, First
<1>2. \A s \in SUBSET S : s # {} => F[First(s)] = Cardinality(application[First(s)].days)
    BY DEF First, Lengths
<1> HIDE DEF F
<1>3. ASSUME NEW f PROVE DaySums(f, S) <=> Sums(F, f, S)
    <2>1. [s \in SUBSET S |-> IF s = {} THEN 0
                              ELSE Cardinality(application[First(s)].days) + f[s \ {First(s)}]]
          = [s \in SUBSET S |-> IF s = {} THEN 0 ELSE F[First(s)] + f[s \ {First(s)}]]
        BY <1>2
    <2> QED
        BY <2>1 DEF DaySums, Sums
<1> DEFINE g == CHOOSE f : DaySums(f, S)
<1>4. DaySums(g, S)
    BY <1>3, SumsExist
<1> HIDE DEF g
<1>5. g[S] = SumOver(F, S)
    BY <1>3, <1>4, SumOverSums
<1> QED
    BY <1>1, <1>5 DEF g, F

\* Both sides of the attendance keep to their types.
THEOREM AttendanceTypeCorrect == AttendanceSpec => [](TypeOK /\ StudentTypeOK)
<1>1. StaffInv /\ StudentInv => TypeOK /\ StudentTypeOK
    BY DEF StaffInv, StudentInv
<1> QED
    BY <1>1, AttendanceInvariant, PTL

\* No assignment says that more days were used than the leave type gives, as long as one
\* application is pending at a time and none is decided twice, however reviews overlap.
THEOREM BalanceIsKept == AttendanceSpec => []BalanceNotExceeded
<1>1. StaffInv => BalanceNotExceeded
    BY DEF StaffInv, BalanceInv, BalanceNotExceeded
<1> QED
    BY <1>1, AttendanceInvariant, PTL

\* What an assignment says was used is the sum of the lengths of the applications approved
\* since it was made.
THEOREM UsedDaysAreApproved == AttendanceSpec => []UsedDaysMatchApprovals
<1>1. ASSUME StaffInv, \A r \in Requests : pc[r] # "count", overtaken \cup cut = {},
             NEW x \in DOMAIN assigned
      PROVE  assigned[x].used = MapThenSumSet(LAMBDA a : Cardinality(application[a].days),
                                              Approved("employee") \ counted[x])
    <2>1. TypeOK
        BY <1>1 DEF StaffInv
    <2>2. Added(x) = Approved("employee") \ counted[x]
        BY <1>1 DEF Added, Counting
    <2>3. Added(x) \in SUBSET DOMAIN application /\ IsFiniteSet(Added(x))
        BY <2>1, AddedFinite
    <2>4. assigned[x].used = SumOver(Lengths, Added(x))
        BY <1>1 DEF StaffInv, UsedInv
    <2>5. MapThenSumSet(LAMBDA a : Cardinality(application[a].days), Added(x))
          = SumOver(Lengths, Added(x))
        BY <2>3, UsedIsSum
    <2> QED
        BY <2>2, <2>4, <2>5
<1>2. StaffInv => UsedDaysMatchApprovals
    BY <1>1 DEF UsedDaysMatchApprovals
<1> QED
    BY <1>2, AttendanceInvariant, PTL

\* A card that was read is on record: its day has a row when its handler is over.
THEOREM TapsAreOnRecord == AttendanceSpec => []TapIsOnRecord
<1>1. StudentInv => TapIsOnRecord
    BY DEF StudentInv
<1> QED
    BY <1>1, AttendanceInvariant, PTL

\* Every day of an approved leave says so, for the employee and for the student, unless what
\* the property names came in between.
THEOREM LeavesAreOnRecord == AttendanceSpec => []LeaveIsOnRecord
<1>1. ASSUME StaffInv PROVE StaffLeaveIsOnRecord
    <2>1. \A a \in Approved("employee") \cup Approved("teacher") :
              a \in DOMAIN application /\ application[a].status = "APPROVED"
        BY DEF Approved
    <2> QED
        BY <1>1, <2>1 DEF StaffInv, OnRecordInv, StaffLeaveIsOnRecord
<1>2. ASSUME StudentInv, NEW l \in DOMAIN asked, asked[l].status = "APPROVED",
             NEW d \in asked[l].days \ (loosened \cup holiday)
      PROVE  \/ \E r \in Requests : step[r] = "sync" /\ task[r].leave = l
             \/ \E k \in OnDay(d) : k[2] = "MORNING" /\ row[k].status = "LEAVE"
    <2>1. Shows(d) \/ \E r \in Requests : Brings(r, l, d)
        BY <1>2 DEF StudentInv, ShownInv
    <2>2. CASE Shows(d)
        <3>1. PICK k : k = <<d, "MORNING">>
            OBVIOUS
        <3>2. k[1] = d /\ k[2] = "MORNING"
            BY <3>1
        <3>3. k \in OnDay(d) /\ row[k].status = "LEAVE"
            BY <2>2, <3>1, <3>2 DEF Shows, OnDay
        <3> QED
            BY <3>2, <3>3
    <2>3. ASSUME NEW r \in Requests, Brings(r, l, d)
          PROVE  step[r] = "sync" /\ task[r].leave = l
        BY <2>3 DEF Brings
    <2> QED
        BY <2>1, <2>2, <2>3
<1>3. StaffInv /\ StudentInv => LeaveIsOnRecord
    BY <1>1, <1>2 DEF LeaveIsOnRecord
<1> QED
    BY <1>3, AttendanceInvariant, PTL

\* The audit records of a row tell its history, for any number of updates of any rows.
THEOREM AuditTellsAll == AttendanceSpec => []AuditTellsHistory
<1>1. ASSUME StudentInv PROVE AuditTellsHistory
    <2>1. \A k \in DOMAIN audit \ unsure : LastWord(k)
        BY <1>1 DEF StudentInv, AuditInv
    <2> QED
        BY <2>1 DEF LastWord, Chained, AuditTellsHistory
<1>2. StudentInv => AuditTellsHistory
    BY <1>1
<1> QED
    BY <1>2, AttendanceInvariant, PTL
=============================================================================
