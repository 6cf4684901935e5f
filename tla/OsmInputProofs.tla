--------------------------- MODULE OsmInputProofs ---------------------------
(***************************************************************************)
(* Proofs about RelationScan and PbfPhases.  Whatever the relations of the *)
(* file, however many threads scan them and in whatever order their        *)
(* critical sections fall, later passes find the memberships of the file   *)
(* and its chains of ancestors; and whatever the blocks of a file that is  *)
(* read with one shard, no object is given to the Lua script twice.        *)
(***************************************************************************)
EXTENDS PbfPhases, RelationScan, Induction, TLAPS

-----------------------------------------------------------------------------
(* The relation scan: its tasks. *)

LEMMA MemberFacts ==
  ASSUME NEW r \in Relations
  PROVE  /\ Len(r.members) \in Nat /\ DOMAIN r.members = 1..Len(r.members)
         /\ \A k \in DOMAIN r.members : r.members[k] \in AllMembers /\ r.members[k].role \in AllRoles
<1>1. r.members \in Seq(Range(r.members))
  BY RelationsAssumption
<1>2. Len(r.members) \in Nat /\ DOMAIN r.members = 1..Len(r.members)
  BY <1>1, LenProperties
<1>3. \A k \in DOMAIN r.members : r.members[k] \in AllMembers
  BY DEF AllMembers, Range
<1> QED BY <1>2, <1>3 DEF AllRoles

LEMMA TaskFacts ==
  ASSUME task \in [Scanners -> Tasks], NEW s \in Scanners, task[s].on
  PROVE  /\ task[s] \in [on : {TRUE}, rel : Wanted, at : Nat \ {0}, role : Int]
         /\ task[s].rel \in Wanted /\ task[s].at \in Nat \ {0} /\ task[s].role \in Int
<1>1. task[s] # Idle
  BY DEF Idle
<1> QED BY <1>1 DEF Tasks

LEMMA IdleIsTask == Idle \in Tasks
BY DEF Tasks

(* The scan begins. *)
LEMMA ScanBegins ==
  ASSUME InitScan
  PROVE  ScanInv
<1>1. /\ scanPhase = "scan" /\ unscanned = Relations /\ task = [s \in Scanners |-> Idle]
      /\ rareRoles = <<>> /\ memberships = [k \in {} |-> <<>>]
  BY DEF InitScan
<1>2. \A m \in AllMembers : ListOf(m) = <<>>
  <2>1. DOMAIN memberships = {}
    BY <1>1
  <2> QED BY <2>1, Zenon DEF ListOf, RelationsFor, At
<1>3. ScanTypeOK
  <2>1. task \in [Scanners -> Tasks]
    BY <1>1, IdleIsTask
  <2>2. <<>> \in Seq({r.id : r \in Relations} \X Nat) /\ DOMAIN <<>> = {} /\ <<>> \in Seq(AllRoles)
    OBVIOUS
  <2> QED BY <1>1, <1>2, <2>1, <2>2 DEF ScanTypeOK
<1>4. TasksHold
  BY <1>1 DEF TasksHold, Idle
<1>5. \A q \in Wanted : Added(q) = {}
  BY <1>1 DEF Added, Wanted
<1>6. MembershipsAdded
  <2>1. ASSUME NEW q \in Wanted, NEW m \in AllMembers, NEW role \in AllRoles
        PROVE  EntriesFor(ListOf(m), q, role) = {} /\ MembersFor(q, m, role) = {}
    <3>1. DOMAIN ListOf(m) = {}
      BY <1>2
    <3> QED BY <1>5, <3>1 DEF EntriesFor, MembersFor
  <2> QED BY <2>1, Zenon DEF MembershipsAdded
<1> QED BY <1>3, <1>4, <1>6 DEF ScanInv

-----------------------------------------------------------------------------
(* Roles. *)

(* The number of a role stands for it from now on.                         *)
LEMMA RoleNumbered ==
  ASSUME rareRoles \in Seq(AllRoles), NEW role \in AllRoles, NEW rare, rare = AddRole(role)
  PROVE  /\ rare \in Seq(AllRoles) /\ Len(rareRoles) <= Len(rare)
         /\ \A i \in 1..Len(rareRoles) : rare[i] = rareRoles[i]
         /\ RoleId(rare, role) \in Nat /\ RoleId(rare, role) < Len(PopularRoles) + Len(rare)
         /\ role = IF RoleId(rare, role) < Len(PopularRoles) THEN PopularRoles[RoleId(rare, role) + 1]
                   ELSE rare[RoleId(rare, role) - Len(PopularRoles) + 1]
<1> DEFINE P == Len(PopularRoles)
           n == Len(rareRoles)
<1>1. PopularRoles \in Seq(Range(PopularRoles))
  BY RelationsAssumption
<1>2. P \in Nat /\ DOMAIN PopularRoles = 1..P /\ n \in Nat /\ DOMAIN rareRoles = 1..n
  BY <1>1, LenProperties
<1>3. rare \in Seq(AllRoles) /\ Len(rareRoles) <= Len(rare) /\ \A i \in 1..Len(rareRoles) : rare[i] = rareRoles[i]
  <2>1. CASE rare = rareRoles
    BY <1>2, <2>1
  <2>2. CASE rare = Append(rareRoles, role)
    BY <1>2, <2>2, AppendProperties
  <2> QED BY <2>1, <2>2 DEF AddRole
<1>4. CASE role \in Range(PopularRoles)
  <2>1. \E i \in 1..P : PopularRoles[i] = role
    BY <1>2, <1>4 DEF Range
  <2>2. PICK i : i = PositionIn(PopularRoles, role)
    OBVIOUS
  <2>3. i \in 1..P /\ PopularRoles[i] = role
    BY <2>1, <2>2 DEF PositionIn
  <2>4. RoleId(rare, role) = i - 1
    BY <1>4, <2>2 DEF RoleId
  <2>5. Len(rare) \in Nat
    BY <1>3, LenProperties
  <2> QED BY <1>2, <1>3, <2>3, <2>4, <2>5
<1>5. CASE role \notin Range(PopularRoles)
  <2> DEFINE m == Len(rare)
  <2>0. m \in Nat /\ DOMAIN rare = 1..m
    BY <1>3, LenProperties
  <2>1. \E i \in 1..m : rare[i] = role
    <3>1. CASE role \in Range(rareRoles)
      <4>1. rare = rareRoles
        BY <3>1 DEF AddRole
      <4> QED BY <1>2, <3>1, <4>1 DEF Range
    <3>2. CASE role \notin Range(rareRoles)
      <4>1. rare = Append(rareRoles, role)
        BY <1>5, <3>2 DEF AddRole
      <4>2. m = n + 1 /\ rare[n + 1] = role
        BY <4>1, AppendProperties
      <4> QED BY <1>2, <4>2
    <3> QED BY <3>1, <3>2
  <2>2. PICK i : i = PositionIn(rare, role)
    OBVIOUS
  <2>3. i \in 1..m /\ rare[i] = role
    BY <2>1, <2>2 DEF PositionIn
  <2>4. RoleId(rare, role) = P + i - 1
    BY <1>5, <2>2 DEF RoleId
  <2> HIDE DEF P, m
  <2>5. P + i - 1 \in Nat /\ P + i - 1 < P + m /\ ~(P + i - 1 < P) /\ (P + i - 1) - P + 1 = i
    BY <1>2, <2>0, <2>3
  <2> QED BY <1>3, <2>3, <2>4, <2>5 DEF P, m
<1> QED BY <1>4, <1>5

(* Numbers that are known keep their meaning while roles are added.        *)
LEMMA RolesKept ==
  ASSUME rareRoles \in Seq(AllRoles), rareRoles' \in Seq(AllRoles), Len(rareRoles) <= Len(rareRoles'),
         \A i \in 1..Len(rareRoles) : rareRoles'[i] = rareRoles[i], PopularRoles \in Seq(Range(PopularRoles)),
         NEW id, Known(id)
  PROVE  Known(id)' /\ GetRole(id)' = GetRole(id)
<1> DEFINE P == Len(PopularRoles)
           n == Len(rareRoles)
           m == Len(rareRoles')
<1>1. P \in Nat /\ n \in Nat /\ m \in Nat /\ n <= m /\ id \in Nat /\ id < P + n
  BY LenProperties DEF Known
<1>2. Known(id)'
  <2>1. id < P + m
    <3> HIDE DEF P, n, m
    <3> QED BY <1>1
  <2> QED BY <1>1, <2>1 DEF Known
<1>3. id < P \/ id - P + 1 \in 1..n
  <2> HIDE DEF P, n, m
  <2> QED BY <1>1
<1> QED BY <1>2, <1>3 DEF GetRole

-----------------------------------------------------------------------------
(* Steps that add no member. *)

LEMMA CountsKept ==
  ASSUME ScanTypeOK, MembershipsAdded, \A m \in AllMembers : ListOf(m)' = ListOf(m),
         \A id : Known(id) => Known(id)' /\ GetRole(id)' = GetRole(id),
         \A q \in Wanted : Added(q)' = Added(q)
  PROVE  /\ MembershipsAdded'
         /\ \A m \in AllMembers : (ListOf(m) \in Seq({r.id : r \in Relations} \X Nat))'
         /\ \A m \in AllMembers : (\A k \in DOMAIN ListOf(m) : Known(ListOf(m)[k][2]))'
<1>1. ASSUME NEW q \in Wanted, NEW m \in AllMembers, NEW role \in AllRoles
      PROVE  (Cardinality(EntriesFor(ListOf(m), q, role)) = Cardinality(MembersFor(q, m, role)))'
  <2>1. PICK l : l = ListOf(m)
    OBVIOUS
  <2>2. ListOf(m)' = l /\ \A k \in DOMAIN l : Known(l[k][2])
    BY <2>1 DEF ScanTypeOK
  <2>3. EntriesFor(ListOf(m), q, role)' = {k \in DOMAIN l : l[k][1] = q.id /\ GetRole(l[k][2])' = role}
    BY <2>2 DEF EntriesFor
  <2>4. \A k \in DOMAIN l : GetRole(l[k][2])' = GetRole(l[k][2])
    BY <2>2
  <2>5. EntriesFor(ListOf(m), q, role) = {k \in DOMAIN l : l[k][1] = q.id /\ GetRole(l[k][2]) = role}
    BY <2>1 DEF EntriesFor
  <2>6. EntriesFor(ListOf(m), q, role)' = EntriesFor(ListOf(m), q, role)
    BY <2>3, <2>4, <2>5
  <2>7. MembersFor(q, m, role)' = MembersFor(q, m, role)
    BY DEF MembersFor
  <2> QED BY <2>6, <2>7 DEF MembershipsAdded
<1>2. MembershipsAdded'
  BY <1>1 DEF MembershipsAdded
<1>3. ASSUME NEW m \in AllMembers
      PROVE  (ListOf(m) \in Seq({r.id : r \in Relations} \X Nat))' /\ (\A k \in DOMAIN ListOf(m) : Known(ListOf(m)[k][2]))'
  <2>1. PICK l : l = ListOf(m)
    OBVIOUS
  <2>2. ListOf(m)' = l /\ l \in Seq({r.id : r \in Relations} \X Nat) /\ \A k \in DOMAIN l : Known(l[k][2])'
    BY <2>1 DEF ScanTypeOK
  <2> QED BY <2>2
<1> QED BY <1>2, <1>3

LEMMA TakeKeeps ==
  ASSUME ScanInv, NEW s \in Scanners, NEW r \in unscanned, TakeRelation(s, r)
  PROVE  ScanInv' /\ \A q \in Wanted : Added(q)' = Added(q)
<1>1. /\ scanPhase = "scan" /\ task[s] = Idle /\ unscanned' = unscanned \ {r} /\ scanPhase' = scanPhase
      /\ rareRoles' = rareRoles /\ memberships' = memberships
  BY DEF TakeRelation
<1>2. r \in Relations /\ unscanned \subseteq Relations /\ task \in [Scanners -> Tasks]
  BY DEF ScanInv, ScanTypeOK
<1>3. \/ r \notin Wanted /\ task' = task
      \/ r \in Wanted /\ task' = [task EXCEPT ![s] = [on |-> TRUE, rel |-> r, at |-> 1, role |-> -1]]
  <2>1. {r.accept, r.native} \subseteq BOOLEAN
    BY <1>2, RelationsAssumption
  <2> QED BY <1>2, <2>1 DEF TakeRelation, Wanted
<1>4. Len(r.members) \in Nat /\ DOMAIN r.members = 1..Len(r.members)
  BY <1>2, MemberFacts
<1>5. task' \in [Scanners -> Tasks]
  <2>1. r \in Wanted => [on |-> TRUE, rel |-> r, at |-> 1, role |-> -1] \in Tasks
    BY DEF Tasks
  <2> QED BY <1>2, <1>3, <2>1
<1>6. TasksHold'
  <2>1. CASE r \notin Wanted /\ task' = task
    BY <1>1, <2>1 DEF ScanInv, TasksHold, Known, GetRole
  <2>2. CASE r \in Wanted /\ task' = [task EXCEPT ![s] = [on |-> TRUE, rel |-> r, at |-> 1, role |-> -1]]
    <3>1. task'[s] = [on |-> TRUE, rel |-> r, at |-> 1, role |-> -1] /\ \A t \in Scanners \ {s} : task'[t] = task[t]
      BY <1>2, <2>2
    <3>2. 1 <= Len(r.members) + 1
      BY <1>4
    <3>3. \A t \in Scanners \ {s} : task[t].on => task[t].rel # r
      BY DEF ScanInv, TasksHold
    <3>4. \A t \in Scanners \ {s} : task[t].on => task[t].rel \notin unscanned'
      BY <1>1, <3>3 DEF ScanInv, TasksHold
    <3>5. ASSUME NEW t \in Scanners, task'[t].on
          PROVE  /\ task'[t].rel \notin unscanned' /\ task'[t].at <= Len(task'[t].rel.members) + 1
                 /\ task'[t].role # -1 => /\ task'[t].at <= Len(task'[t].rel.members) /\ Known(task[t].role)'
                                          /\ GetRole(task[t].role)' = task'[t].rel.members[task'[t].at].role
      <4>1. CASE t = s
        BY <1>1, <3>1, <3>2, <4>1
      <4>2. CASE t # s
        BY <1>1, <3>1, <3>4, <3>5, <4>2 DEF ScanInv, TasksHold, Known, GetRole
      <4> QED BY <4>1, <4>2
    <3>6. \A t, u \in Scanners : task'[t].on /\ task'[u].on /\ task'[t].rel = task'[u].rel => t = u
      BY <3>1, <3>3 DEF ScanInv, TasksHold
    <3> QED BY <1>1, <3>5, <3>6 DEF TasksHold
  <2> QED BY <1>3, <2>1, <2>2
<1>7. ASSUME NEW q \in Wanted PROVE Added(q)' = Added(q)
  <2>1. CASE q = r
    <3>1. task' = [task EXCEPT ![s] = [on |-> TRUE, rel |-> r, at |-> 1, role |-> -1]]
      BY <1>3, <2>1
    <3>2. OnTask(s, q)' /\ task'[s].at = 1
      BY <1>2, <2>1, <3>1 DEF OnTask
    <3>3. Added(q) = {}
      BY <2>1 DEF Added
    <3>4. \A k \in DOMAIN q.members : ~(k < 1)
      BY <1>4, <2>1
    <3>5. Added(q)' = {}
      BY <3>2, <3>4 DEF Added
    <3> QED BY <3>3, <3>5
  <2>2. CASE q # r
    <3>1. \A t \in Scanners : OnTask(t, q)' = OnTask(t, q) /\ (OnTask(t, q) => task'[t].at = task[t].at)
      BY <1>1, <1>2, <1>3, <2>2 DEF OnTask, Idle
    <3>2. (q \notin unscanned') = (q \notin unscanned)
      BY <1>1, <2>2
    <3> QED BY <3>1, <3>2 DEF Added
  <2> QED BY <2>1, <2>2
<1>8. \A m \in AllMembers : ListOf(m)' = ListOf(m)
  BY <1>1 DEF ListOf, RelationsFor
<1>9. \A id : Known(id) => Known(id)' /\ GetRole(id)' = GetRole(id)
  BY <1>1 DEF Known, GetRole
<1> QED BY <1>1, <1>2, <1>5, <1>6, <1>7, <1>8, <1>9, CountsKept DEF ScanInv, ScanTypeOK

LEMMA EndKeeps ==
  ASSUME ScanInv, NEW s \in Scanners, EndRelation(s)
  PROVE  ScanInv' /\ \A q \in Wanted : Added(q)' = Added(q)
<1>1. /\ task[s].on /\ task[s].at > Len(task[s].rel.members) /\ task' = [task EXCEPT ![s] = Idle]
      /\ UNCHANGED <<scanPhase, unscanned, rareRoles, memberships>>
  BY DEF EndRelation
<1>2. task \in [Scanners -> Tasks] /\ task'[s] = Idle /\ \A t \in Scanners \ {s} : task'[t] = task[t]
  BY <1>1 DEF ScanInv, ScanTypeOK
<1>3. task' \in [Scanners -> Tasks]
  BY <1>1, <1>2 DEF Tasks
<1>4. TasksHold'
  BY <1>1, <1>2 DEF ScanInv, TasksHold, Known, GetRole, Idle
<1>5. ASSUME NEW q \in Wanted PROVE Added(q)' = Added(q)
  <2>1. \A t \in Scanners \ {s} : OnTask(t, q)' = OnTask(t, q) /\ (OnTask(t, q) => task'[t].at = task[t].at)
    BY <1>2 DEF OnTask
  <2>2. ~OnTask(s, q)'
    BY <1>2 DEF OnTask, Idle
  <2>3. \A k \in DOMAIN q.members : OnTask(s, q) => k < task[s].at
    <3>1. SUFFICES ASSUME NEW k \in DOMAIN q.members, OnTask(s, q) PROVE k < task[s].at
      OBVIOUS
    <3>2. q = task[s].rel /\ task[s].at \in Nat
      BY <1>1, <1>2, <3>1, TaskFacts DEF OnTask
    <3>3. k \in 1..Len(q.members) /\ Len(q.members) \in Nat
      BY <3>1, MemberFacts DEF Wanted
    <3> QED BY <1>1, <3>2, <3>3
  <2> QED BY <1>1, <2>1, <2>2, <2>3 DEF Added
<1>6. \A m \in AllMembers : ListOf(m)' = ListOf(m)
  BY <1>1 DEF ListOf, RelationsFor
<1>7. \A id : Known(id) => Known(id)' /\ GetRole(id)' = GetRole(id)
  BY <1>1 DEF Known, GetRole
<1> QED BY <1>1, <1>3, <1>4, <1>5, <1>6, <1>7, CountsKept DEF ScanInv, ScanTypeOK

LEMMA RoleKeeps ==
  ASSUME ScanInv, NEW s \in Scanners, FindRole(s)
  PROVE  ScanInv' /\ \A q \in Wanted : Added(q)' = Added(q)
<1>1. PICK role : role = task[s].rel.members[task[s].at].role
  OBVIOUS
<1>2. PICK id : id = RoleId(AddRole(role), role)
  OBVIOUS
<1>3. /\ task[s].on /\ task[s].at <= Len(task[s].rel.members) /\ rareRoles' = AddRole(role)
      /\ task' = [task EXCEPT ![s].role = id] /\ UNCHANGED <<scanPhase, unscanned, memberships>>
  BY <1>1, <1>2 DEF FindRole
<1>4. task \in [Scanners -> Tasks] /\ task[s].rel \in Wanted /\ task[s].at \in Nat \ {0} /\ rareRoles \in Seq(AllRoles)
  BY <1>3, TaskFacts DEF ScanInv, ScanTypeOK
<1>5. role \in AllRoles
  <2>1. task[s].at \in DOMAIN task[s].rel.members
    BY <1>3, <1>4, MemberFacts DEF Wanted
  <2> QED BY <1>1, <1>4, <2>1, MemberFacts DEF Wanted
<1>6. PICK rare : rare = AddRole(role)
  OBVIOUS
<1>7. /\ rare \in Seq(AllRoles) /\ Len(rareRoles) <= Len(rare)
      /\ \A i \in 1..Len(rareRoles) : rare[i] = rareRoles[i]
      /\ id \in Nat /\ id < Len(PopularRoles) + Len(rare)
      /\ role = IF id < Len(PopularRoles) THEN PopularRoles[id + 1] ELSE rare[id - Len(PopularRoles) + 1]
  BY <1>2, <1>4, <1>5, <1>6, RoleNumbered
<1>8. rareRoles' = rare /\ Known(id)' /\ GetRole(id)' = role
  BY <1>3, <1>6, <1>7 DEF Known, GetRole
<1>9. \A i : Known(i) => Known(i)' /\ GetRole(i)' = GetRole(i)
  BY <1>4, <1>7, <1>8, RolesKept, RelationsAssumption
<1>10. /\ \A t \in Scanners \ {s} : task'[t] = task[t]
       /\ task'[s].on /\ task'[s].rel = task[s].rel /\ task'[s].at = task[s].at /\ task'[s].role = id
       /\ task'[s] \in Tasks
  <2>1. task[s] \in [on : {TRUE}, rel : Wanted, at : Nat \ {0}, role : Int]
    BY <1>3, <1>4, TaskFacts
  <2>2. task'[s] = [task[s] EXCEPT !.role = id] /\ \A t \in Scanners \ {s} : task'[t] = task[t]
    BY <1>3, <1>4
  <2>3. [task[s] EXCEPT !.role = id] \in [on : {TRUE}, rel : Wanted, at : Nat \ {0}, role : Int]
    <3>1. PICK w : w = task[s]
      OBVIOUS
    <3>2. w \in [on : {TRUE}, rel : Wanted, at : Nat \ {0}, role : Int]
      BY <2>1, <3>1, Zenon
    <3>3. [w EXCEPT !.role = id] \in [on : {TRUE}, rel : Wanted, at : Nat \ {0}, role : Int]
      <4>1. id \in Int
        BY <1>7
      <4> QED BY <3>2, <4>1
    <3> QED BY <3>1, <3>3
  <2>4. task'[s] \in Tasks
    BY <2>2, <2>3 DEF Tasks
  <2> QED BY <2>1, <2>2, <2>4
<1>11. task' \in [Scanners -> Tasks]
  BY <1>3, <1>4, <1>10
<1>12. TasksHold'
  <2>1. ASSUME NEW t \in Scanners, task'[t].on
        PROVE  /\ task'[t].rel \notin unscanned' /\ task'[t].at <= Len(task'[t].rel.members) + 1
               /\ task'[t].role # -1 => /\ task'[t].at <= Len(task'[t].rel.members) /\ Known(task[t].role)'
                                        /\ GetRole(task[t].role)' = task'[t].rel.members[task'[t].at].role
    <3>1. CASE t = s
      <4>1. task'[s].role = id /\ task'[s].rel = task[s].rel /\ task'[s].at = task[s].at
        BY <1>10
      <4>2. Known(task[s].role)' /\ GetRole(task[s].role)' = role
        BY <1>8, <4>1 DEF Known, GetRole
      <4> QED BY <1>1, <1>3, <3>1, <4>1, <4>2 DEF ScanInv, TasksHold
    <3>2. CASE t # s
      <4>1. PICK i : i = task[t].role
        OBVIOUS
      <4>2. task'[t] = task[t] /\ task'[t].role = i
        BY <1>10, <3>2, <4>1
      <4>3. /\ task[t].rel \notin unscanned /\ task[t].at <= Len(task[t].rel.members) + 1
            /\ i # -1 => /\ task[t].at <= Len(task[t].rel.members) /\ Known(i)
                         /\ GetRole(i) = task[t].rel.members[task[t].at].role
        BY <2>1, <4>1, <4>2 DEF ScanInv, TasksHold
      <4>4. i # -1 => Known(i)' /\ GetRole(i)' = task[t].rel.members[task[t].at].role
        BY <1>9, <4>3
      <4>5. i # -1 => Known(task[t].role)' /\ GetRole(task[t].role)' = task[t].rel.members[task[t].at].role
        BY <4>2, <4>4 DEF Known, GetRole
      <4> QED BY <1>3, <4>2, <4>3, <4>5
    <3> QED BY <3>1, <3>2
  <2>2. \A t, u \in Scanners : task'[t].on /\ task'[u].on /\ task'[t].rel = task'[u].rel => t = u
    BY <1>3, <1>10 DEF ScanInv, TasksHold
  <2>3. scanPhase' # "scan" => FALSE
    BY <1>3 DEF ScanInv, TasksHold, Idle
  <2> QED BY <2>1, <2>2, <2>3 DEF TasksHold
<1>13. ASSUME NEW q \in Wanted PROVE Added(q)' = Added(q)
  <2>1. \A t \in Scanners : OnTask(t, q)' = OnTask(t, q) /\ task'[t].at = task[t].at
    BY <1>3, <1>10 DEF OnTask
  <2> QED BY <1>3, <2>1 DEF Added
<1>14. \A m \in AllMembers : ListOf(m)' = ListOf(m)
  BY <1>3 DEF ListOf, RelationsFor
<1> QED BY <1>3, <1>7, <1>8, <1>9, <1>11, <1>12, <1>13, <1>14, CountsKept DEF ScanInv, ScanTypeOK

-----------------------------------------------------------------------------
(* A member is added. *)

LEMMA ListLonger ==
  ASSUME NEW m0, NEW e, NEW m,
         memberships' = Put(memberships, <<m0.type, Shard(m0.type, m0.id), m0.id>>, Append(ListOf(m0), e))
  PROVE  ListOf(m)' = IF m.type = m0.type /\ m.id = m0.id THEN Append(ListOf(m), e) ELSE ListOf(m)
<1> DEFINE slot0 == <<m0.type, Shard(m0.type, m0.id), m0.id>>
           slot == <<m.type, Shard(m.type, m.id), m.id>>
<1>1. PICK l : l = Append(ListOf(m0), e)
  OBVIOUS
<1>2. /\ DOMAIN memberships' = DOMAIN memberships \cup {slot0}
      /\ \A k \in DOMAIN memberships' : memberships'[k] = IF k = slot0 THEN l ELSE memberships[k]
  <2> HIDE DEF slot0
  <2> QED BY <1>1 DEF Put, slot0
<1>3. ListOf(m) = (IF slot \in DOMAIN memberships THEN memberships[slot] ELSE <<>>)
  BY DEF ListOf, RelationsFor, At
<1>4. ListOf(m)' = (IF slot \in DOMAIN memberships' THEN memberships'[slot] ELSE <<>>)
  BY DEF ListOf, RelationsFor, At
<1>5. CASE m.type = m0.type /\ m.id = m0.id
  <2>1. slot = slot0 /\ ListOf(m) = ListOf(m0)
    BY <1>5 DEF ListOf
  <2> QED BY <1>1, <1>2, <1>4, <1>5, <2>1
<1>6. CASE ~(m.type = m0.type /\ m.id = m0.id)
  <2>1. slot # slot0
    BY <1>6
  <2> HIDE DEF slot, slot0
  <2>2. ListOf(m)' = ListOf(m)
    BY <1>2, <1>3, <1>4, <2>1
  <2> QED BY <1>6, <2>2
<1> QED BY <1>5, <1>6

(* An entry counts where it says what is counted.                          *)
LEMMA EntryCounts ==
  ASSUME NEW T, NEW l \in Seq(T), NEW e \in T, NEW q, NEW role, rareRoles' = rareRoles
  PROVE  LET l2 == Append(l, e)
         IN  /\ IsFiniteSet(EntriesFor(l, q, role))
             /\ IF e[1] = q.id /\ GetRole(e[2]) = role
                THEN Cardinality(EntriesFor(l2, q, role)) = Cardinality(EntriesFor(l, q, role)) + 1
                ELSE EntriesFor(l2, q, role) = EntriesFor(l, q, role)
<1> DEFINE l2 == Append(l, e)
           n == Len(l)
           E == EntriesFor(l, q, role)
           E2 == EntriesFor(l2, q, role)
<1>1. n \in Nat /\ DOMAIN l = 1..n /\ DOMAIN l2 = 1..(n + 1) /\ l2[n + 1] = e /\ \A k \in 1..n : l2[k] = l[k]
  BY AppendProperties, LenProperties
<1> HIDE DEF l2, n
<1>2. IsFiniteSet(E)
  <2>1. E \subseteq 1..n
    BY <1>1 DEF EntriesFor
  <2>2. IsFiniteSet(1..n)
    BY <1>1, FS_Interval
  <2> QED BY <2>1, <2>2, FS_Subset
<1>3. n + 1 \notin E
  BY <1>1 DEF EntriesFor
<1>4. CASE e[1] = q.id /\ GetRole(e[2]) = role
  <2>1. E2 = E \cup {n + 1}
    BY <1>1, <1>4 DEF EntriesFor
  <2>2. Cardinality(E2) = Cardinality(E) + 1
    BY <1>2, <1>3, <2>1, FS_AddElement
  <2> QED BY <1>2, <1>4, <2>2 DEF l2
<1>5. CASE ~(e[1] = q.id /\ GetRole(e[2]) = role)
  <2>1. E2 = E
    BY <1>1, <1>5 DEF EntriesFor
  <2> QED BY <1>2, <1>5, <2>1 DEF l2
<1> QED BY <1>4, <1>5

LEMMA AddKeeps ==
  ASSUME ScanInv, NEW s \in Scanners, AddMember(s)
  PROVE  /\ ScanInv'
         /\ task[s].rel \in Wanted /\ task[s].at \in DOMAIN task[s].rel.members /\ task[s].role \in Nat
         /\ task[s].at \notin Added(task[s].rel)
         /\ \A q \in Wanted : Added(q)' = IF q = task[s].rel THEN Added(q) \cup {task[s].at} ELSE Added(q)
<1>1. PICK q0, at, role0 : q0 = task[s].rel /\ at = task[s].at /\ role0 = task[s].role
  OBVIOUS
<1>2. PICK m0 : m0 = q0.members[at]
  OBVIOUS
<1>3. PICK e : e = <<q0.id, role0>>
  OBVIOUS
<1>4. /\ task[s].on /\ role0 # -1 /\ task' = [task EXCEPT ![s].at = @ + 1, ![s].role = -1]
      /\ UNCHANGED <<scanPhase, unscanned, rareRoles>>
      /\ memberships' = Put(memberships, <<m0.type, Shard(m0.type, m0.id), m0.id>>, Append(ListOf(m0), e))
  BY <1>1, <1>2, <1>3 DEF AddMember, ListOf, RelationsFor
<1>5. /\ task \in [Scanners -> Tasks] /\ q0 \in Wanted /\ q0 \in Relations /\ at \in Nat \ {0} /\ role0 \in Int
      /\ task[s] \in [on : {TRUE}, rel : Wanted, at : Nat \ {0}, role : Int]
  BY <1>1, <1>4, TaskFacts DEF ScanInv, ScanTypeOK, Wanted
<1>6. q0 \notin unscanned /\ at <= Len(q0.members) /\ Known(role0) /\ GetRole(role0) = m0.role
  BY <1>1, <1>2, <1>4 DEF ScanInv, TasksHold
<1>7. Len(q0.members) \in Nat /\ at \in DOMAIN q0.members /\ m0 \in AllMembers /\ m0.role \in AllRoles
  BY <1>2, <1>5, <1>6, MemberFacts
<1>8. /\ \A t \in Scanners \ {s} : task'[t] = task[t]
      /\ task'[s].on /\ task'[s].rel = q0 /\ task'[s].at = at + 1 /\ task'[s].role = -1
      /\ task'[s] \in Tasks
  <2>1. task'[s] = [task[s] EXCEPT !.at = @ + 1, !.role = -1] /\ \A t \in Scanners \ {s} : task'[t] = task[t]
    BY <1>4, <1>5
  <2>2. [task[s] EXCEPT !.at = @ + 1, !.role = -1] \in [on : {TRUE}, rel : Wanted, at : Nat \ {0}, role : Int]
    <3>1. PICK w : w = task[s]
      OBVIOUS
    <3>2. w \in [on : {TRUE}, rel : Wanted, at : Nat \ {0}, role : Int]
      <4>1. task[s] \in [on : {TRUE}, rel : Wanted, at : Nat \ {0}, role : Int]
        BY <1>5
      <4> QED BY <3>1, <4>1, Zenon
    <3>3. [w EXCEPT !.at = @ + 1, !.role = -1] \in [on : {TRUE}, rel : Wanted, at : Nat \ {0}, role : Int]
      <4>1. PICK n : n = w.at + 1
        OBVIOUS
      <4>2. n \in Nat \ {0} /\ -1 \in Int
        BY <3>2, <4>1
      <4>3. [w EXCEPT !.at = n, !.role = -1] \in [on : {TRUE}, rel : Wanted, at : Nat \ {0}, role : Int]
        BY <3>2, <4>2
      <4> QED BY <4>1, <4>3
    <3> QED BY <3>1, <3>3
  <2>3. task'[s] \in Tasks
    BY <2>1, <2>2 DEF Tasks
  <2> QED BY <1>1, <1>5, <2>1, <2>3
<1>9. task' \in [Scanners -> Tasks]
  BY <1>4, <1>5, <1>8
<1>10. TasksHold'
  <2>1. ASSUME NEW t \in Scanners, task'[t].on
        PROVE  /\ task'[t].rel \notin unscanned' /\ task'[t].at <= Len(task'[t].rel.members) + 1
               /\ task'[t].role # -1 => /\ task'[t].at <= Len(task'[t].rel.members) /\ Known(task[t].role)'
                                        /\ GetRole(task[t].role)' = task'[t].rel.members[task'[t].at].role
    <3>1. CASE t = s
      BY <1>4, <1>5, <1>6, <1>7, <1>8, <3>1
    <3>2. CASE t # s
      <4>1. task'[t] = task[t]
        BY <1>8, <3>2
      <4>2. UNCHANGED <<scanPhase, unscanned, rareRoles>>
        BY <1>4
      <4> QED BY <2>1, <4>1, <4>2 DEF ScanInv, TasksHold, Known, GetRole
    <3> QED BY <3>1, <3>2
  <2>2. \A t, u \in Scanners : task'[t].on /\ task'[u].on /\ task'[t].rel = task'[u].rel => t = u
    <3>1. \A t \in Scanners : task'[t].on = task[t].on /\ task'[t].rel = task[t].rel
      <4>1. task[s].on = TRUE /\ task'[s].on = TRUE
        BY <1>5, <1>8, TaskFacts DEF Tasks, Idle
      <4> QED BY <1>1, <1>8, <4>1
    <3> QED BY <3>1 DEF ScanInv, TasksHold
  <2>3. scanPhase' # "scan" => FALSE
    BY <1>4 DEF ScanInv, TasksHold, Idle
  <2> QED BY <2>1, <2>2, <2>3 DEF TasksHold
<1>11. \A q \in Wanted : Added(q)' = IF q = q0 THEN Added(q) \cup {at} ELSE Added(q)
  <2>1. \A t \in Scanners \ {s} : OnTask(t, q0)' = FALSE /\ OnTask(t, q0) = FALSE
    BY <1>1, <1>4, <1>8 DEF ScanInv, TasksHold, OnTask
  <2>2. OnTask(s, q0) /\ OnTask(s, q0)'
    BY <1>1, <1>4, <1>8 DEF OnTask
  <2>3. Added(q0) = {k \in DOMAIN q0.members : k < at} /\ Added(q0)' = {k \in DOMAIN q0.members : k < at + 1}
    BY <1>1, <1>4, <1>6, <1>8, <2>1, <2>2 DEF Added
  <2>4. Added(q0)' = Added(q0) \cup {at}
    BY <1>5, <1>7, <2>3, MemberFacts
  <2>5. ASSUME NEW q \in Wanted, q # q0 PROVE Added(q)' = Added(q)
    <3>1. \A t \in Scanners : OnTask(t, q)' = OnTask(t, q) /\ (OnTask(t, q) => task'[t].at = task[t].at)
      BY <1>1, <1>4, <1>8, <2>5 DEF OnTask
    <3> QED BY <1>4, <3>1 DEF Added
  <2> QED BY <2>4, <2>5
<1>12. at \notin Added(q0)
  BY <1>1, <1>4, <1>5 DEF Added, OnTask
<1> DEFINE T == {r.id : r \in Relations} \X Nat
<1>13. e \in T
  BY <1>3, <1>5, <1>6 DEF Known
<1>14. ASSUME NEW m \in AllMembers
       PROVE  /\ ListOf(m) \in Seq(T) /\ ListOf(m)' \in Seq(T)
              /\ (\A k \in DOMAIN ListOf(m) : Known(ListOf(m)[k][2]))'
  <2>1. PICK l : l = ListOf(m)
    OBVIOUS
  <2>2. l \in Seq(T) /\ \A k \in DOMAIN l : Known(l[k][2])
    BY <2>1 DEF ScanInv, ScanTypeOK
  <2>3. PICK l2 : l2 = ListOf(m)'
    OBVIOUS
  <2>4. l2 = Append(l, e) \/ l2 = l
    BY <1>4, <2>1, <2>3, ListLonger
  <2>5. l2 \in Seq(T) /\ \A k \in DOMAIN l2 : l2[k] = e \/ (k \in DOMAIN l /\ l2[k] = l[k])
    <3> HIDE DEF T
    <3>1. CASE l2 = Append(l, e)
      <4>1. Append(l, e) \in Seq(T) /\ Len(Append(l, e)) = Len(l) + 1
        BY <1>13, <2>2, AppendProperties
      <4>2. \A k \in 1..Len(l) : Append(l, e)[k] = l[k]
        BY <1>13, <2>2, AppendProperties
      <4>3. Append(l, e)[Len(l) + 1] = e /\ Len(l) \in Nat /\ DOMAIN l = 1..Len(l) /\ DOMAIN l2 = 1..(Len(l) + 1)
        BY <1>13, <2>2, <3>1, <4>1, AppendProperties, LenProperties
      <4> DEFINE n == Len(l)
      <4> HIDE DEF n
      <4>4. \A k \in 1..(n + 1) : k = n + 1 \/ k \in 1..n
        BY <4>3 DEF n
      <4> QED BY <3>1, <4>1, <4>2, <4>3, <4>4 DEF n
    <3>2. CASE l2 = l
      BY <2>2, <3>2
    <3> QED BY <2>4, <3>1, <3>2
  <2>6. \A k \in DOMAIN l2 : Known(l2[k][2])
    <3>1. Known(e[2])
      BY <1>3, <1>6
    <3> QED BY <2>2, <2>5, <3>1
  <2>7. \A k \in DOMAIN l2 : Known(l2[k][2])'
    BY <1>4, <2>6 DEF Known
  <2> QED BY <2>1, <2>2, <2>3, <2>5, <2>7
<1>15. ASSUME NEW q \in Wanted, NEW m \in AllMembers, NEW role \in AllRoles
       PROVE  (Cardinality(EntriesFor(ListOf(m), q, role)) = Cardinality(MembersFor(q, m, role)))'
  <2>1. PICK l, l2 : l = ListOf(m) /\ l2 = ListOf(m)'
    OBVIOUS
  <2> DEFINE E == EntriesFor(l, q, role)
             E2 == EntriesFor(l2, q, role)
             M == MembersFor(q, m, role)
             M2 == MembersFor(q, m, role)'
             here == m.type = m0.type /\ m.id = m0.id
  <2>2. l \in Seq(T) /\ l2 = IF here THEN Append(l, e) ELSE l
    BY <1>4, <1>14, <2>1, ListLonger
  <2>3. EntriesFor(ListOf(m), q, role)' = E2
    BY <1>4, <2>1 DEF EntriesFor, GetRole
  <2>4. Cardinality(E) = Cardinality(M)
    BY <2>1 DEF ScanInv, MembershipsAdded
  <2>5. q = q0 <=> e[1] = q.id
    BY <1>3, <1>5, RelationsAssumption DEF Wanted
  <2>6. GetRole(e[2]) = m0.role
    BY <1>3, <1>6
  <2>7. M2 = IF q = q0 /\ here /\ role = m0.role THEN M \cup {at} ELSE M
    BY <1>2, <1>11 DEF MembersFor
  <2>8. IsFiniteSet(M) /\ (q = q0 => at \notin M)
    <3>1. M \subseteq 1..Len(q.members) /\ Len(q.members) \in Nat
      BY MemberFacts DEF MembersFor, Added, Wanted
    <3>2. q = q0 => at \notin M
      BY <1>12 DEF MembersFor
    <3>3. IsFiniteSet(1..Len(q.members))
      BY <3>1, FS_Interval
    <3> QED BY <3>1, <3>2, <3>3, FS_Subset
  <2>9. CASE ~here
    BY <2>2, <2>3, <2>4, <2>7, <2>9
  <2>10. CASE here
    <3>1. PICK l3 : l3 = Append(l, e)
      OBVIOUS
    <3>2. /\ IF e[1] = q.id /\ GetRole(e[2]) = role
             THEN Cardinality(EntriesFor(l3, q, role)) = Cardinality(E) + 1
             ELSE EntriesFor(l3, q, role) = E
      <4> HIDE DEF T
      <4> QED BY <1>4, <1>13, <2>2, <3>1, EntryCounts
    <3>3. l2 = l3
      BY <2>2, <2>10, <3>1
    <3>4. CASE q = q0 /\ role = m0.role
      <4>1. Cardinality(E2) = Cardinality(E) + 1
        BY <2>5, <2>6, <3>2, <3>3, <3>4
      <4>2. Cardinality(M2) = Cardinality(M) + 1
        <5>1. M2 = M \cup {at}
          BY <2>7, <2>10, <3>4
        <5> HIDE DEF M, M2
        <5> QED BY <2>8, <3>4, <5>1, FS_AddElement
      <4> QED BY <2>3, <2>4, <4>1, <4>2
    <3>5. CASE ~(q = q0 /\ role = m0.role)
      <4>1. E2 = E
        BY <2>5, <2>6, <3>2, <3>3, <3>5
      <4>2. M2 = M
        BY <2>7, <3>5
      <4> QED BY <2>3, <2>4, <4>1, <4>2
    <3> QED BY <3>4, <3>5
  <2> QED BY <2>9, <2>10
<1>16. MembershipsAdded'
  BY <1>15 DEF MembershipsAdded
<1>17. ScanTypeOK'
  BY <1>4, <1>9, <1>14 DEF ScanInv, ScanTypeOK
<1>18. ScanInv'
  BY <1>10, <1>16, <1>17 DEF ScanInv
<1>19. role0 \in Nat
  BY <1>6 DEF Known
<1> QED BY <1>1, <1>5, <1>7, <1>11, <1>12, <1>18, <1>19

-----------------------------------------------------------------------------
(* The post-scan reads memberships and adds empty lists. *)

(* Lists are as they were, whatever the map of the walk has besides.       *)
SameLists(map) == \A key : At(map, key) = At(memberships, key)

LEMMA TouchKeeps ==
  ASSUME NEW map, NEW key, NEW k
  PROVE  At(Touch(map, key, <<>>), k) = At(map, k)
<1>1. CASE key \in DOMAIN map
  BY <1>1 DEF Touch
<1>2. CASE key \notin DOMAIN map
  <2>1. PICK m : m = Touch(map, key, <<>>)
    OBVIOUS
  <2>2. m = [j \in DOMAIN map \cup {key} |-> IF j = key THEN <<>> ELSE map[j]]
    BY <1>2, <2>1 DEF Touch
  <2>3. DOMAIN m = DOMAIN map \cup {key} /\ \A j \in DOMAIN m : m[j] = IF j = key THEN <<>> ELSE map[j]
    BY <2>2
  <2>4. At(m, k) = At(map, k)
    BY <1>2, <2>3 DEF At
  <2> QED BY <2>1, <2>4
<1> QED BY <1>1, <1>2

LEMMA VisitKeeps ==
  ASSUME NEW w, SameLists(w.map)
  PROVE  SameLists(Visit(w).map)
<1>1. CASE w.todo = <<>>
  BY <1>1 DEF Visit
<1> DEFINE rel == Last(w.todo)
<1>2. CASE w.todo # <<>> /\ rel \in w.done
  <2>1. Visit(w) = [w EXCEPT !.todo = Front(@)]
    BY <1>2 DEF Visit
  <2>2. Visit(w).map = w.map
    BY <2>1
  <2> QED BY <2>2
<1>3. CASE w.todo # <<>> /\ rel \notin w.done
  <2>1. Visit(w).map = Touch(w.map, ParentSlot(rel), <<>>)
    BY <1>3 DEF Visit
  <2>2. \A k : At(Touch(w.map, ParentSlot(rel), <<>>), k) = At(w.map, k)
    BY TouchKeeps
  <2> QED BY <2>1, <2>2 DEF SameLists
<1> QED BY <1>1, <1>2, <1>3

(* The walk of so many rounds is defined.                                  *)
Walk(f, w, N) == DOMAIN f = 0..N /\ f[0] = w /\ \A n \in 1..N : f[n] = Visit(f[n - 1])

LEMMA WalkExists ==
  ASSUME NEW w, NEW N \in Nat
  PROVE  \E f : f = [n \in 0..N |-> f[n]] /\ Walk(f, w, N)
<1> DEFINE S == {m \in Nat : \E f : f = [n \in 0..m |-> f[n]] /\ Walk(f, w, m)}
<1>1. 0 \in S
  <2>1. PICK f : f = [n \in 0..0 |-> w]
    OBVIOUS
  <2>2. f[0] = w /\ DOMAIN f = 0..0 /\ f = [n \in 0..0 |-> f[n]] /\ 1..0 = {}
    BY <2>1
  <2>3. Walk(f, w, 0)
    BY <2>2 DEF Walk
  <2> QED BY <2>2, <2>3
<1>2. ASSUME NEW m \in Nat, m \in S PROVE m + 1 \in S
  <2>1. PICK f : f = [n \in 0..m |-> f[n]] /\ Walk(f, w, m)
    BY <1>2
  <2>2. PICK v : v = Visit(f[m])
    OBVIOUS
  <2>3. PICK g : g = [n \in 0..(m + 1) |-> IF n = m + 1 THEN v ELSE f[n]]
    OBVIOUS
  <2>4. DOMAIN g = 0..(m + 1) /\ g = [n \in 0..(m + 1) |-> g[n]] /\ g[m + 1] = v /\ \A n \in 0..m : g[n] = f[n]
    BY <2>3
  <2>5. \A n \in 1..(m + 1) : g[n] = Visit(g[n - 1])
    <3>1. SUFFICES ASSUME NEW n \in 1..(m + 1) PROVE g[n] = Visit(g[n - 1])
      OBVIOUS
    <3>2. CASE n = m + 1
      <4>1. n - 1 = m /\ m \in 0..m
        BY <3>2
      <4> QED BY <2>2, <2>4, <3>2, <4>1
    <3>3. CASE n # m + 1
      <4>1. n \in 1..m /\ n \in 0..m /\ n - 1 \in 0..m
        BY <3>3
      <4>2. f[n] = Visit(f[n - 1])
        BY <2>1, <4>1 DEF Walk
      <4> QED BY <2>4, <4>1, <4>2
    <3> QED BY <3>2, <3>3
  <2>6. g[0] = w
    <3>1. 0 \in 0..m
      OBVIOUS
    <3> QED BY <2>1, <2>4, <3>1 DEF Walk
  <2>7. Walk(g, w, m + 1)
    BY <2>4, <2>5, <2>6 DEF Walk
  <2> QED BY <2>4, <2>7
<1> HIDE DEF S
<1>3. N \in S
  BY <1>1, <1>2, SetInduction
<1> QED BY <1>3 DEF S

LEMMA EdgesFinite ==
  LET U == UNION {{r} \X DOMAIN r.members : r \in Relations} IN  IsFiniteSet(U) /\ Cardinality(U) \in Nat
<1> DEFINE f == [r \in Relations |-> {r} \X DOMAIN r.members]
           P == {f[r] : r \in Relations}
<1>1. IsFiniteSet(P)
  <2>1. IsFiniteSet(Relations)
    BY RelationsAssumption
  <2>2. f \in [Relations -> P] /\ \A T \in P : \E r \in Relations : f[r] = T
    OBVIOUS
  <2>3. f \in Surjection(Relations, P)
    <3> HIDE DEF f, P
    <3> QED BY <2>2 DEF Surjection
  <2> HIDE DEF f, P
  <2> QED BY <2>1, <2>3, FS_Surjection
<1>2. ASSUME NEW r \in Relations PROVE IsFiniteSet({r} \X DOMAIN r.members)
  <2>1. DOMAIN r.members = 1..Len(r.members) /\ Len(r.members) \in Nat
    BY MemberFacts
  <2>2. IsFiniteSet(DOMAIN r.members)
    BY <2>1, FS_Interval
  <2> QED BY <2>2, FS_Singleton, FS_Product
<1>3. \A T \in P : IsFiniteSet(T)
  BY <1>2
<1>4. IsFiniteSet(UNION P)
  <2> HIDE DEF P
  <2> QED BY <1>1, <1>3, FS_UNION
<1>5. UNION P = UNION {{r} \X DOMAIN r.members : r \in Relations}
  OBVIOUS
<1> QED BY <1>4, <1>5, FS_CardinalityType

(* What relations_for_relation_with_parents gives is what so many rounds   *)
(* make of its first state.                                                *)
Edges == Cardinality(UNION {{r} \X DOMAIN r.members : r \in Relations})
Start(id) == [out |-> <<>>, todo |-> <<id>>, done |-> {}, map |-> memberships]

LEMMA WalkDefined ==
  ASSUME NEW id
  PROVE  Edges + 1 \in Nat /\ \E after : WithParents(id) = after[Edges + 1] /\ Walk(after, Start(id), Edges + 1)
<1>1. PICK N : N = Edges + 1
  OBVIOUS
<1>2. N \in Nat
  BY <1>1, EdgesFinite DEF Edges
<1> DEFINE w == Start(id)
           Is(f) == f = [n \in 0..N |-> IF n = 0 THEN w ELSE Visit(f[n - 1])]
           after == CHOOSE f : Is(f)
<1>4. WithParents(id) = after[N]
  BY <1>1 DEF WithParents, Edges, Start
<1> HIDE DEF w
<1>5. \E f : Is(f)
  <2>1. PICK f : f = [n \in 0..N |-> f[n]] /\ Walk(f, w, N)
    BY <1>2, WalkExists
  <2>2. \A n \in 0..N : f[n] = IF n = 0 THEN w ELSE Visit(f[n - 1])
    <3>1. \A n \in 0..N : n # 0 => n \in 1..N
      BY <1>2
    <3> QED BY <2>1, <3>1 DEF Walk
  <2> QED BY <2>1, <2>2
<1>6. Is(after)
  BY <1>5
<1> HIDE DEF after
<1>7. \A n \in 0..N : after[n] = IF n = 0 THEN w ELSE Visit(after[n - 1])
  BY <1>6
<1>8. DOMAIN after = 0..N /\ 0 \in 0..N /\ \A n \in 1..N : n \in 0..N /\ n # 0
  BY <1>2, <1>6
<1>9. Walk(after, w, N)
  BY <1>7, <1>8 DEF Walk
<1> QED BY <1>1, <1>2, <1>4, <1>9 DEF w

LEMMA WithParentsKeeps ==
  ASSUME NEW id
  PROVE  SameLists(WithParents(id).map)
<1>1. PICK N : N = Edges + 1
  OBVIOUS
<1>2. PICK after : N \in Nat /\ WithParents(id) = after[N] /\ Walk(after, Start(id), N)
  BY <1>1, WalkDefined
<1>3. SameLists(Start(id).map)
  BY DEF SameLists, Start
<1> DEFINE S == {n \in Nat : n <= N => SameLists(after[n].map)}
<1>4. 0 \in S
  BY <1>2, <1>3 DEF Walk
<1>5. ASSUME NEW n \in Nat, n \in S PROVE n + 1 \in S
  <2>1. SUFFICES ASSUME n + 1 <= N PROVE SameLists(after[n + 1].map)
    OBVIOUS
  <2>2. n <= N /\ n + 1 \in 1..N /\ n + 1 - 1 = n
    BY <1>2, <2>1
  <2>3. SameLists(after[n].map) /\ after[n + 1] = Visit(after[n])
    BY <1>2, <1>5, <2>2 DEF Walk
  <2> QED BY <2>3, VisitKeeps
<1> HIDE DEF S
<1>6. N \in S
  BY <1>2, <1>4, <1>5, SetInduction
<1> QED BY <1>2, <1>6 DEF S

-----------------------------------------------------------------------------
(* The invariant. *)

(* A step between the phases, or one of the post-scan, leaves the threads, *)
(* the roles and what the lists say alone.                                 *)
LEMMA QuietKeeps ==
  ASSUME ScanInv, UNCHANGED <<unscanned, task, rareRoles>>, \A m \in AllMembers : ListOf(m)' = ListOf(m),
         scanPhase' \in {"scan", "postscan", "read"},
         scanPhase' # "scan" => unscanned = {} /\ \A s \in Scanners : task[s] = Idle
  PROVE  ScanInv' /\ \A q \in Wanted : Added(q)' = Added(q)
<1>1. TasksHold'
  BY DEF ScanInv, TasksHold, Known, GetRole
<1>2. \A q \in Wanted : Added(q)' = Added(q)
  BY DEF Added, OnTask
<1>3. \A id : Known(id) => Known(id)' /\ GetRole(id)' = GetRole(id)
  BY DEF Known, GetRole
<1> QED BY <1>1, <1>2, <1>3, CountsKept DEF ScanInv, ScanTypeOK

LEMMA JoinKeeps ==
  ASSUME ScanInv, JoinScan
  PROVE  ScanInv' /\ \A q \in Wanted : Added(q)' = Added(q)
<1>1. /\ unscanned = {} /\ \A s \in Scanners : task[s] = Idle
      /\ scanPhase' \in {"scan", "postscan", "read"}
      /\ UNCHANGED <<unscanned, task, rareRoles, memberships>>
  BY DEF JoinScan
<1>2. \A m \in AllMembers : ListOf(m)' = ListOf(m)
  BY <1>1 DEF ListOf, RelationsFor
<1> QED BY <1>1, <1>2, QuietKeeps

LEMMA PostScanKeeps ==
  ASSUME ScanInv, PostScanRelation
  PROVE  ScanInv' /\ \A q \in Wanted : Added(q)' = Added(q)
<1>1. /\ scanPhase = "postscan" /\ UNCHANGED <<unscanned, task, rareRoles>>
      /\ scanPhase' \in {"scan", "postscan", "read"}
      /\ memberships' = memberships \/ \E id : memberships' = WithParents(id).map
  BY DEF PostScanRelation
<1>2. \A key : At(memberships', key) = At(memberships, key)
  <2>1. CASE memberships' = memberships
    BY <2>1
  <2>2. CASE \E id : memberships' = WithParents(id).map
    <3>1. PICK id : memberships' = WithParents(id).map
      BY <2>2
    <3>2. SameLists(WithParents(id).map)
      BY WithParentsKeeps
    <3> QED BY <3>1, <3>2 DEF SameLists
  <2> QED BY <1>1, <2>1, <2>2
<1>3. \A m \in AllMembers : ListOf(m)' = ListOf(m)
  <2>1. SUFFICES ASSUME NEW m \in AllMembers PROVE ListOf(m)' = ListOf(m)
    OBVIOUS
  <2>2. ListOf(m)' = At(memberships', <<m.type, Shard(m.type, m.id), m.id>>)
    BY DEF ListOf, RelationsFor, At
  <2> QED BY <1>2, <2>2 DEF ListOf, RelationsFor
<1>4. unscanned = {} /\ \A s \in Scanners : task[s] = Idle
  BY <1>1 DEF ScanInv, TasksHold
<1> QED BY <1>1, <1>3, <1>4, QuietKeeps

LEMMA ScanStep ==
  ASSUME ScanInv, [NextScan]_scanVars
  PROVE  ScanInv'
<1>1. ASSUME NEW s \in Scanners, NEW r \in unscanned, TakeRelation(s, r) PROVE ScanInv'
  BY <1>1, TakeKeeps
<1>2. ASSUME NEW s \in Scanners, FindRole(s) PROVE ScanInv'
  BY <1>2, RoleKeeps
<1>3. ASSUME NEW s \in Scanners, AddMember(s) PROVE ScanInv'
  BY <1>3, AddKeeps
<1>4. ASSUME NEW s \in Scanners, EndRelation(s) PROVE ScanInv'
  BY <1>4, EndKeeps
<1>5. CASE JoinScan
  BY <1>5, JoinKeeps
<1>6. CASE PostScanRelation
  BY <1>6, PostScanKeeps
<1>7. CASE UNCHANGED scanVars
  <2>1. UNCHANGED <<scanPhase, unscanned, task, rareRoles, memberships>>
    BY <1>7 DEF scanVars
  <2>2. \A m \in AllMembers : ListOf(m)' = ListOf(m)
    BY <2>1 DEF ListOf, RelationsFor
  <2> QED BY <2>1, <2>2, QuietKeeps DEF ScanInv, ScanTypeOK, TasksHold
<1> QED BY <1>1, <1>2, <1>3, <1>4, <1>5, <1>6, <1>7 DEF NextScan

(* In every state of the scan, the list of a member says of each wanted    *)
(* relation as often that it has the member in a role as the relation has  *)
(* such members that its thread has added (ScanInv), whatever the file and *)
(* the number of threads (TakeRelation, FindRole, AddMember).              *)
THEOREM ScanningInvariance == SpecScan => []ScanInv
<1>1. InitScan => ScanInv
  BY ScanBegins
<1>2. ScanInv /\ [NextScan]_scanVars => ScanInv'
  BY ScanStep
<1> QED BY <1>1, <1>2, PTL DEF SpecScan

(* Once every thread is done, a relation's members have all been added.    *)
LEMMA ScannedReadsBack ==
  ASSUME ScanInv
  PROVE  MembershipsReadBack
<1>1. SUFFICES ASSUME scanPhase # "scan", NEW r \in Relations, NEW i \in DOMAIN r.members,
                      NEW q \in Wanted, NEW role \in {n.role : n \in Range(r.members)}
               PROVE  LET m    == r.members[i]
                          list == RelationsFor(m.type, m.id)
                          read == [k \in DOMAIN list |-> <<list[k][1], GetRole(list[k][2])>>]
                      IN  Cardinality({k \in DOMAIN read : read[k] = <<q.id, role>>})
                            = Cardinality({k \in DOMAIN q.members : /\ q.members[k].type = m.type /\ q.members[k].id = m.id
                                                                    /\ q.members[k].role = role})
  BY Zenon DEF MembershipsReadBack
<1>2. PICK m : m = r.members[i]
  OBVIOUS
<1>3. PICK list : list = ListOf(m)
  OBVIOUS
<1>4. m \in AllMembers /\ role \in AllRoles
  BY <1>2, MemberFacts DEF AllMembers, AllRoles
<1> DEFINE read == [k \in DOMAIN list |-> <<list[k][1], GetRole(list[k][2])>>]
<1>5. {k \in DOMAIN read : read[k] = <<q.id, role>>} = EntriesFor(list, q, role)
  <2>1. DOMAIN read = DOMAIN list /\ \A k \in DOMAIN list : read[k] = <<list[k][1], GetRole(list[k][2])>>
    OBVIOUS
  <2> HIDE DEF read
  <2> QED BY <2>1 DEF EntriesFor
<1>6. Added(q) = DOMAIN q.members
  <2>1. unscanned = {} /\ \A s \in Scanners : ~OnTask(s, q)
    BY <1>1 DEF ScanInv, TasksHold, OnTask, Idle
  <2> QED BY <2>1 DEF Added
<1>7. MembersFor(q, m, role) = {k \in DOMAIN q.members : /\ q.members[k].type = m.type /\ q.members[k].id = m.id
                                                         /\ q.members[k].role = role}
  BY <1>6 DEF MembersFor
<1>8. Cardinality(EntriesFor(list, q, role)) = Cardinality(MembersFor(q, m, role))
  BY <1>3, <1>4 DEF ScanInv, MembershipsAdded
<1>9. list = RelationsFor(m.type, m.id)
  BY <1>3 DEF ListOf
<1>10. Cardinality({k \in DOMAIN read : read[k] = <<q.id, role>>})
         = Cardinality({k \in DOMAIN q.members : /\ q.members[k].type = m.type /\ q.members[k].id = m.id
                                                 /\ q.members[k].role = role})
  <2> HIDE DEF read
  <2> QED BY <1>5, <1>7, <1>8
<1> QED BY <1>2, <1>9, <1>10, Zenon

(* Whatever the file and however the threads interleave, NextRelation      *)
(* gives after the scan the accepted relations an object is a member of,   *)
(* once per membership and with the role of the file                       *)
(* (MembershipsReadBack; relation_contains_*, getOrAddRole, getRole).      *)
THEOREM MembershipsFound == SpecScan => []MembershipsReadBack
<1>1. ScanInv => MembershipsReadBack
  BY ScannedReadsBack
<1> QED BY <1>1, ScanningInvariance, PTL

-----------------------------------------------------------------------------
(* The walk over the parents. *)

WantedIds  == {q.id : q \in Wanted}
IdsIn(l)   == {p[1] : p \in Range(l)}
Parents(x) == At(memberships, ParentSlot(x))

(* The first part and the last element of what is left to do.              *)
LEMMA TodoParts ==
  ASSUME NEW S, NEW t \in Seq(S), t # <<>>
  PROVE  /\ Front(t) \in Seq(S) /\ Last(t) \in S /\ Len(t) \in Nat \ {0} /\ Len(Front(t)) = Len(t) - 1
         /\ Range(t) = Range(Front(t)) \cup {Last(t)}
<1>1. Len(t) \in Nat \ {0} /\ DOMAIN t = 1..Len(t)
  <2>1. Len(t) \in Nat \ {0}
    BY EmptySeq
  <2> QED BY <2>1, LenProperties
<1>2. PICK n \in Nat : n = Len(t) - 1
  <2>1. \A k \in Nat \ {0} : k - 1 \in Nat
    OBVIOUS
  <2> QED BY <1>1, <2>1, Zenon
<1>3. PICK f : f = Front(t)
  OBVIOUS
<1>4. f \in Seq(S) /\ Len(f) = n /\ \A i \in 1..n : f[i] = t[i]
  <2>1. f = SubSeq(t, 1, n)
    BY <1>2, <1>3 DEF Front
  <2>2. \A i \in 1..n : t[i] \in S
    BY <1>1, <1>2, ElementOfSeq
  <2> QED BY <1>1, <1>2, <2>1, <2>2
<1>5. DOMAIN f = 1..n /\ 1..Len(t) = 1..n \cup {Len(t)}
  BY <1>1, <1>2, <1>4, LenProperties
<1>6. Last(t) = t[Len(t)] /\ Last(t) \in S
  BY <1>1, ElementOfSeq DEF Last
<1> QED BY <1>1, <1>2, <1>3, <1>4, <1>5, <1>6 DEF Range

LEMMA ScannedAll ==
  ASSUME ScanInv, scanPhase # "scan", NEW q \in Wanted
  PROVE  Added(q) = DOMAIN q.members
<1>1. unscanned = {} /\ \A s \in Scanners : ~OnTask(s, q)
  BY DEF ScanInv, TasksHold, OnTask, Idle
<1> QED BY <1>1 DEF Added

(* The list of a relation has its parents.                                 *)
LEMMA ParentsRead ==
  ASSUME ScanInv, EntriesTrue, scanPhase # "scan", NEW x
  PROVE  Parents(x) \in Seq(WantedIds \X Nat) /\ IdsIn(Parents(x)) = ParentsOf({x})
<1>1. PICK l : l = Parents(x)
  OBVIOUS
<1>2. l \in Seq(WantedIds \X Nat)
  <2>1. CASE ParentSlot(x) \in DOMAIN memberships
    BY <1>1, <2>1 DEF EntriesTrue, Parents, At, WantedIds
  <2>2. CASE ParentSlot(x) \notin DOMAIN memberships
    BY <1>1, <2>2 DEF Parents, At
  <2> QED BY <2>1, <2>2
<1>3. ASSUME NEW k \in DOMAIN l PROVE l[k][1] \in ParentsOf({x})
  <2>1. ParentSlot(x) \in DOMAIN memberships /\ l = memberships[ParentSlot(x)]
    <3>1. DOMAIN <<>> = {}
      OBVIOUS
    <3> QED BY <1>1, <1>3, <3>1 DEF Parents, At
  <2>2. PICK q \in Wanted : \E j \in Added(q) : q.id = l[k][1] /\ ParentSlot(x) = SlotOf(q.members[j])
    BY <1>3, <2>1 DEF EntriesTrue
  <2>3. PICK j \in Added(q) : q.id = l[k][1] /\ ParentSlot(x) = SlotOf(q.members[j])
    BY <2>2
  <2>4. PICK m : m = q.members[j]
    OBVIOUS
  <2>5. m.type = "relation" /\ m.id = x
    BY <2>3, <2>4 DEF ParentSlot, SlotOf
  <2>6. m \in Range(q.members)
    BY <2>4 DEF Added, Range
  <2> QED BY <2>3, <2>5, <2>6 DEF ParentsOf
<1>4. ASSUME NEW q \in Wanted, NEW m \in Range(q.members), m.type = "relation", m.id = x
      PROVE  \E k \in DOMAIN l : l[k][1] = q.id
  <2>1. PICK j \in DOMAIN q.members : m = q.members[j]
    BY DEF Range
  <2>2. q \in Relations /\ m \in AllMembers /\ m.role \in AllRoles
    BY <2>1, MemberFacts DEF Wanted
  <2>3. ListOf(m) = l
    BY <1>1, <1>4 DEF ListOf, RelationsFor, Shard, Parents, ParentSlot
  <2>4. j \in MembersFor(q, m, m.role)
    BY <2>1, ScannedAll DEF MembersFor
  <2>5. IsFiniteSet(MembersFor(q, m, m.role))
    <3>1. MembersFor(q, m, m.role) \subseteq 1..Len(q.members) /\ Len(q.members) \in Nat
      BY <2>2, MemberFacts DEF MembersFor, Added
    <3>2. IsFiniteSet(1..Len(q.members))
      BY <3>1, FS_Interval
    <3> QED BY <3>1, <3>2, FS_Subset
  <2>6. Cardinality(MembersFor(q, m, m.role)) # 0
    BY <2>4, <2>5, FS_EmptySet
  <2>7. EntriesFor(l, q, m.role) # {}
    <3>1. Cardinality(EntriesFor(l, q, m.role)) # 0
      BY <2>2, <2>3, <2>6 DEF ScanInv, MembershipsAdded
    <3> QED BY <3>1, FS_EmptySet
  <2> QED BY <2>7 DEF EntriesFor
<1>5. IdsIn(l) = {l[k][1] : k \in DOMAIN l}
  BY DEF IdsIn, Range
<1>6. ParentsOf({x}) \subseteq IdsIn(l)
  <2>1. SUFFICES ASSUME NEW a \in ParentsOf({x}) PROVE a \in IdsIn(l)
    OBVIOUS
  <2>2. PICK q \in Wanted : a = q.id /\ \E m \in Range(q.members) : m.type = "relation" /\ m.id \in {x}
    BY <2>1 DEF ParentsOf
  <2>3. PICK k \in DOMAIN l : l[k][1] = a
    BY <1>4, <2>2
  <2> QED BY <1>5, <2>3
<1>7. IdsIn(l) \subseteq ParentsOf({x})
  BY <1>3, <1>5
<1> QED BY <1>1, <1>2, <1>6, <1>7

(* What is true of the walk after every round: it has listed parents of    *)
(* what it has seen and of nothing else.                                   *)
WalkOK(w, id) ==
    /\ w = [out |-> w.out, todo |-> w.todo, done |-> w.done, map |-> w.map]
    /\ w.out \in Seq(WantedIds \X Nat) /\ w.todo \in Seq(WantedIds \cup {id}) /\ w.done \subseteq WantedIds \cup {id}
    /\ SameLists(w.map)
    /\ \A S : ParentsOf(S \cup {id}) \subseteq S =>
          IdsIn(w.out) \subseteq S /\ w.done \subseteq S \cup {id} /\ Range(w.todo) \subseteq S \cup {id}
    /\ id \in w.done \cup Range(w.todo) /\ IdsIn(w.out) \subseteq w.done \cup Range(w.todo)
    /\ \A x \in w.done : ParentsOf({x}) \subseteq IdsIn(w.out)
    /\ \A key \in DOMAIN w.map : key \in DOMAIN memberships \/ \E x \in w.done : key = ParentSlot(x)

(* A round that goes on to the parents of a relation not seen before.      *)
LEMMA VisitOpens ==
  ASSUME ScanInv, EntriesTrue, scanPhase # "scan", NEW id, NEW w, WalkOK(w, id), w.todo # <<>>, Last(w.todo) \notin w.done
  PROVE  /\ WalkOK(Visit(w), id) /\ Visit(w).done = w.done \cup {Last(w.todo)} /\ Last(w.todo) \in WantedIds \cup {id}
         /\ Len(Visit(w).todo) = Len(w.todo) - 1 + Len(Parents(Last(w.todo)))
<1>1. PICK rel : rel = Last(w.todo)
  OBVIOUS
<1>2. PICK l : l = Parents(rel)
  OBVIOUS
<1>3. PICK kids : kids = [k \in DOMAIN l |-> l[k][1]]
  OBVIOUS
<1>4. l = At(w.map, ParentSlot(rel))
  BY <1>2 DEF WalkOK, SameLists, Parents
<1>5. PICK v : v = Visit(w)
  OBVIOUS
<1>6. v = [out |-> w.out \o l, todo |-> Front(w.todo) \o kids, done |-> w.done \cup {rel},
           map |-> Touch(w.map, ParentSlot(rel), <<>>)]
  BY <1>1, <1>3, <1>4, <1>5 DEF Visit
<1>7. l \in Seq(WantedIds \X Nat) /\ IdsIn(l) = ParentsOf({rel})
  BY <1>2, ParentsRead
<1>8. Len(l) \in Nat /\ DOMAIN l = 1..Len(l) /\ \A k \in 1..Len(l) : l[k] \in WantedIds \X Nat
  BY <1>7, LenProperties, ElementOfSeq
<1>9. kids \in Seq(WantedIds \cup {id}) /\ Len(kids) = Len(l) /\ Range(kids) = ParentsOf({rel})
  <2>1. kids \in [1..Len(l) -> WantedIds \cup {id}]
    BY <1>3, <1>8
  <2>2. kids \in Seq(WantedIds \cup {id}) /\ Len(kids) = Len(l)
    BY <1>8, <2>1, FunctionIsSeq
  <2>3. Range(kids) = {l[k][1] : k \in DOMAIN l}
    BY <1>3 DEF Range
  <2>4. IdsIn(l) = {l[k][1] : k \in DOMAIN l}
    BY DEF IdsIn, Range
  <2> QED BY <1>7, <2>2, <2>3, <2>4
<1>10. PICK f : f = Front(w.todo)
  OBVIOUS
<1>11. /\ f \in Seq(WantedIds \cup {id}) /\ rel \in WantedIds \cup {id} /\ Len(w.todo) \in Nat \ {0}
       /\ Len(f) = Len(w.todo) - 1 /\ Range(w.todo) = Range(f) \cup {rel}
  BY <1>1, <1>10, TodoParts DEF WalkOK
<1>12. /\ v.todo \in Seq(WantedIds \cup {id}) /\ Len(v.todo) = Len(w.todo) - 1 + Len(l)
       /\ Range(v.todo) = Range(f) \cup ParentsOf({rel})
  <2>1. f \o kids \in Seq(WantedIds \cup {id}) /\ ToSet(f \o kids) = ToSet(f) \cup ToSet(kids) /\ Len(f \o kids) = Len(f) + Len(kids)
    BY <1>9, <1>11, ToSetConcat
  <2>2. Range(f \o kids) = Range(f) \cup Range(kids)
    BY <2>1 DEF Range, ToSet
  <2> QED BY <1>6, <1>9, <1>10, <1>11, <2>1, <2>2
<1>13. v.out \in Seq(WantedIds \X Nat) /\ IdsIn(v.out) = IdsIn(w.out) \cup ParentsOf({rel})
  <2>1. PICK o : o = w.out
    OBVIOUS
  <2>2. o \in Seq(WantedIds \X Nat)
    BY <2>1 DEF WalkOK
  <2>3. o \o l \in Seq(WantedIds \X Nat) /\ ToSet(o \o l) = ToSet(o) \cup ToSet(l)
    BY <1>7, <2>2, ToSetConcat
  <2>4. IdsIn(o \o l) = IdsIn(o) \cup IdsIn(l)
    <3>1. Range(o \o l) = Range(o) \cup Range(l)
      BY <2>3 DEF Range, ToSet
    <3> QED BY <3>1 DEF IdsIn
  <2> QED BY <1>6, <1>7, <2>1, <2>3, <2>4
<1>14. v.done = w.done \cup {rel} /\ v.map = Touch(w.map, ParentSlot(rel), <<>>)
  BY <1>6
<1>15. SameLists(v.map)
  BY <1>5, VisitKeeps DEF WalkOK
<1>16. ASSUME NEW S, ParentsOf(S \cup {id}) \subseteq S
       PROVE  IdsIn(v.out) \subseteq S /\ v.done \subseteq S \cup {id} /\ Range(v.todo) \subseteq S \cup {id}
  <2>1. IdsIn(w.out) \subseteq S /\ w.done \subseteq S \cup {id} /\ Range(w.todo) \subseteq S \cup {id}
    BY <1>16 DEF WalkOK
  <2>2. rel \in S \cup {id}
    BY <1>11, <2>1
  <2>3. ParentsOf({rel}) \subseteq ParentsOf(S \cup {id})
    BY <2>2 DEF ParentsOf
  <2> QED BY <1>11, <1>12, <1>13, <1>14, <1>16, <2>1, <2>2, <2>3
<1>17. id \in v.done \cup Range(v.todo) /\ IdsIn(v.out) \subseteq v.done \cup Range(v.todo)
  <2>1. id \in w.done \cup Range(w.todo) /\ IdsIn(w.out) \subseteq w.done \cup Range(w.todo)
    BY DEF WalkOK
  <2> QED BY <1>11, <1>12, <1>13, <1>14, <2>1
<1>18. \A x \in v.done : ParentsOf({x}) \subseteq IdsIn(v.out)
  BY <1>13, <1>14 DEF WalkOK
<1>19. \A key \in DOMAIN v.map : key \in DOMAIN memberships \/ \E x \in v.done : key = ParentSlot(x)
  <2>1. DOMAIN v.map \subseteq DOMAIN w.map \cup {ParentSlot(rel)}
    BY <1>14 DEF Touch
  <2> QED BY <1>14, <2>1 DEF WalkOK
<1>20. v.done \subseteq WantedIds \cup {id}
  BY <1>11, <1>14 DEF WalkOK
<1>21. v = [out |-> v.out, todo |-> v.todo, done |-> v.done, map |-> v.map]
  BY <1>6
<1>22. WalkOK(v, id)
  BY <1>12, <1>13, <1>15, <1>16, <1>17, <1>18, <1>19, <1>20, <1>21 DEF WalkOK
<1> QED BY <1>1, <1>2, <1>5, <1>11, <1>12, <1>14, <1>22

(* A round that drops a relation seen before.                              *)
LEMMA VisitDrops ==
  ASSUME NEW id, NEW w, WalkOK(w, id), w.todo # <<>>, Last(w.todo) \in w.done
  PROVE  WalkOK(Visit(w), id) /\ Visit(w).done = w.done /\ Len(Visit(w).todo) = Len(w.todo) - 1
<1>1. PICK v, f : v = Visit(w) /\ f = Front(w.todo)
  OBVIOUS
<1>2. v = [out |-> w.out, todo |-> f, done |-> w.done, map |-> w.map]
  <2>1. v = [w EXCEPT !.todo = f]
    BY <1>1 DEF Visit
  <2>2. w = [out |-> w.out, todo |-> w.todo, done |-> w.done, map |-> w.map]
    BY DEF WalkOK
  <2> QED BY <2>1, <2>2
<1>3. v.out = w.out /\ v.todo = f /\ v.done = w.done /\ v.map = w.map
  BY <1>2
<1>4. f \in Seq(WantedIds \cup {id}) /\ Len(f) = Len(w.todo) - 1 /\ Range(w.todo) = Range(f) \cup {Last(w.todo)}
  BY <1>1, TodoParts DEF WalkOK
<1>5. Range(f) \subseteq Range(w.todo) /\ w.done \cup Range(f) = w.done \cup Range(w.todo)
  BY <1>4
<1>6. v = [out |-> v.out, todo |-> v.todo, done |-> v.done, map |-> v.map]
  BY <1>2
<1>7. WalkOK(v, id)
  BY <1>3, <1>4, <1>5, <1>6 DEF WalkOK
<1> QED BY <1>1, <1>3, <1>4, <1>7

(* Memberships of relations the walk has not gone through yet.             *)
Open(id, done) == UNION {{x} \X DOMAIN Parents(x) : x \in (WantedIds \cup {id}) \ done}

LEMMA OpenFinite ==
  ASSUME EntriesCounted, NEW id, NEW done
  PROVE  IsFiniteSet(Open(id, done)) /\ Cardinality(Open(id, done)) <= Cardinality(Entries)
<1> DEFINE f == [e \in Open(id, done) |-> <<ParentSlot(e[1]), e[2]>>]
<1>1. ASSUME NEW e \in Open(id, done)
      PROVE  f[e] = <<ParentSlot(e[1]), e[2]>> /\ e = <<e[1], e[2]>> /\ f[e] \in Entries
  <2>1. PICK x : x \in (WantedIds \cup {id}) \ done /\ e \in {x} \X DOMAIN Parents(x)
    BY DEF Open
  <2>2. e = <<e[1], e[2]>> /\ e[1] = x /\ e[2] \in DOMAIN Parents(x)
    BY <2>1
  <2>3. ParentSlot(x) \in DOMAIN memberships /\ Parents(x) = memberships[ParentSlot(x)]
    <3>1. DOMAIN <<>> = {}
      OBVIOUS
    <3> QED BY <2>2, <3>1 DEF Parents, At
  <2>4. <<ParentSlot(x), e[2]>> \in Entries
    BY <2>2, <2>3 DEF Entries
  <2> QED BY <2>2, <2>4
<1>2. f \in Injection(Open(id, done), Entries)
  <2>1. ASSUME NEW a \in Open(id, done), NEW b \in Open(id, done), f[a] = f[b] PROVE a = b
    <3>1. <<ParentSlot(a[1]), a[2]>> = <<ParentSlot(b[1]), b[2]>>
      BY <1>1, <2>1
    <3>2. a[1] = b[1] /\ a[2] = b[2]
      BY <3>1 DEF ParentSlot
    <3>3. a = <<a[1], a[2]>> /\ b = <<b[1], b[2]>>
      BY <1>1
    <3> QED BY <3>2, <3>3
  <2>2. f \in [Open(id, done) -> Entries]
    BY <1>1
  <2> HIDE DEF f
  <2> QED BY <2>1, <2>2 DEF Injection, IsInjective
<1> HIDE DEF f
<1> QED BY <1>2, FS_Injection DEF EntriesCounted

LEMMA OpenFewer ==
  ASSUME EntriesCounted, NEW id, NEW done, NEW x \in (WantedIds \cup {id}) \ done, NEW k \in Nat, DOMAIN Parents(x) = 1..k
  PROVE  Cardinality(Open(id, done)) = Cardinality(Open(id, done \cup {x})) + k
<1> DEFINE A == Open(id, done \cup {x})
           B == {x} \X (1..k)
<1>1. Open(id, done) = A \cup B
  BY DEF Open
<1>2. A \cap B = {}
  BY DEF Open
<1>3. IsFiniteSet(A)
  BY OpenFinite
<1>4. IsFiniteSet(B) /\ Cardinality(B) = k
  <2>1. IsFiniteSet(1..k) /\ Cardinality(1..k) = k
    BY FS_Interval
  <2>2. IsFiniteSet({x}) /\ Cardinality({x}) = 1
    BY FS_Singleton
  <2>3. IsFiniteSet(B) /\ Cardinality(B) = Cardinality({x}) * Cardinality(1..k)
    BY <2>1, <2>2, FS_Product
  <2> QED BY <2>1, <2>2, <2>3
<1> HIDE DEF A, B
<1> QED BY <1>1, <1>2, <1>3, <1>4, CountDisjoint DEF A

(* A round takes one away from what is left to go through.                 *)
Left(w, id) == Len(w.todo) + Cardinality(Open(id, w.done))

LEMMA VisitSteps ==
  ASSUME ScanInv, EntriesTrue, EntriesCounted, scanPhase # "scan", NEW id, NEW w, WalkOK(w, id)
  PROVE  WalkOK(Visit(w), id) /\ IF w.todo = <<>> THEN Visit(w) = w ELSE Left(Visit(w), id) = Left(w, id) - 1
<1>1. CASE w.todo = <<>>
  BY <1>1 DEF Visit
<1>2. CASE w.todo # <<>> /\ Last(w.todo) \in w.done
  <2>1. WalkOK(Visit(w), id) /\ Visit(w).done = w.done /\ Len(Visit(w).todo) = Len(w.todo) - 1
    BY <1>2, VisitDrops
  <2>2. Len(w.todo) \in Nat /\ Cardinality(Open(id, w.done)) \in Nat
    BY LenProperties, OpenFinite, FS_CardinalityType DEF WalkOK
  <2>3. Left(Visit(w), id) = (Len(w.todo) - 1) + Cardinality(Open(id, w.done))
    BY <2>1 DEF Left
  <2>4. \A a, b \in Nat : (a - 1) + b = a + b - 1
    OBVIOUS
  <2> QED BY <1>2, <2>1, <2>2, <2>3, <2>4 DEF Left
<1>3. CASE w.todo # <<>> /\ Last(w.todo) \notin w.done
  <2>1. PICK x, v : x = Last(w.todo) /\ v = Visit(w)
    OBVIOUS
  <2>2. /\ WalkOK(v, id) /\ v.done = w.done \cup {x} /\ x \in (WantedIds \cup {id}) \ w.done
        /\ Len(v.todo) = Len(w.todo) - 1 + Len(Parents(x))
    BY <1>3, <2>1, VisitOpens
  <2>3. Parents(x) \in Seq(WantedIds \X Nat)
    BY ParentsRead
  <2>4. PICK a, b, k, c : a = Len(w.todo) /\ b = Cardinality(Open(id, w.done)) /\ k = Len(Parents(x)) /\ c = Cardinality(Open(id, v.done))
    OBVIOUS
  <2>5. a \in Nat /\ b \in Nat /\ c \in Nat /\ k \in Nat /\ DOMAIN Parents(x) = 1..k
    BY <2>3, <2>4, LenProperties, OpenFinite, FS_CardinalityType DEF WalkOK
  <2>6. b = c + k
    BY <2>2, <2>4, <2>5, OpenFewer
  <2>7. Left(v, id) = (a - 1 + k) + c
    BY <2>2, <2>4 DEF Left
  <2>8. Left(w, id) = a + b
    BY <2>4 DEF Left
  <2>9. Left(v, id) = Left(w, id) - 1
    BY <2>5, <2>6, <2>7, <2>8
  <2> QED BY <1>3, <2>1, <2>2, <2>9, Zenon
<1> QED BY <1>1, <1>2, <1>3

LEMMA AddedFewer ==
  ASSUME ScanInv
  PROVE  /\ IsFiniteSet(AddedMembers) /\ Cardinality(AddedMembers) \in Nat
         /\ Edges \in Nat /\ Cardinality(AddedMembers) <= Edges
<1> DEFINE U == UNION {{r} \X DOMAIN r.members : r \in Relations}
<1>1. AddedMembers \in SUBSET U
  BY DEF AddedMembers, Added, Wanted
<1>2. IsFiniteSet(U)
  BY EdgesFinite
<1> HIDE DEF U
<1>3. IsFiniteSet(AddedMembers) /\ Cardinality(AddedMembers) <= Cardinality(U)
  BY <1>1, <1>2, FS_Subset
<1> QED BY <1>2, <1>3, FS_CardinalityType DEF U, Edges

LEMMA LeftNat ==
  ASSUME EntriesCounted, NEW id, NEW w, WalkOK(w, id)
  PROVE  Left(w, id) \in Nat
<1>1. Len(w.todo) \in Nat /\ Cardinality(Open(id, w.done)) \in Nat
  BY LenProperties, OpenFinite, FS_CardinalityType DEF WalkOK
<1> QED BY <1>1 DEF Left

LEMMA IdsWanted ==
  ASSUME NEW l \in Seq(WantedIds \X Nat)
  PROVE  IdsIn(l) \subseteq WantedIds
<1>1. \A k \in DOMAIN l : l[k] \in WantedIds \X Nat
  BY LenProperties, ElementOfSeq
<1> QED BY <1>1 DEF IdsIn, Range

(* The rounds are enough, and the list is complete when they end.          *)
LEMMA WalkEnds ==
  ASSUME ScanInv, EntriesTrue, EntriesCounted, scanPhase # "scan", NEW id
  PROVE  WalkOK(WithParents(id), id) /\ WithParents(id).todo = <<>> /\ IdsIn(WithParents(id).out) = Ancestor(id)
<1>1. PICK N : N = Edges + 1
  OBVIOUS
<1>2. PICK after : N \in Nat /\ WithParents(id) = after[N] /\ Walk(after, Start(id), N)
  BY <1>1, WalkDefined
<1>3. WalkOK(Start(id), id) /\ Left(Start(id), id) <= N
  <2>1. PICK w : w = Start(id)
    OBVIOUS
  <2>2. w.out = <<>> /\ w.todo = <<id>> /\ w.done = {} /\ w.map = memberships
    BY <2>1 DEF Start
  <2>3. w = [out |-> w.out, todo |-> w.todo, done |-> w.done, map |-> w.map]
    BY <2>1, <2>2 DEF Start
  <2>4. IdsIn(<<>>) = {} /\ Range(<<id>>) = {id} /\ Len(<<id>>) = 1 /\ <<id>> \in Seq(WantedIds \cup {id})
    BY DEF IdsIn, Range
  <2>5. WalkOK(w, id)
    BY <2>2, <2>3, <2>4 DEF WalkOK, SameLists
  <2>6. PICK b, e, m : b = Cardinality(Open(id, {})) /\ e = Cardinality(Entries) /\ m = Cardinality(AddedMembers)
    OBVIOUS
  <2>7. b \in Nat /\ b <= e
    BY <2>6, OpenFinite, FS_CardinalityType
  <2>8. e \in Nat /\ e <= m
    BY <2>6, FS_CardinalityType DEF EntriesCounted
  <2>9. m \in Nat /\ Edges \in Nat /\ m <= Edges
    BY <2>6, AddedFewer
  <2>10. 1 + b <= N
    BY <1>1, <2>7, <2>8, <2>9
  <2>11. Left(w, id) = 1 + b
    BY <2>2, <2>4, <2>6 DEF Left
  <2> QED BY <2>1, <2>5, <2>10, <2>11
<1> DEFINE S == {n \in Nat : n <= N => WalkOK(after[n], id) /\ (after[n].todo = <<>> \/ Left(after[n], id) + n <= N)}
<1>4. 0 \in S
  <2>1. Left(Start(id), id) \in Int
    BY <1>3, LeftNat
  <2> QED BY <1>2, <1>3, <2>1 DEF Walk
<1>5. ASSUME NEW n \in Nat, n \in S PROVE n + 1 \in S
  <2>1. SUFFICES ASSUME n + 1 <= N
                 PROVE  WalkOK(after[n + 1], id) /\ (after[n + 1].todo = <<>> \/ Left(after[n + 1], id) + (n + 1) <= N)
    OBVIOUS
  <2>2. n <= N /\ n + 1 \in 1..N /\ n + 1 - 1 = n
    BY <1>2, <2>1
  <2>3. PICK w : w = after[n]
    OBVIOUS
  <2>4. WalkOK(w, id) /\ (w.todo = <<>> \/ Left(w, id) + n <= N) /\ after[n + 1] = Visit(w)
    BY <1>2, <1>5, <2>2, <2>3 DEF Walk
  <2>5. WalkOK(Visit(w), id) /\ IF w.todo = <<>> THEN Visit(w) = w ELSE Left(Visit(w), id) = Left(w, id) - 1
    BY <2>4, VisitSteps
  <2>6. CASE w.todo = <<>>
    BY <2>4, <2>5, <2>6
  <2>7. CASE w.todo # <<>>
    <3>1. PICK a : a = Left(w, id)
      OBVIOUS
    <3>2. a \in Nat
      BY <2>4, <3>1, LeftNat
    <3>3. Left(Visit(w), id) = a - 1 /\ a + n <= N
      BY <2>4, <2>5, <2>7, <3>1
    <3>4. (a - 1) + (n + 1) <= N
      BY <1>2, <3>2, <3>3
    <3> QED BY <2>4, <2>5, <3>3, <3>4
  <2> QED BY <2>6, <2>7
<1> HIDE DEF S
<1>6. N \in S
  BY <1>2, <1>4, <1>5, SetInduction
<1>7. PICK w : w = WithParents(id)
  OBVIOUS
<1>8. WalkOK(w, id) /\ (w.todo = <<>> \/ Left(w, id) + N <= N)
  BY <1>2, <1>6, <1>7 DEF S
<1>9. w.todo = <<>>
  <2>1. SUFFICES ASSUME w.todo # <<>> PROVE FALSE
    OBVIOUS
  <2>2. Len(w.todo) \in Nat \ {0} /\ Cardinality(Open(id, w.done)) \in Nat
    BY <1>8, <2>1, TodoParts, OpenFinite, FS_CardinalityType DEF WalkOK
  <2>3. \A a \in Nat \ {0}, b \in Nat : ~(a + b + N <= N)
    BY <1>2
  <2> QED BY <1>8, <2>1, <2>2, <2>3 DEF Left
<1>10. Range(<<>>) = {}
  BY DEF Range
<1>11. id \in w.done /\ IdsIn(w.out) \subseteq w.done
  BY <1>8, <1>9, <1>10 DEF WalkOK
<1>12. IdsIn(w.out) \subseteq WantedIds
  BY <1>8, IdsWanted DEF WalkOK
<1>13. ParentsOf(IdsIn(w.out) \cup {id}) \subseteq IdsIn(w.out)
  <2>1. SUFFICES ASSUME NEW a \in ParentsOf(IdsIn(w.out) \cup {id}) PROVE a \in IdsIn(w.out)
    OBVIOUS
  <2>2. PICK q \in Wanted : a = q.id /\ \E m \in Range(q.members) : m.type = "relation" /\ m.id \in IdsIn(w.out) \cup {id}
    BY <2>1 DEF ParentsOf
  <2>3. PICK m \in Range(q.members) : m.type = "relation" /\ m.id \in IdsIn(w.out) \cup {id}
    BY <2>2
  <2>4. a \in ParentsOf({m.id})
    BY <2>2, <2>3 DEF ParentsOf
  <2>5. m.id \in w.done
    BY <1>11, <2>3
  <2> QED BY <1>8, <2>4, <2>5 DEF WalkOK
<1>14. IdsIn(w.out) = Ancestor(id)
  <2>1. \A T : ParentsOf(T \cup {id}) \subseteq T => IdsIn(w.out) \subseteq T
    BY <1>8 DEF WalkOK
  <2>2. IdsIn(w.out) \subseteq Ancestor(id)
    BY <1>12, <2>1 DEF Ancestor, WantedIds
  <2>3. Ancestor(id) \subseteq IdsIn(w.out)
    BY <1>12, <1>13 DEF Ancestor, WantedIds
  <2> QED BY <2>2, <2>3
<1> QED BY <1>7, <1>8, <1>9, <1>14

-----------------------------------------------------------------------------
(* Every step keeps what the walk rests on. *)

LEMMA EntriesKept ==
  ASSUME EntriesTrue, EntriesCounted, \A key : At(memberships', key) = At(memberships, key),
         \A q \in Wanted : Added(q)' = Added(q)
  PROVE  EntriesTrue' /\ EntriesCounted'
<1>1. DOMAIN <<>> = {} /\ <<>> \in Seq({q.id : q \in Wanted} \X Nat)
  OBVIOUS
<1>2. ASSUME NEW key \in DOMAIN memberships'
      PROVE  \/ memberships'[key] = <<>>
             \/ key \in DOMAIN memberships /\ memberships'[key] = memberships[key]
  <2>1. At(memberships', key) = memberships'[key]
    BY DEF At
  <2>2. At(memberships', key) = At(memberships, key)
    OBVIOUS
  <2> QED BY <2>1, <2>2 DEF At
<1>3. ASSUME NEW key \in DOMAIN memberships, NEW k \in DOMAIN memberships[key]
      PROVE  key \in DOMAIN memberships' /\ memberships'[key] = memberships[key]
  <2>1. At(memberships, key) = memberships[key] /\ memberships[key] # <<>>
    BY <1>1 DEF At
  <2>2. At(memberships', key) = At(memberships, key)
    OBVIOUS
  <2> QED BY <2>1, <2>2 DEF At
<1>4. Entries' = Entries
  <2>1. Entries' \subseteq Entries
    BY <1>1, <1>2 DEF Entries
  <2>2. Entries \subseteq Entries'
    BY <1>3 DEF Entries
  <2> QED BY <2>1, <2>2
<1>5. AddedMembers' = AddedMembers
  BY DEF AddedMembers
<1>6. EntriesCounted'
  BY <1>4, <1>5 DEF EntriesCounted
<1>7. ASSUME NEW key \in DOMAIN memberships'
      PROVE  /\ memberships'[key] \in Seq({q.id : q \in Wanted} \X Nat)
             /\ \A k \in DOMAIN memberships'[key] :
                  \E q \in Wanted : \E j \in Added(q)' : q.id = memberships'[key][k][1] /\ key = SlotOf(q.members[j])
  <2>1. CASE memberships'[key] = <<>>
    BY <1>1, <2>1
  <2>2. CASE key \in DOMAIN memberships /\ memberships'[key] = memberships[key]
    BY <2>2 DEF EntriesTrue
  <2> QED BY <1>2, <2>1, <2>2
<1>8. EntriesTrue'
  BY <1>7 DEF EntriesTrue
<1> QED BY <1>6, <1>8

(* A member that is added is one entry more and one member more.           *)
LEMMA AddEntries ==
  ASSUME ScanInv, EntriesTrue, EntriesCounted, NEW s \in Scanners, AddMember(s)
  PROVE  EntriesTrue' /\ EntriesCounted'
<1>1. PICK q0, at, role0 : q0 = task[s].rel /\ at = task[s].at /\ role0 = task[s].role
  OBVIOUS
<1>2. /\ q0 \in Wanted /\ at \in DOMAIN q0.members /\ role0 \in Nat /\ at \notin Added(q0)
      /\ \A q \in Wanted : Added(q)' = IF q = q0 THEN Added(q) \cup {at} ELSE Added(q)
  BY <1>1, AddKeeps
<1>3. PICK slot : slot = SlotOf(q0.members[at])
  OBVIOUS
<1>4. PICK l : l = At(memberships, slot)
  OBVIOUS
<1>5. PICK e : e = <<q0.id, role0>>
  OBVIOUS
<1>6. memberships' = Put(memberships, slot, Append(l, e))
  BY <1>1, <1>3, <1>4, <1>5 DEF AddMember, SlotOf
<1> DEFINE T == {q.id : q \in Wanted} \X Nat
<1>7. e \in T /\ e[1] = q0.id
  BY <1>2, <1>5
<1>8. (l \in Seq(T) /\ slot \in DOMAIN memberships) \/ (l = <<>> /\ slot \notin DOMAIN memberships)
  <2>1. CASE slot \in DOMAIN memberships
    <3>1. l = memberships[slot]
      BY <1>4, <2>1 DEF At
    <3>2. memberships[slot] \in Seq({q.id : q \in Wanted} \X Nat)
      BY <2>1 DEF EntriesTrue
    <3> QED BY <2>1, <3>1, <3>2
  <2>2. CASE slot \notin DOMAIN memberships
    BY <1>4, <2>2 DEF At
  <2> QED BY <2>1, <2>2
<1>9. l \in Seq(T)
  <2>1. <<>> \in Seq(T)
    OBVIOUS
  <2> HIDE DEF T
  <2> QED BY <1>8, <2>1
<1>10. PICK n \in Nat : n = Len(l) /\ DOMAIN l = 1..n
  BY <1>9, LenProperties
<1>11. PICK l2 : l2 = Append(l, e)
  OBVIOUS
<1>12. /\ l2 \in Seq(T) /\ DOMAIN l2 = 1..(n + 1) /\ l2[n + 1] = e /\ \A k \in 1..n : l2[k] = l[k]
  <2> HIDE DEF T
  <2>1. l2 \in Seq(T) /\ Len(l2) = n + 1 /\ l2[n + 1] = e /\ \A k \in 1..n : l2[k] = l[k]
    BY <1>7, <1>9, <1>10, <1>11, AppendProperties
  <2> QED BY <2>1, LenProperties
<1>13. DOMAIN memberships' = DOMAIN memberships \cup {slot} /\ memberships'[slot] = l2
       /\ \A key \in DOMAIN memberships : key # slot => memberships'[key] = memberships[key]
  BY <1>6, <1>11 DEF Put
<1>14. slot \in DOMAIN memberships => l = memberships[slot]
  BY <1>4 DEF At
<1>15. \A q \in Wanted : Added(q) \subseteq Added(q)'
  BY <1>2
<1>16. ASSUME NEW key \in DOMAIN memberships'
       PROVE  /\ memberships'[key] \in Seq(T)
              /\ \A k \in DOMAIN memberships'[key] :
                   \E q \in Wanted : \E j \in Added(q)' : q.id = memberships'[key][k][1] /\ key = SlotOf(q.members[j])
  <2>1. CASE key # slot
    <3>1. key \in DOMAIN memberships /\ memberships'[key] = memberships[key]
      BY <1>13, <2>1
    <3>2. /\ memberships[key] \in Seq(T)
          /\ \A k \in DOMAIN memberships[key] :
                   \E q \in Wanted : \E j \in Added(q) : q.id = memberships[key][k][1] /\ key = SlotOf(q.members[j])
      BY <3>1 DEF EntriesTrue
    <3> HIDE DEF T
    <3> QED BY <1>15, <3>1, <3>2
  <2>2. CASE key = slot
    <3>1. memberships'[key] = l2
      BY <1>13, <2>2
    <3>2. ASSUME NEW k \in 1..(n + 1)
          PROVE  \E q \in Wanted : \E j \in Added(q)' : q.id = l2[k][1] /\ slot = SlotOf(q.members[j])
      <4>1. CASE k = n + 1
        <5>1. at \in Added(q0)' /\ l2[k][1] = q0.id
          BY <1>2, <1>7, <1>12, <4>1
        <5> QED BY <1>2, <1>3, <5>1
      <4>2. CASE k # n + 1
        <5>1. k \in 1..n /\ l2[k] = l[k]
          BY <1>12, <4>2
        <5>2. slot \in DOMAIN memberships /\ k \in DOMAIN memberships[slot] /\ l = memberships[slot]
          <6>1. l # <<>>
            BY <1>10, <5>1
          <6> QED BY <1>8, <1>10, <1>14, <5>1, <6>1
        <5>3. \E q \in Wanted : \E j \in Added(q) : q.id = l[k][1] /\ slot = SlotOf(q.members[j])
          BY <5>2 DEF EntriesTrue
        <5> QED BY <1>15, <5>1, <5>3
      <4> QED BY <4>1, <4>2
    <3> HIDE DEF T
    <3> QED BY <1>12, <2>2, <3>1, <3>2
  <2> QED BY <2>1, <2>2
<1>17. EntriesTrue'
  BY <1>16 DEF EntriesTrue
<1>18. Entries' = Entries \cup {<<slot, n + 1>>} /\ <<slot, n + 1>> \notin Entries
  <2>1. ASSUME NEW key \in DOMAIN memberships', NEW k \in DOMAIN memberships'[key], ~(key = slot /\ k = n + 1)
        PROVE  key \in DOMAIN memberships /\ k \in DOMAIN memberships[key]
    <3>1. CASE key # slot
      BY <1>13, <2>1, <3>1
    <3>2. CASE key = slot
      <4>1. k \in 1..n
        BY <1>12, <1>13, <2>1, <3>2
      <4>2. l # <<>>
        BY <1>10, <4>1
      <4> QED BY <1>8, <1>10, <1>14, <3>2, <4>1, <4>2
    <3> QED BY <3>1, <3>2
  <2>2. ASSUME NEW key \in DOMAIN memberships, NEW k \in DOMAIN memberships[key]
        PROVE  key \in DOMAIN memberships' /\ k \in DOMAIN memberships'[key] /\ ~(key = slot /\ k = n + 1)
    <3>1. CASE key # slot
      BY <1>13, <2>2, <3>1
    <3>2. CASE key = slot
      <4>1. k \in 1..n
        BY <1>10, <1>14, <2>2, <3>2
      <4> QED BY <1>12, <1>13, <3>2, <4>1
    <3> QED BY <3>1, <3>2
  <2>3. slot \in DOMAIN memberships' /\ n + 1 \in DOMAIN memberships'[slot]
    BY <1>12, <1>13
  <2>4. Entries' \subseteq Entries \cup {<<slot, n + 1>>}
    BY <2>1 DEF Entries
  <2>5. Entries \cup {<<slot, n + 1>>} \subseteq Entries'
    BY <2>2, <2>3 DEF Entries
  <2>6. <<slot, n + 1>> \notin Entries
    BY <2>2 DEF Entries
  <2> QED BY <2>4, <2>5, <2>6
<1>19. AddedMembers' = AddedMembers \cup {<<q0, at>>} /\ <<q0, at>> \notin AddedMembers
  BY <1>2 DEF AddedMembers
<1>20. IsFiniteSet(AddedMembers) /\ Cardinality(AddedMembers) \in Nat /\ IsFiniteSet(Entries) /\ Cardinality(Entries) \in Nat
  BY AddedFewer, FS_CardinalityType DEF EntriesCounted
<1>21. IsFiniteSet(Entries') /\ Cardinality(Entries') = Cardinality(Entries) + 1
  BY <1>18, <1>20, FS_AddElement
<1>22. Cardinality(AddedMembers') = Cardinality(AddedMembers) + 1
  BY <1>19, <1>20, FS_AddElement
<1>23. EntriesCounted'
  BY <1>20, <1>21, <1>22 DEF EntriesCounted
<1> QED BY <1>17, <1>23

(* The relations the post-scan has still to visit, and a visit.            *)
Past == IF visited = <<>> THEN 0 ELSE Last(visited).id
Rest == {id \in {k[3] : k \in {j \in DOMAIN memberships : j[1] = "relation"}} : id > Past}

VisitRelation(id) ==
    /\ id = CHOOSE i \in Rest : \A j \in Rest : i <= j
    /\ memberships' = WithParents(id).map
    /\ relationTags' = [Touch(relationTags, TagSlot(id), {}) EXCEPT ![TagSlot(id)] = Bounced(@, WithParents(id).out)]
    /\ visited' = Append(visited, [id |-> id, list |-> WithParents(id).out, names |-> Bounced({}, WithParents(id).out)])
    /\ scanPhase' = scanPhase

LEMMA PostScanSteps ==
  ASSUME PostScanRelation
  PROVE  /\ scanPhase = "postscan" /\ UNCHANGED <<unscanned, task, rareRoles, relationsUsed>>
         /\ \/ Rest = {} /\ scanPhase' = "read" /\ UNCHANGED <<memberships, relationTags, visited>>
            \/ Rest # {} /\ \E id : VisitRelation(id)
<1>1. scanPhase = "postscan" /\ UNCHANGED <<unscanned, task, rareRoles, relationsUsed>>
  BY DEF PostScanRelation
<1>2. CASE Rest = {}
  BY <1>1, <1>2 DEF PostScanRelation, Rest, Past
<1>3. CASE Rest # {}
  <2>1. PICK id : id = CHOOSE i \in Rest : \A j \in Rest : i <= j
    OBVIOUS
  <2>2. VisitRelation(id)
    BY <1>3, <2>1 DEF PostScanRelation, Rest, Past, VisitRelation
  <2> QED BY <1>1, <1>3, <2>2
<1> QED BY <1>2, <1>3

(* A sequence of records, one more at its end.                             *)
LEMMA OneMore ==
  ASSUME NEW a, a \in Seq(Range(a)), NEW x
  PROVE  /\ Append(a, x) \in Seq(Range(Append(a, x))) /\ Len(a) \in Nat /\ DOMAIN a = 1..Len(a)
         /\ DOMAIN Append(a, x) = 1..(Len(a) + 1)
         /\ Append(a, x)[Len(a) + 1] = x /\ \A i \in 1..Len(a) : Append(a, x)[i] = a[i]
<1>0. PICK b : b = Append(a, x)
  OBVIOUS
<1> DEFINE S == Range(a) \cup {x}
<1>1. a \in Seq(S)
  <2>1. a \in [1..Len(a) -> Range(a)] /\ Len(a) \in Nat
    BY LenProperties
  <2>2. a \in [1..Len(a) -> S]
    BY <2>1
  <2> HIDE DEF S
  <2> QED BY <2>1, <2>2, FunctionIsSeq
<1>2. x \in S
  OBVIOUS
<1> HIDE DEF S
<1>3. Len(a) \in Nat /\ DOMAIN a = 1..Len(a)
  BY <1>1, LenProperties
<1>4. b \in Seq(S) /\ Len(b) = Len(a) + 1 /\ b[Len(a) + 1] = x /\ \A i \in 1..Len(a) : b[i] = a[i]
  BY <1>0, <1>1, <1>2, <1>3, AppendProperties
<1>5. DOMAIN b = 1..(Len(a) + 1)
  BY <1>4, LenProperties
<1>6. b \in Seq(Range(b))
  <2>1. b \in [1..Len(b) -> S] /\ Len(b) \in Nat /\ DOMAIN b = 1..Len(b)
    BY <1>4, LenProperties
  <2>2. b \in [1..Len(b) -> Range(b)]
    BY <2>1 DEF Range
  <2> QED BY <2>1, <2>2, FunctionIsSeq
<1> QED BY <1>0, <1>3, <1>4, <1>5, <1>6

LEMMA QuietWalk ==
  ASSUME WalkInv, ScanInv', \A q \in Wanted : Added(q)' = Added(q), UNCHANGED <<memberships, visited>>
  PROVE  WalkInv'
<1>1. \A key : At(memberships', key) = At(memberships, key)
  OBVIOUS
<1>2. EntriesTrue' /\ EntriesCounted'
  BY <1>1, EntriesKept DEF WalkInv
<1>3. AncestorsListed'
  BY DEF WalkInv, AncestorsListed
<1> QED BY <1>2, <1>3 DEF WalkInv

LEMMA PostScanWalk ==
  ASSUME WalkInv, PostScanRelation
  PROVE  WalkInv'
<1>1. ScanInv' /\ \A q \in Wanted : Added(q)' = Added(q)
  BY PostScanKeeps DEF WalkInv
<1>2. scanPhase = "postscan"
  BY PostScanSteps
<1>3. CASE UNCHANGED <<memberships, visited>>
  BY <1>1, <1>3, QuietWalk
<1>4. ASSUME NEW id, VisitRelation(id) PROVE WalkInv'
  <2>1. PICK w : w = WithParents(id)
    OBVIOUS
  <2>2. WalkOK(w, id) /\ IdsIn(w.out) = Ancestor(id)
    BY <1>2, <2>1, WalkEnds DEF WalkInv
  <2>3. PICK names : names = Bounced({}, w.out)
    OBVIOUS
  <2>4. memberships' = w.map /\ visited' = Append(visited, [id |-> id, list |-> w.out, names |-> names])
    BY <1>4, <2>1, <2>3 DEF VisitRelation
  <2>5. \A key : At(memberships', key) = At(memberships, key)
    BY <2>2, <2>4 DEF WalkOK, SameLists
  <2>6. EntriesTrue' /\ EntriesCounted'
    BY <1>1, <2>5, EntriesKept DEF WalkInv
  <2>7. PICK n : n = Len(visited)
    OBVIOUS
  <2>8. /\ visited' \in Seq(Range(visited')) /\ n \in Nat /\ DOMAIN visited = 1..n /\ DOMAIN visited' = 1..(n + 1)
        /\ visited'[n + 1] = [id |-> id, list |-> w.out, names |-> names] /\ \A i \in 1..n : visited'[i] = visited[i]
    <3>1. PICK x : x = [id |-> id, list |-> w.out, names |-> names]
      OBVIOUS
    <3>2. visited \in Seq(Range(visited)) /\ visited' = Append(visited, x)
      BY <2>4, <3>1 DEF WalkInv
    <3>3. /\ visited' \in Seq(Range(visited')) /\ n \in Nat /\ DOMAIN visited = 1..n /\ DOMAIN visited' = 1..(n + 1)
          /\ visited'[n + 1] = x /\ \A i \in 1..n : visited'[i] = visited[i]
      BY <2>7, <3>2, OneMore
    <3> QED BY <3>1, <3>3
  <2>9. ASSUME NEW i \in DOMAIN visited' PROVE {p[1] : p \in Range(visited'[i].list)} = Ancestor(visited'[i].id)
    <3>1. CASE i = n + 1
      BY <2>2, <2>8, <3>1 DEF IdsIn
    <3>2. CASE i # n + 1
      <4>1. i \in DOMAIN visited /\ visited'[i] = visited[i]
        BY <2>8, <3>2
      <4> QED BY <4>1 DEF WalkInv, AncestorsListed
    <3> QED BY <3>1, <3>2
  <2>10. AncestorsListed'
    BY <2>9 DEF AncestorsListed
  <2> QED BY <1>1, <2>6, <2>8, <2>10 DEF WalkInv
<1> QED BY <1>3, <1>4, PostScanSteps

LEMMA WalkBegins ==
  ASSUME InitScan
  PROVE  WalkInv
<1>1. ScanInv
  BY ScanBegins
<1>2. DOMAIN memberships = {} /\ visited = <<>>
  BY DEF InitScan
<1>3. Entries = {}
  BY <1>2 DEF Entries
<1>4. IsFiniteSet(AddedMembers) /\ Cardinality(AddedMembers) \in Nat
  BY <1>1, AddedFewer
<1>5. EntriesTrue /\ EntriesCounted
  BY <1>2, <1>3, <1>4, FS_EmptySet DEF EntriesTrue, EntriesCounted
<1>6. AncestorsListed /\ visited \in Seq(Range(visited))
  BY <1>2 DEF AncestorsListed
<1> QED BY <1>1, <1>5, <1>6 DEF WalkInv

LEMMA WalkStep ==
  ASSUME WalkInv, [NextScan]_scanVars
  PROVE  WalkInv'
<1>0. ScanInv
  BY DEF WalkInv
<1>1. ASSUME NEW s \in Scanners, NEW r \in unscanned, TakeRelation(s, r) PROVE WalkInv'
  <2>1. UNCHANGED <<memberships, visited>>
    BY <1>1 DEF TakeRelation
  <2> QED BY <1>0, <1>1, <2>1, TakeKeeps, QuietWalk
<1>2. ASSUME NEW s \in Scanners, FindRole(s) PROVE WalkInv'
  <2>1. UNCHANGED <<memberships, visited>>
    BY <1>2 DEF FindRole
  <2> QED BY <1>0, <1>2, <2>1, RoleKeeps, QuietWalk
<1>3. ASSUME NEW s \in Scanners, AddMember(s) PROVE WalkInv'
  <2>1. ScanInv' /\ EntriesTrue' /\ EntriesCounted'
    BY <1>0, <1>3, AddKeeps, AddEntries DEF WalkInv
  <2>2. UNCHANGED visited
    BY <1>3 DEF AddMember
  <2>3. AncestorsListed'
    BY <2>2 DEF WalkInv, AncestorsListed
  <2> QED BY <2>1, <2>2, <2>3 DEF WalkInv
<1>4. ASSUME NEW s \in Scanners, EndRelation(s) PROVE WalkInv'
  <2>1. UNCHANGED <<memberships, visited>>
    BY <1>4 DEF EndRelation
  <2> QED BY <1>0, <1>4, <2>1, EndKeeps, QuietWalk
<1>5. CASE JoinScan
  <2>1. UNCHANGED <<memberships, visited>>
    BY <1>5 DEF JoinScan
  <2> QED BY <1>0, <1>5, <2>1, JoinKeeps, QuietWalk
<1>6. CASE PostScanRelation
  BY <1>6, PostScanWalk
<1>7. CASE UNCHANGED scanVars
  <2>1. UNCHANGED <<scanPhase, unscanned, task, rareRoles, memberships, visited>>
    BY <1>7 DEF scanVars
  <2>2. ScanInv'
    BY <1>0, ScanStep
  <2>3. \A q \in Wanted : Added(q)' = Added(q)
    BY <2>1 DEF Added, OnTask
  <2> QED BY <2>1, <2>2, <2>3, QuietWalk
<1> QED BY <1>1, <1>2, <1>3, <1>4, <1>5, <1>6, <1>7 DEF NextScan

(* In every state of the scan and the post-scan, each entry of a list is   *)
(* of a member its relation's thread has added, there are no more entries  *)
(* than such members, and the relations post-scanned so far were given     *)
(* their ancestors (WalkInv), whatever the file and the number of threads. *)
THEOREM WalkInvariance == SpecScan => []WalkInv
<1>1. InitScan => WalkInv
  BY WalkBegins
<1>2. WalkInv /\ [NextScan]_scanVars => WalkInv'
  BY WalkStep
<1> QED BY <1>1, <1>2, PTL DEF SpecScan

(* Whatever the file, also where relations contain each other or           *)
(* themselves, the list a relation's post-scan is given has every relation *)
(* above it and nothing else, and the walk over them ends                  *)
(* (AncestorsListed; relations_for_relation_with_parents).                 *)
THEOREM AncestorsFound == SpecScan => []AncestorsListed
<1>1. WalkInv => AncestorsListed
  BY DEF WalkInv
<1> QED BY <1>1, WalkInvariance, PTL

-----------------------------------------------------------------------------
(* The tags. *)

LEMMA RelatedNumbers ==
  /\ Related \subseteq Nat /\ \A q \in Wanted : q.id \in Related
  /\ \A q \in Wanted : \A m \in Range(q.members) : m.type = "relation" => m.id \in Related
BY RelationsAssumption DEF Related, Wanted

LEMMA TagsBegin ==
  ASSUME InitScan
  PROVE  TagsHold
<1>1. /\ DOMAIN memberships = {} /\ DOMAIN relationTags = {} /\ visited = <<>> /\ relationsUsed = {}
      /\ unscanned = Relations
  BY DEF InitScan
<1> QED BY <1>1 DEF TagsHold, KeysRelated, VisitedInOrder, UsedScanned, TagsScanned, Wanted

(* A relation that is taken is scanned, with its tags if it is wanted.     *)
LEMMA TakeTags ==
  ASSUME ScanInv, TagsHold, NEW s \in Scanners, NEW r \in unscanned, TakeRelation(s, r)
  PROVE  TagsHold'
<1>1. /\ scanPhase = "scan" /\ unscanned' = unscanned \ {r} /\ scanPhase' = scanPhase
      /\ memberships' = memberships /\ visited' = visited
  BY DEF TakeRelation
<1>2. r \in Relations /\ {r.accept, r.native} \subseteq BOOLEAN
  BY RelationsAssumption DEF ScanInv, ScanTypeOK
<1>3. KeysRelated'
  BY <1>1 DEF TagsHold, KeysRelated
<1>4. VisitedInOrder'
  BY <1>1 DEF TagsHold, VisitedInOrder
<1>5. UsedScanned'
  <2>1. \/ relationsUsed' = relationsUsed
        \/ relationsUsed' = relationsUsed \cup {r.id} /\ (r.native \/ r \in Wanted)
    BY <1>2 DEF TakeRelation, Wanted
  <2>2. \A q \in Relations : q.id = r.id => q = r
    BY <1>2, RelationsAssumption
  <2> QED BY <1>1, <2>1, <2>2 DEF TagsHold, UsedScanned
<1>6. visited = <<>>
  BY <1>1 DEF TagsHold, VisitedInOrder
<1>7. \A id : GivenTo(id) = {} /\ GivenTo(id)' = {}
  <2>1. DOMAIN visited = {} /\ DOMAIN visited' = {}
    BY <1>1, <1>6
  <2> QED BY <2>1 DEF GivenTo
<1>8. TagsScanned'
  <2>1. CASE r \notin Wanted
    <3>1. relationTags' = relationTags
      BY <1>2, <2>1 DEF TakeRelation, Wanted
    <3> QED BY <1>1, <1>7, <2>1, <3>1 DEF TagsHold, TagsScanned
  <2>2. CASE r \in Wanted
    <3>1. PICK slot : slot = TagSlot(r.id)
      OBVIOUS
    <3>2. relationTags' = Put(relationTags, slot, r.tags)
      BY <1>2, <2>2, <3>1 DEF TakeRelation, Wanted
    <3>3. /\ DOMAIN relationTags' = DOMAIN relationTags \cup {slot} /\ relationTags'[slot] = r.tags
          /\ \A k \in DOMAIN relationTags : k # slot => relationTags'[k] = relationTags[k]
      BY <3>2 DEF Put
    <3>4. \A k \in DOMAIN relationTags' : \E id \in Related : k = TagSlot(id)
      BY <2>2, <3>1, <3>3, RelatedNumbers DEF TagsHold, TagsScanned
    <3>5. ASSUME NEW q \in Wanted, q \notin unscanned'
          PROVE  TagSlot(q.id) \in DOMAIN relationTags' /\ relationTags'[TagSlot(q.id)] = q.tags
      <4>1. CASE q = r
        BY <3>1, <3>3, <4>1
      <4>2. CASE q # r
        <5>1. q.id # r.id
          BY <1>2, <4>2, RelationsAssumption DEF Wanted
        <5>2. TagSlot(q.id) # slot
          BY <3>1, <5>1 DEF TagSlot
        <5>3. q \notin unscanned
          BY <1>1, <3>5, <4>2
        <5>4. TagSlot(q.id) \in DOMAIN relationTags /\ relationTags[TagSlot(q.id)] = q.tags
          BY <1>7, <5>3 DEF TagsHold, TagsScanned
        <5> QED BY <3>3, <5>2, <5>4
      <4> QED BY <4>1, <4>2
    <3> QED BY <1>7, <3>4, <3>5 DEF TagsScanned
  <2> QED BY <2>1, <2>2
<1> QED BY <1>3, <1>4, <1>5, <1>8 DEF TagsHold

LEMMA QuietTags ==
  ASSUME TagsHold, UNCHANGED <<unscanned, visited, relationsUsed, relationTags>>, scanPhase' = "scan" => scanPhase = "scan",
         KeysRelated'
  PROVE  TagsHold'
<1>1. \A id : GivenTo(id)' = GivenTo(id)
  BY DEF GivenTo
<1>2. VisitedInOrder'
  BY DEF TagsHold, VisitedInOrder
<1>3. UsedScanned'
  BY DEF TagsHold, UsedScanned
<1>4. TagsScanned'
  BY <1>1 DEF TagsHold, TagsScanned
<1> QED BY <1>2, <1>3, <1>4 DEF TagsHold

LEMMA AddTags ==
  ASSUME ScanInv, TagsHold, NEW s \in Scanners, AddMember(s)
  PROVE  TagsHold'
<1>1. PICK q, at : q = task[s].rel /\ at = task[s].at
  OBVIOUS
<1>2. q \in Wanted /\ at \in DOMAIN q.members
  BY <1>1, AddKeeps
<1>3. PICK m : m = q.members[at]
  OBVIOUS
<1>4. DOMAIN memberships' = DOMAIN memberships \cup {SlotOf(m)}
  BY <1>1, <1>3 DEF AddMember, Put, SlotOf
<1>5. m \in Range(q.members)
  BY <1>2, <1>3 DEF Range
<1>6. SlotOf(m)[1] = m.type /\ SlotOf(m)[3] = m.id /\ (m.type = "relation" => SlotOf(m) = ParentSlot(m.id))
  BY DEF SlotOf, Shard, ParentSlot
<1>7. KeysRelated'
  BY <1>2, <1>4, <1>5, <1>6, RelatedNumbers DEF TagsHold, KeysRelated
<1>8. UNCHANGED <<scanPhase, unscanned, visited, relationsUsed, relationTags>>
  BY DEF AddMember
<1> QED BY <1>7, <1>8, QuietTags

(* The name a relation is given is the only one it has then.               *)
LEMMA BouncedTags ==
  ASSUME NEW tags, NEW list
  PROVE  Bounced(tags, list) = IF Bounced({}, list) = {} THEN tags
                               ELSE {t \in tags : t[1] # "name"} \cup Bounced({}, list)
<1> DEFINE named == {k \in DOMAIN list : ParentNames(list[k][1]) # {}}
<1>1. CASE named = {}
  BY <1>1 DEF Bounced
<1>2. CASE named # {}
  <2>1. PICK x : x = <<"name", CHOOSE n \in ParentNames(list[Max(named)][1]) : TRUE>>
    OBVIOUS
  <2>2. \A T : Bounced(T, list) = {t \in T : t[1] # "name"} \cup {x}
    BY <1>2, <2>1 DEF Bounced
  <2> QED BY <2>2
<1> QED BY <1>1, <1>2

(* The relation visited is the next one: none of its number was.           *)
LEMMA NextVisited ==
  ASSUME WalkInv, TagsHold, Rest # {}, NEW id, VisitRelation(id)
  PROVE  id \in Related /\ id \in Nat /\ \A i \in DOMAIN visited : visited[i].id < id
<1>1. Rest \in SUBSET Related
  BY DEF Rest, TagsHold, KeysRelated
<1>2. Rest \in SUBSET Nat
  BY <1>1, RelatedNumbers
<1>3. \E i \in Rest : \A j \in Rest : i <= j
  BY <1>2, LeastNat
<1>4. id \in Rest
  BY <1>3 DEF VisitRelation
<1>5. id > Past /\ id \in Nat
  BY <1>2, <1>4 DEF Rest
<1>6. ASSUME NEW i \in DOMAIN visited PROVE visited[i].id < id
  <2>1. PICK n \in Nat : n = Len(visited) /\ DOMAIN visited = 1..n
    BY LenProperties DEF WalkInv
  <2>2. visited # <<>> /\ n \in DOMAIN visited
    BY <2>1
  <2>3. Past = visited[n].id
    BY <2>1, <2>2 DEF Past, Last
  <2>4. visited[i].id \in Nat /\ visited[n].id \in Nat
    BY <2>2, RelatedNumbers DEF TagsHold, VisitedInOrder
  <2>5. i < n \/ i = n
    BY <2>1
  <2>6. visited[i].id <= visited[n].id
    BY <2>2, <2>4, <2>5 DEF TagsHold, VisitedInOrder
  <2>7. \A a, b, c \in Nat : a <= b /\ c > b => a < c
    OBVIOUS
  <2> QED BY <1>5, <2>3, <2>4, <2>6, <2>7
<1> QED BY <1>1, <1>4, <1>5, <1>6

LEMMA VisitTags ==
  ASSUME WalkInv, TagsHold, scanPhase = "postscan", UNCHANGED <<unscanned, relationsUsed>>, Rest # {},
         NEW id, VisitRelation(id)
  PROVE  TagsHold'
<1>1. id \in Related /\ id \in Nat /\ \A i \in DOMAIN visited : visited[i].id < id
  BY NextVisited
<1>2. PICK w : w = WithParents(id)
  OBVIOUS
<1>3. WalkOK(w, id)
  BY <1>2, WalkEnds DEF WalkInv
<1>4. PICK names : names = Bounced({}, w.out)
  OBVIOUS
<1>5. PICK x : x = [id |-> id, list |-> w.out, names |-> names]
  OBVIOUS
<1>6. memberships' = w.map /\ visited' = Append(visited, x) /\ scanPhase' = "postscan"
  BY <1>2, <1>4, <1>5 DEF VisitRelation
<1>7. KeysRelated'
  <2>1. SUFFICES ASSUME NEW key \in DOMAIN w.map, key[1] = "relation" PROVE key[3] \in Related /\ key = ParentSlot(key[3])
    BY <1>6 DEF KeysRelated
  <2>2. CASE key \in DOMAIN memberships
    BY <2>1, <2>2 DEF TagsHold, KeysRelated
  <2>3. CASE \E y \in w.done : key = ParentSlot(y)
    <3>1. PICK y \in w.done : key = ParentSlot(y)
      BY <2>3
    <3>2. y \in Related /\ key[3] = y
      BY <1>1, <1>3, <3>1, RelatedNumbers DEF WalkOK, WantedIds, ParentSlot
    <3> QED BY <3>1, <3>2
  <2> QED BY <1>3, <2>2, <2>3 DEF WalkOK
<1>8. PICK n : n = Len(visited)
  OBVIOUS
<1>9. /\ n \in Nat /\ DOMAIN visited = 1..n /\ DOMAIN visited' = 1..(n + 1)
      /\ visited'[n + 1] = x /\ \A i \in 1..n : visited'[i] = visited[i]
  <2>1. visited \in Seq(Range(visited))
    BY DEF WalkInv
  <2> QED BY <1>6, <1>8, <2>1, OneMore
<1>10. x.id = id /\ x.names = names
  BY <1>5
<1>11. VisitedInOrder'
  <2>1. \A i \in DOMAIN visited' : visited'[i].id \in Related
    BY <1>1, <1>9, <1>10 DEF TagsHold, VisitedInOrder
  <2>2. ASSUME NEW i \in 1..(n + 1), NEW j \in 1..(n + 1), i < j PROVE visited'[i].id < visited'[j].id
    <3>1. i \in 1..n
      BY <1>9, <2>2
    <3>2. CASE j = n + 1
      BY <1>1, <1>9, <1>10, <3>1, <3>2
    <3>3. CASE j # n + 1
      <4>1. j \in 1..n
        BY <1>9, <3>3
      <4> QED BY <1>9, <2>2, <3>1, <4>1 DEF TagsHold, VisitedInOrder
    <3> QED BY <3>2, <3>3
  <2> QED BY <1>6, <1>9, <2>1, <2>2 DEF VisitedInOrder
<1>12. UsedScanned'
  BY DEF TagsHold, UsedScanned
<1>13. PICK slot, tags : slot = TagSlot(id) /\ tags = Touch(relationTags, slot, {})
  OBVIOUS
<1>14. DOMAIN tags = DOMAIN relationTags \cup {slot} /\ \A k \in DOMAIN relationTags : tags[k] = relationTags[k]
  BY <1>13 DEF Touch
<1>15. PICK old : old = tags[slot]
  OBVIOUS
<1>16. PICK new : new = Bounced(old, w.out)
  OBVIOUS
<1>17. relationTags' = [tags EXCEPT ![slot] = new]
  BY <1>2, <1>13, <1>15, <1>16 DEF VisitRelation
<1>18. /\ DOMAIN relationTags' = DOMAIN relationTags \cup {slot} /\ relationTags'[slot] = new
       /\ \A k \in DOMAIN relationTags : k # slot => relationTags'[k] = relationTags[k]
  <2>1. DOMAIN relationTags' = DOMAIN tags /\ relationTags'[slot] = new
    BY <1>14, <1>17
  <2>2. \A k \in DOMAIN tags : k # slot => relationTags'[k] = tags[k]
    BY <1>17
  <2> QED BY <1>14, <2>1, <2>2
<1>19. \A k \in DOMAIN relationTags' : \E i \in Related : k = TagSlot(i)
  BY <1>1, <1>13, <1>18 DEF TagsHold, TagsScanned
<1>20. GivenTo(id) = {} /\ GivenTo(id)' = names
  <2>1. {j \in DOMAIN visited : visited[j].id = id} = {}
    <3>1. \A j \in DOMAIN visited : visited[j].id # id
      <4>1. \A j \in DOMAIN visited : visited[j].id \in Nat
        BY RelatedNumbers DEF TagsHold, VisitedInOrder
      <4> QED BY <1>1, <4>1
    <3> QED BY <3>1
  <2>2. {j \in DOMAIN visited' : visited'[j].id = id} = {n + 1}
    BY <1>9, <1>10, <2>1
  <2>3. {visited'[i].names : i \in {n + 1}} = {names}
    BY <1>9, <1>10
  <2>4. GivenTo(id)' = UNION {visited'[i].names : i \in {n + 1}}
    BY <2>2 DEF GivenTo
  <2>5. GivenTo(id) = {}
    BY <2>1 DEF GivenTo
  <2> QED BY <2>3, <2>4, <2>5
<1>21. ASSUME NEW i, i # id PROVE GivenTo(i)' = GivenTo(i)
  <2>1. {j \in DOMAIN visited' : visited'[j].id = i} = {j \in DOMAIN visited : visited[j].id = i}
    BY <1>9, <1>10, <1>21
  <2>2. \A j \in DOMAIN visited : visited'[j].names = visited[j].names
    BY <1>9
  <2>3. {visited'[j].names : j \in {k \in DOMAIN visited : visited[k].id = i}} = {visited[j].names : j \in {k \in DOMAIN visited : visited[k].id = i}}
    BY <2>2
  <2> QED BY <2>1, <2>3 DEF GivenTo
<1>22. ASSUME NEW r \in Wanted, r \notin unscanned
       PROVE  /\ TagSlot(r.id) \in DOMAIN relationTags'
              /\ relationTags'[TagSlot(r.id)] = IF GivenTo(r.id)' = {} THEN r.tags
                                               ELSE {t \in r.tags : t[1] # "name"} \cup GivenTo(r.id)'
  <2>1. /\ TagSlot(r.id) \in DOMAIN relationTags
        /\ relationTags[TagSlot(r.id)] = IF GivenTo(r.id) = {} THEN r.tags
                                        ELSE {t \in r.tags : t[1] # "name"} \cup GivenTo(r.id)
    BY <1>22 DEF TagsHold, TagsScanned
  <2>2. CASE r.id = id
    <3>1. relationTags[slot] = r.tags /\ slot \in DOMAIN relationTags
      BY <1>13, <1>20, <2>1, <2>2
    <3>2. old = r.tags
      BY <1>14, <1>15, <3>1
    <3>3. new = IF names = {} THEN r.tags ELSE {t \in r.tags : t[1] # "name"} \cup names
      BY <1>4, <1>16, <3>2, BouncedTags
    <3> QED BY <1>13, <1>18, <1>20, <2>2, <3>3
  <2>3. CASE r.id # id
    <3>1. TagSlot(r.id) # slot
      BY <1>13, <2>3 DEF TagSlot
    <3> QED BY <1>18, <1>21, <2>1, <2>3, <3>1
  <2> QED BY <2>2, <2>3
<1>23. TagsScanned'
  BY <1>19, <1>22 DEF TagsScanned
<1> QED BY <1>7, <1>11, <1>12, <1>23 DEF TagsHold

LEMMA TagsStep ==
  ASSUME TagsInv, [NextScan]_scanVars
  PROVE  TagsInv'
<1>0. ScanInv /\ WalkInv /\ TagsHold
  BY DEF TagsInv, WalkInv
<1>1. SUFFICES TagsHold'
  BY <1>0, WalkStep DEF TagsInv
<1>2. memberships' = memberships => KeysRelated'
  BY <1>0 DEF TagsHold, KeysRelated
<1>3. ASSUME NEW s \in Scanners, NEW r \in unscanned, TakeRelation(s, r) PROVE TagsHold'
  BY <1>0, <1>3, TakeTags
<1>4. ASSUME NEW s \in Scanners, FindRole(s) PROVE TagsHold'
  BY <1>0, <1>2, <1>4, QuietTags DEF FindRole
<1>5. ASSUME NEW s \in Scanners, AddMember(s) PROVE TagsHold'
  BY <1>0, <1>5, AddTags
<1>6. ASSUME NEW s \in Scanners, EndRelation(s) PROVE TagsHold'
  BY <1>0, <1>2, <1>6, QuietTags DEF EndRelation
<1>7. CASE JoinScan
  BY <1>0, <1>2, <1>7, QuietTags DEF JoinScan
<1>8. CASE PostScanRelation
  <2>1. scanPhase = "postscan" /\ UNCHANGED <<unscanned, relationsUsed>>
    BY <1>8, PostScanSteps
  <2>2. CASE scanPhase' = "read" /\ UNCHANGED <<memberships, relationTags, visited>>
    BY <1>0, <1>2, <2>1, <2>2, QuietTags
  <2>3. ASSUME Rest # {}, NEW id, VisitRelation(id) PROVE TagsHold'
    BY <1>0, <2>1, <2>3, VisitTags
  <2> QED BY <1>8, <2>2, <2>3, PostScanSteps
<1>9. CASE UNCHANGED scanVars
  BY <1>0, <1>2, <1>9, QuietTags DEF scanVars
<1> QED BY <1>3, <1>4, <1>5, <1>6, <1>7, <1>8, <1>9 DEF NextScan

(* In every state the post-scan has visited relations in the order of      *)
(* their numbers, and a scanned relation has the tags of the file with the *)
(* name its visit, if there was one, gave it (TagsInv), whatever the file. *)
THEOREM TagsInvariance == SpecScan => []TagsInv
<1>1. InitScan => TagsInv
  BY WalkBegins, TagsBegin DEF TagsInv
<1>2. TagsInv /\ [NextScan]_scanVars => TagsInv'
  BY TagsStep
<1> QED BY <1>1, <1>2, PTL DEF SpecScan

LEMMA TagsRead ==
  ASSUME TagsInv, ScannedMembers
  PROVE  TagsKept
<1>1. SUFFICES ASSUME scanPhase = "read", NEW r \in Relations, r.id \in relationsUsed
               PROVE  TagsForRelation(r) = IF GivenTo(r.id) = {} THEN r.tags
                                           ELSE {t \in r.tags : t[1] # "name"} \cup GivenTo(r.id)
  BY Zenon DEF TagsKept, GivenTo
<1>2. r \notin unscanned /\ (r.native \/ r \in Wanted)
  BY <1>1 DEF TagsInv, TagsHold, UsedScanned
<1>3. CASE r \in Wanted
  BY <1>2, <1>3 DEF TagsInv, TagsHold, TagsScanned, TagsForRelation
<1>4. CASE r.native
  <2>1. r.id \notin Related
    <3>1. \A q \in Wanted : q.id # r.id
      BY <1>4, RelationsAssumption DEF Wanted
    <3>2. \A q \in Wanted : \A m \in Range(q.members) : m.type = "relation" => m.id # r.id
      BY <1>4 DEF ScannedMembers
    <3> QED BY <3>1, <3>2 DEF Related
  <2>2. TagSlot(r.id) \notin DOMAIN relationTags
    BY <2>1 DEF TagsInv, TagsHold, TagsScanned, TagSlot
  <2>3. GivenTo(r.id) = {}
    <3>1. {j \in DOMAIN visited : visited[j].id = r.id} = {}
      BY <2>1 DEF TagsInv, TagsHold, VisitedInOrder
    <3> QED BY <3>1 DEF GivenTo
  <2> QED BY <2>2, <2>3 DEF TagsForRelation
<1> QED BY <1>2, <1>3, <1>4

(* Whatever the file, the threads and the order of the visits, a relation  *)
(* that is written has the tags of the file, with the name its ancestors   *)
(* gave it in the post-scan (TagsKept), provided that no relation whose    *)
(* tags are not scanned is a member of one whose tags are; where it is,    *)
(* reading makes an empty entry that hides its tags.                       *)
THEOREM TagsAreKept ==
  ASSUME ScannedMembers
  PROVE  SpecScan => []TagsKept
<1>1. TagsInv => TagsKept
  BY TagsRead
<1> QED BY <1>1, TagsInvariance, PTL

-----------------------------------------------------------------------------
(* The passes over a file: the order of blocks. *)

(* Ascending lists each number of a finite set once: as many have a rank   *)
(* as there are ranks.                                                     *)
LEMMA AscendingLists ==
  ASSUME NEW S \in SUBSET Nat, IsFiniteSet(S)
  PROVE  /\ Ascending(S) \in Seq(S) /\ Len(Ascending(S)) = Cardinality(S)
         /\ IsInjective(Ascending(S)) /\ ToSet(Ascending(S)) = S
<1> DEFINE n == Cardinality(S)
           Upto(k) == {j \in S : j <= k}
           rank == [k \in S |-> Cardinality(Upto(k))]
           R == Range(rank)
<1>1. n \in Nat /\ IsFiniteSet(1..n) /\ Cardinality(1..n) = n
  BY FS_CardinalityType, FS_Interval
<1>2. ASSUME NEW k \in S PROVE Cardinality(Upto(k)) \in 1..n /\ IsFiniteSet(Upto(k))
  <2>1. Upto(k) \in SUBSET S /\ k \in Upto(k)
    OBVIOUS
  <2> HIDE DEF Upto
  <2>2. IsFiniteSet(Upto(k)) /\ Cardinality(Upto(k)) <= n
    BY <2>1, FS_Subset
  <2>3. Cardinality(Upto(k)) \in Nat /\ Cardinality(Upto(k)) # 0
    BY <2>1, <2>2, FS_CardinalityType, FS_EmptySet
  <2> QED BY <1>1, <2>2, <2>3
<1>3. ASSUME NEW j \in S, NEW k \in S, j < k PROVE Cardinality(Upto(j)) # Cardinality(Upto(k))
  <2>1. \A i \in S : i <= j => i <= k
    BY <1>3
  <2>0. k \in Upto(k) /\ k \notin Upto(j)
    BY <1>3
  <2>3. Upto(j) \in SUBSET Upto(k)
    BY <2>1, Zenon
  <2>2. IsFiniteSet(Upto(k))
    BY <1>2
  <2> HIDE DEF Upto
  <2> QED BY <2>0, <2>2, <2>3, FS_Subset
<1>4. rank \in [S -> 1..n]
  <2> HIDE DEF Upto
  <2> QED BY <1>2
<1>5. \A j, k \in S : rank[j] = rank[k] => j = k
  <2>1. \A j, k \in S : j < k \/ k < j \/ j = k
    OBVIOUS
  <2> HIDE DEF Upto
  <2> QED BY <1>3, <2>1
<1> HIDE DEF rank
<1>6. rank \in Surjection(S, R) /\ rank \in Injection(S, R)
  BY <1>4, <1>5 DEF Surjection, Injection, IsInjective, Range
<1>7. IsFiniteSet(R) /\ Cardinality(R) = n
  BY <1>6, FS_Surjection
<1>8. R \in SUBSET (1..n)
  BY <1>4 DEF Range
<1>9. R = 1..n
  <2> HIDE DEF R
  <2> QED BY <1>1, <1>7, <1>8, FS_Subset
<1>10. \A i \in 1..n : \E k \in S : rank[k] = i
  BY <1>4, <1>9 DEF Range
<1> DEFINE q == Ascending(S)
<1>11. DOMAIN q = 1..n /\ \A i \in 1..n : q[i] = CHOOSE k \in S : Cardinality(Upto(k)) = i
  BY DEF Ascending
<1>12. ASSUME NEW i \in 1..n PROVE q[i] \in S /\ rank[q[i]] = i
  <2>1. \A k \in S : rank[k] = Cardinality(Upto(k))
    BY DEF rank
  <2> HIDE DEF Upto, q
  <2>2. \E k \in S : Cardinality(Upto(k)) = i
    BY <1>10, <2>1
  <2>3. q[i] = CHOOSE k \in S : Cardinality(Upto(k)) = i
    BY <1>11
  <2>4. q[i] \in S /\ Cardinality(Upto(q[i])) = i
    BY <2>2, <2>3
  <2> QED BY <2>1, <2>4
<1>13. q \in [1..n -> S]
  <2>1. q = [i \in 1..n |-> q[i]]
    BY DEF Ascending
  <2> HIDE DEF q
  <2> QED BY <1>12, <2>1
<1> HIDE DEF q, n
<1>14. q \in Seq(S) /\ Len(q) = n /\ DOMAIN q = 1..n
  BY <1>1, <1>13, FunctionIsSeq DEF n
<1>15. IsInjective(q)
  BY <1>12, <1>14 DEF IsInjective
<1>16. ASSUME NEW k \in S PROVE \E i \in 1..n : q[i] = k
  <2>1. rank[k] \in 1..n
    BY <1>4
  <2>2. q[rank[k]] \in S /\ rank[q[rank[k]]] = rank[k]
    BY <1>12, <2>1
  <2> QED BY <1>5, <2>1, <2>2
<1>17. ToSet(q) = S
  <2>1. \A x : x \in ToSet(q) <=> \E i \in 1..n : x = q[i]
    BY <1>14 DEF ToSet
  <2>2. \A x : x \in ToSet(q) => x \in S
    BY <1>12, <2>1
  <2>3. \A x : x \in S => x \in ToSet(q)
    BY <1>16, <2>1
  <2> QED BY <2>2, <2>3
<1> QED BY <1>14, <1>15, <1>17 DEF q, n

(* A piece of a sequence without repetitions. *)
LEMMA PieceOf ==
  ASSUME NEW S, NEW s \in Seq(S), IsInjective(s), NEW m \in 1..(Len(s) + 1), NEW n \in (m - 1)..Len(s)
  PROVE  /\ SubSeq(s, m, n) \in Seq(S) /\ IsInjective(SubSeq(s, m, n))
         /\ \A x : x \in ToSet(SubSeq(s, m, n)) <=> \E i \in m..n : x = s[i]
<1> DEFINE q == SubSeq(s, m, n)
           l == n - m + 1
<1>1. Len(s) \in Nat /\ DOMAIN s = 1..Len(s) /\ m \in Nat /\ n \in Nat /\ l \in Nat
  BY LenProperties
<1>2. q \in Seq(S) /\ Len(q) = l /\ \A i \in 1..l : q[i] = s[m + i - 1]
  BY SubSeqProperties
<1> HIDE DEF q
<1>3. DOMAIN q = 1..l
  BY <1>2, LenProperties
<1>4. \A i \in 1..l : m + i - 1 \in DOMAIN s /\ m + i - 1 \in m..n
  BY <1>1
<1>5. IsInjective(q)
  <2>1. ASSUME NEW i \in 1..l, NEW j \in 1..l, q[i] = q[j] PROVE i = j
    <3>1. s[m + i - 1] = s[m + j - 1]
      BY <1>2, <2>1
    <3>2. m + i - 1 = m + j - 1
      BY <1>4, <3>1 DEF IsInjective
    <3> QED BY <1>1, <3>2
  <2> QED BY <1>3, <2>1 DEF IsInjective
<1>6. ASSUME NEW i \in m..n PROVE s[i] \in ToSet(q)
  <2>1. i - m + 1 \in 1..l /\ m + (i - m + 1) - 1 = i
    BY <1>1
  <2> QED BY <1>2, <1>3, <2>1 DEF ToSet
<1>7. ASSUME NEW x \in ToSet(q) PROVE \E i \in m..n : x = s[i]
  BY <1>2, <1>3, <1>4 DEF ToSet
<1> QED BY <1>2, <1>5, <1>6, <1>7 DEF q
-----------------------------------------------------------------------------
(* The tasks of a pass. *)

LEMMA BatchBounds ==
  ASSUME NEW L \in Nat, NEW B \in Nat \ {0}, NEW i \in 1..((L + B - 1) \div B)
  PROVE  /\ (i - 1) * B \in Nat /\ (i - 1) * B < L /\ i * B \in Nat /\ (i - 1) * B < i * B
<1> DEFINE N == (L + B - 1) \div B
<1>1. N \in Nat /\ N * B <= L + B - 1
  BY Z3
<1> HIDE DEF N
<1>2. i \in Nat /\ i <= N /\ i >= 1
  BY <1>1 DEF N
<1>3. \A a, b, c \in Nat : a <= b => a * c <= b * c
  OBVIOUS
<1>4. i * B <= N * B
  BY <1>1, <1>2, <1>3
<1>5. (i - 1) * B = i * B - B /\ i * B \in Nat /\ N * B \in Nat /\ (i - 1) * B \in Nat
  BY <1>1, <1>2
<1> QED BY <1>1, <1>4, <1>5

(* The ranges of a pass are disjoint runs of the blocks to be read.        *)
LEMMA RangesApart ==
  ASSUME NEW bs, DOMAIN bs \subseteq Nat, IsFiniteSet(DOMAIN bs)
  PROVE  /\ Ranges(bs) \in Seq(Seq(Nat))
         /\ \A i \in DOMAIN Ranges(bs) : IsInjective(Ranges(bs)[i]) /\ ToSet(Ranges(bs)[i]) \subseteq DOMAIN bs
         /\ \A i, j \in DOMAIN Ranges(bs) : i # j => ToSet(Ranges(bs)[i]) \cap ToSet(Ranges(bs)[j]) = {}
<1> DEFINE K == {k \in DOMAIN bs : TypeRead \in bs[k].has}
           keys == Ascending(K)
           L == Len(keys)
           B == IF Phase \in {"Nodes", "Ways"} THEN L \div (threadNum * TasksPerThread) + 1 ELSE 1
           N == (L + B - 1) \div B
           end(i) == IF i * B < L THEN i * B ELSE L
           R == [i \in 1..N |-> SubSeq(keys, (i - 1) * B + 1, end(i))]
<1>1. Ranges(bs) = R
  BY DEF Ranges
<1>2. K \in SUBSET Nat /\ K \in SUBSET (DOMAIN bs)
  OBVIOUS
<1>3. IsFiniteSet(K)
  BY <1>2, FS_Subset
<1> HIDE DEF K
<1>4. keys \in Seq(K) /\ IsInjective(keys) /\ ToSet(keys) = K
  BY <1>2, <1>3, AscendingLists
<1> HIDE DEF keys
<1>5. L \in Nat /\ DOMAIN keys = 1..L
  BY <1>4, LenProperties
<1> HIDE DEF L
<1>6. B \in Nat \ {0}
  <2>1. threadNum * TasksPerThread \in Nat \ {0}
    <3>1. threadNum \in Nat \ {0}
      BY ConfigAssumption, FS_CardinalityType, FS_EmptySet DEF threadNum
    <3>2. TasksPerThread \in Nat \ {0}
      BY ConfigAssumption
    <3>3. \A x, y \in Nat \ {0} : x * y \in Nat \ {0}
      OBVIOUS
    <3> QED BY <3>1, <3>2, <3>3
  <2>2. \A x \in Nat, y \in Nat \ {0} : (x \div y) + 1 \in Nat \ {0}
    OBVIOUS
  <2> QED BY <1>5, <2>1, <2>2
<1> HIDE DEF B
<1>7. N \in Nat
  BY <1>5, <1>6
<1>8. ASSUME NEW i \in 1..N
      PROVE  /\ (i - 1) * B \in Nat /\ (i - 1) * B < L /\ i * B \in Nat /\ (i - 1) * B < i * B
             /\ (i - 1) * B + 1 \in 1..(L + 1) /\ end(i) \in ((i - 1) * B + 1 - 1)..L /\ end(i) <= i * B
  <2>1. (i - 1) * B \in Nat /\ (i - 1) * B < L /\ i * B \in Nat /\ (i - 1) * B < i * B
    BY <1>5, <1>6, BatchBounds
  <2> DEFINE a == (i - 1) * B
             b == i * B
  <2> HIDE DEF a, b
  <2>2. a \in Nat /\ a < L /\ b \in Nat /\ a < b /\ end(i) = IF b < L THEN b ELSE L
    BY <2>1 DEF a, b
  <2>3. a + 1 \in 1..(L + 1) /\ end(i) \in (a + 1 - 1)..L /\ end(i) <= b
    BY <1>5, <2>2
  <2> QED BY <2>1, <2>3 DEF a, b
<1> DEFINE first(i) == (i - 1) * B + 1
<1>9. ASSUME NEW i \in 1..N
      PROVE  /\ R[i] \in Seq(K) /\ IsInjective(R[i])
             /\ \A x : x \in ToSet(R[i]) <=> \E k \in first(i)..end(i) : x = keys[k]
  <2>1. first(i) \in 1..(Len(keys) + 1) /\ end(i) \in (first(i) - 1)..Len(keys)
    BY <1>8 DEF L
  <2>2. R[i] = SubSeq(keys, first(i), end(i))
    OBVIOUS
  <2> DEFINE u == first(i)
             v == end(i)
  <2>3. u \in 1..(Len(keys) + 1) /\ v \in (u - 1)..Len(keys)
    BY <2>1
  <2>4. R[i] = SubSeq(keys, u, v)
    BY <2>2
  <2> HIDE DEF u, v, R
  <2>5. /\ R[i] \in Seq(K) /\ IsInjective(R[i])
        /\ \A x : x \in ToSet(R[i]) <=> \E k \in u..v : x = keys[k]
    BY <1>4, <2>3, <2>4, PieceOf
  <2> QED BY <2>5 DEF u, v
<1>10. ASSUME NEW i \in 1..N, NEW j \in 1..N, i < j PROVE ToSet(R[i]) \cap ToSet(R[j]) = {}
  <2>1. i * B <= (j - 1) * B
    <3>1. \A a, b, c \in Nat : a <= b => a * c <= b * c
      OBVIOUS
    <3>2. i \in Nat /\ j - 1 \in Nat /\ i <= j - 1
      BY <1>7, <1>10
    <3> QED BY <1>6, <3>1, <3>2
  <2>2. end(i) < first(j) /\ first(i) \in Nat /\ first(j) \in Nat /\ first(i) >= 1 /\ first(j) >= 1 /\ end(i) \in Nat /\ end(j) \in Nat /\ end(i) <= L /\ end(j) <= L
    <3>1. /\ end(i) <= i * B /\ i * B \in Nat /\ (j - 1) * B \in Nat /\ (i - 1) * B \in Nat
          /\ end(i) \in ((i - 1) * B + 1 - 1)..L /\ end(j) \in ((j - 1) * B + 1 - 1)..L
      BY <1>8
    <3> HIDE DEF end
    <3>2. end(i) \in Nat /\ end(j) \in Nat /\ end(i) <= L /\ end(j) <= L
      BY <1>5, <3>1
    <3> QED BY <2>1, <3>1, <3>2
  <2> HIDE DEF first, end, R
  <2>3. SUFFICES ASSUME NEW x, x \in ToSet(R[i]), x \in ToSet(R[j]) PROVE FALSE
    OBVIOUS
  <2>4. PICK k \in first(i)..end(i) : x = keys[k]
    BY <1>9, <2>3
  <2>5. PICK l \in first(j)..end(j) : x = keys[l]
    BY <1>9, <2>3
  <2>6. k \in 1..L /\ l \in 1..L /\ k # l
    BY <1>5, <2>2, <2>4, <2>5
  <2> QED BY <1>4, <1>5, <2>4, <2>5, <2>6 DEF IsInjective
<1>11. ASSUME NEW i \in 1..N, NEW j \in 1..N, i # j PROVE ToSet(R[i]) \cap ToSet(R[j]) = {}
  <2>1. i < j \/ j < i
    BY <1>7, <1>11
  <2> HIDE DEF R
  <2> QED BY <1>10, <2>1
<1>12. \A i \in 1..N : R[i] \in Seq(Nat) /\ ToSet(R[i]) \subseteq DOMAIN bs
  <2>1. ASSUME NEW x \in Seq(K) PROVE x \in Seq(Nat) /\ ToSet(x) \subseteq K
    <3>1. DOMAIN x = 1..Len(x) /\ \A l \in 1..Len(x) : x[l] \in K
      BY LenProperties, ElementOfSeq
    <3>2. ToSet(x) \subseteq K
      BY <3>1 DEF ToSet
    <3>3. x \in Seq(Nat)
      BY <1>2, SeqMonotonic
    <3> QED BY <3>2, <3>3
  <2> HIDE DEF R
  <2> QED BY <1>2, <1>9, <2>1
<1>13. DOMAIN R = 1..N /\ R \in Seq(Seq(Nat))
  <2>1. DOMAIN R = 1..N /\ R = [i \in 1..N |-> R[i]]
    OBVIOUS
  <2> HIDE DEF R, N
  <2>2. R \in [1..N -> Seq(Nat)]
    BY <1>12, <2>1
  <2> QED BY <1>7, <2>1, <2>2, FunctionIsSeq
<1> HIDE DEF R, N
<1> QED BY <1>1, <1>9, <1>11, <1>12, <1>13
-----------------------------------------------------------------------------
(* The phases. *)

(* Each phase comes once, the relations last. *)
LEMMA PhasesAre ==
  ASSUME file \in Files
  PROVE  /\ Len(AllPhases) \in Nat /\ Len(AllPhases) >= 4
         /\ \A p \in 1..Len(AllPhases) :
              /\ AllPhases[p] \in {"RelationScan", "WayScan", "Nodes", "Ways", "Relations"}
              /\ AllPhases[p] = "Relations" <=> p = Len(AllPhases)
         /\ \A p, q \in 1..Len(AllPhases) : AllPhases[p] = AllPhases[q] => p = q
<1> DEFINE S == {"RelationScan", "WayScan", "Nodes", "Ways", "Relations"}
           start == <<"RelationScan">> \o (IF WayKeys THEN <<"WayScan">> ELSE <<>>)
           end == <<"Nodes", "Ways", "Relations">>
<1>1. AllPhases = start \o end /\ end \in Seq(S)
  BY DEF AllPhases
<1>2. CASE WayKeys
  <2>1. start = <<"RelationScan">> \o <<"WayScan">> /\ <<"RelationScan">> \in Seq(S) /\ <<"WayScan">> \in Seq(S)
    BY <1>2
  <2> HIDE DEF start
  <2>2. start \in Seq(S) /\ Len(start) = 2 /\ start[1] = "RelationScan" /\ start[2] = "WayScan"
    BY <2>1, ConcatProperties
  <2> HIDE DEF S
  <2>3. Len(AllPhases) = 5 /\ AllPhases[1] = "RelationScan" /\ AllPhases[2] = "WayScan"
        /\ AllPhases[3] = end[1] /\ AllPhases[4] = end[2] /\ AllPhases[5] = end[3]
    <3>1. Len(end) = 3
      OBVIOUS
    <3> HIDE DEF end
    <3>2. /\ Len(AllPhases) = 2 + 3
          /\ \A i \in 1..(2 + 3) : AllPhases[i] = IF i <= 2 THEN start[i] ELSE end[i - 2]
      <4>1. /\ Len(start \o end) = Len(start) + Len(end)
            /\ \A i \in 1..(Len(start) + Len(end)) :
                 (start \o end)[i] = IF i <= Len(start) THEN start[i] ELSE end[i - Len(start)]
        BY <1>1, <2>2, ConcatProperties, Zenon
      <4> QED BY <1>1, <2>2, <3>1, <4>1, Zenon
    <3> QED BY <2>2, <3>2
  <2> QED BY <2>3
<1>3. CASE ~WayKeys
  <2>1. start = <<"RelationScan">> \o << >> /\ <<"RelationScan">> \in Seq(S) /\ << >> \in Seq(S)
    BY <1>3
  <2> HIDE DEF start
  <2>2. start \in Seq(S) /\ Len(start) = 1 /\ start[1] = "RelationScan"
    BY <2>1, ConcatProperties
  <2> HIDE DEF S
  <2>3. Len(AllPhases) = 4 /\ AllPhases[1] = "RelationScan"
        /\ AllPhases[2] = end[1] /\ AllPhases[3] = end[2] /\ AllPhases[4] = end[3]
    BY <1>1, <2>2, ConcatProperties
  <2> QED BY <2>3
<1> QED BY <1>2, <1>3

(* The phase that calls for the objects of a type. *)
LEMMA PhaseOfType ==
  /\ [node |-> "Nodes", way |-> "Ways", relation |-> "Relations"]["node"] = "Nodes"
  /\ [node |-> "Nodes", way |-> "Ways", relation |-> "Relations"]["way"] = "Ways"
  /\ [node |-> "Nodes", way |-> "Ways", relation |-> "Relations"]["relation"] = "Relations"
OBVIOUS

(* The type a pass calls for has begun with the pass, and not before. *)
LEMMA BegunNow ==
  ASSUME file \in Files, phase \in 1..(Len(AllPhases) + 1), Running, Phase \in {"Nodes", "Ways", "Relations"}
  PROVE  /\ TypeRead \in {"node", "way", "relation"}
         /\ Begun(TypeRead) <=> pass = "pool"
         /\ TypeRead = "relation" <=> Phase = "Relations"
<1>1. phase \in 1..Len(AllPhases) /\ \A p \in 1..Len(AllPhases) : AllPhases[p] = Phase => p = phase
  BY PhasesAre DEF Running, Phase
<1>2. TypeRead \in {"node", "way", "relation"} /\ (TypeRead = "relation" <=> Phase = "Relations")
  BY DEF TypeRead
<1>3. [node |-> "Nodes", way |-> "Ways", relation |-> "Relations"][TypeRead] = Phase
  <2>1. CASE Phase = "Nodes"
    BY <2>1, PhaseOfType DEF TypeRead
  <2>2. CASE Phase = "Ways"
    BY <2>2, PhaseOfType DEF TypeRead
  <2>3. CASE Phase = "Relations"
    BY <2>3, PhaseOfType DEF TypeRead
  <2> QED BY <2>1, <2>2, <2>3
<1>4. Begun(TypeRead) <=> \E p \in 1..Len(AllPhases) : AllPhases[p] = Phase /\ (p < phase \/ (p = phase /\ pass = "pool"))
  BY <1>3, Zenon DEF Begun
<1>5. \A p \in 1..Len(AllPhases) : AllPhases[p] = Phase <=> p = phase
  BY <1>1 DEF Phase
<1>6. ~(phase < phase)
  BY <1>1, PhasesAre
<1> HIDE DEF Begun
<1> QED BY <1>1, <1>2, <1>4, <1>5, <1>6

-----------------------------------------------------------------------------
(* The objects of the blocks. *)

LEMMA InBlock ==
  ASSUME NEW b, NEW type, NEW o
  PROVE  o \in ObjectsIn(b, type) <=>
           \E g \in Groups(b) : g.type = type /\ \E i \in DOMAIN g.objs : o = g.objs[i]
BY SMT DEF ObjectsIn, ToSet

LEMMA InShare ==
  ASSUME NEW m, NEW o
  PROVE  o \in Share(m) <=>
           \E g \in Groups(m.block) : g.type = "relation" /\
             \E i \in DOMAIN g.objs : o = g.objs[i] /\ (i - 1) % m.chunks = m.chunk
BY SMT DEF Share

(* An object of what a task reads of a block has a place in it. *)
LEMMA InPart ==
  ASSUME NEW m, NEW o \in Part(m)
  PROVE  \E g \in Groups(m.block) : g.type = TypeRead /\
           \E i \in DOMAIN g.objs : o = g.objs[i] /\ (TypeRead = "relation" => (i - 1) % m.chunks = m.chunk)
<1>1. CASE TypeRead = "relation"
  <2>1. o \in Share(m)
    BY <1>1 DEF Part
  <2> QED BY <1>1, <2>1, InShare
<1>2. CASE TypeRead # "relation"
  <2>1. o \in ObjectsIn(m.block, TypeRead)
    BY <1>2 DEF Part
  <2> QED BY <1>2, <2>1, InBlock
<1> QED BY <1>1, <1>2

(* What two tasks read has no object in common, nor two with the same ID.  *)
LEMMA PartsApart ==
  ASSUME file \in Files, NEW m, NEW n, m.block \in DOMAIN file.blocks, n.block \in DOMAIN file.blocks,
         NEW o \in Part(m), NEW q \in Part(n), o.id = q.id
  PROVE  /\ o = q /\ m.block = n.block
         /\ TypeRead = "relation" /\ m.chunks = n.chunks => m.chunk = n.chunk
<1>1. PICK g \in Groups(m.block) : g.type = TypeRead /\
        \E i \in DOMAIN g.objs : o = g.objs[i] /\ (TypeRead = "relation" => (i - 1) % m.chunks = m.chunk)
  BY InPart, Zenon
<1>2. PICK i \in DOMAIN g.objs : o = g.objs[i] /\ (TypeRead = "relation" => (i - 1) % m.chunks = m.chunk)
  BY <1>1, Zenon
<1>3. PICK h \in Groups(n.block) : h.type = TypeRead /\
        \E j \in DOMAIN h.objs : q = h.objs[j] /\ (TypeRead = "relation" => (j - 1) % n.chunks = n.chunk)
  BY InPart, Zenon
<1>4. PICK j \in DOMAIN h.objs : q = h.objs[j] /\ (TypeRead = "relation" => (j - 1) % n.chunks = n.chunk)
  BY <1>3, Zenon
<1>5. g.type = h.type /\ g.objs[i].id = h.objs[j].id
  BY <1>1, <1>2, <1>3, <1>4
<1>6. m.block = n.block /\ g = h /\ i = j
  <2>1. \A b, c \in DOMAIN file.blocks : \A x \in Groups(b), y \in Groups(c) :
          \A k \in DOMAIN x.objs, l \in DOMAIN y.objs :
            x.type = y.type /\ x.objs[k].id = y.objs[l].id => b = c /\ x = y /\ k = l
    BY FilesAssumption DEF Groups
  <2> QED BY <1>1, <1>2, <1>3, <1>4, <1>5, <2>1
<1> QED BY <1>2, <1>4, <1>6, Zenon

-----------------------------------------------------------------------------
(* The calls. *)

(* Objects that were not called for are added once each. *)
LEMMA CallsAdded ==
  ASSUME CalledOnce, NEW C, calls' = calls (+) SetToBag(C),
         \A c \in C : c.of = TypeRead,
         \A c, d \in C : c.id = d.id => c = d,
         \A c \in C : \A d \in DOMAIN calls : d.of = TypeRead => d.id # c.id
  PROVE  /\ DOMAIN calls' = DOMAIN calls \cup C
         /\ CalledOnce'
<1>1. DOMAIN SetToBag(C) = C /\ \A c \in C : SetToBag(C)[c] = 1
  BY DEF SetToBag
<1>2. /\ DOMAIN calls' = DOMAIN calls \cup C
      /\ \A c \in DOMAIN calls \cup C :
           calls'[c] = (IF c \in DOMAIN calls THEN calls[c] ELSE 0) + (IF c \in C THEN SetToBag(C)[c] ELSE 0)
  <2> HIDE DEF SetToBag
  <2>1. calls' = [e \in DOMAIN calls \cup DOMAIN SetToBag(C) |->
                    (IF e \in DOMAIN calls THEN calls[e] ELSE 0) + (IF e \in DOMAIN SetToBag(C) THEN SetToBag(C)[e] ELSE 0)]
    BY Zenon DEF (+)
  <2> QED BY <1>1, <2>1, Zenon
<1>3. \A c \in C : c \notin DOMAIN calls
  OBVIOUS
<1>4. \A c \in DOMAIN calls : calls[c] = 1
  BY DEF CalledOnce
<1>5. \A c \in DOMAIN calls \cup C : calls'[c] = 1
  BY <1>1, <1>2, <1>3, <1>4
<1>6. ASSUME NEW c \in DOMAIN calls \cup C, NEW d \in DOMAIN calls \cup C, c.of = d.of, c.id = d.id PROVE c = d
  BY <1>6 DEF CalledOnce
<1> QED BY <1>2, <1>5, <1>6 DEF CalledOnce

(* A call is about its object. *)
LEMMA CallFields ==
  ASSUME NEW of, NEW o, NEW got
  PROVE  Call(of, o, got).of = of /\ Call(of, o, got).id = o.id
BY DEF Call

(* A read of a block adds calls for objects of the part it reads.          *)
LEMMA PartCalled ==
  ASSUME OneShardInv, Running, Phase \in {"Nodes", "Ways", "Relations"}, NEW k \in Pending,
         NEW C, calls' = calls (+) SetToBag(C),
         \A c \in C : c.of = TypeRead /\ \E o \in Part(blocks[k]) : c.id = o.id,
         \A c, d \in C : c.id = d.id => c = d
  PROVE  /\ CalledOnce'
         /\ \A c \in DOMAIN calls' : c \in DOMAIN calls \/ (c.of = TypeRead /\ \E o \in Part(blocks[k]) : c.id = o.id)
<1>1. \A c \in C : \A d \in DOMAIN calls : d.of = TypeRead => d.id # c.id
  BY DEF OneShardInv, CallsFresh
<1>2. CalledOnce
  BY DEF OneShardInv
<1>3. DOMAIN calls' = DOMAIN calls \cup C /\ CalledOnce'
  BY <1>1, <1>2, CallsAdded
<1> QED BY <1>3

-----------------------------------------------------------------------------
(* The steps of a pass, for a file read with one shard. *)

(* A pass that has begun stays begun. *)
LEMMA BegunStays ==
  ASSUME file' = file, phase \in Nat, phase' \in Nat, NEW type, Begun(type),
         phase < phase' \/ (phase' = phase /\ (pass = "pool" => pass' = "pool"))
  PROVE  Begun(type)'
<1>1. AllPhases' = AllPhases
  BY DEF AllPhases, WayKeys
<1>2. PICK p \in 1..Len(AllPhases) :
        /\ AllPhases[p] = [node |-> "Nodes", way |-> "Ways", relation |-> "Relations"][type]
        /\ p < phase \/ (p = phase /\ pass = "pool")
  BY Zenon DEF Begun
<1>3. p \in Int
  BY <1>2
<1>4. p < phase' \/ (p = phase' /\ pass' = "pool")
  BY <1>2, <1>3
<1> QED BY <1>1, <1>2, <1>4, Zenon DEF Begun

(* Nothing is called, and nothing is left to read. *)
LEMMA NoTasks ==
  ASSUME ranges' = << >>, todo' \in [Threads -> Seq(Nat)], \A t \in Threads : todo'[t] = << >>
  PROVE  TasksApart' /\ Pending' = {}
<1>1. << >> \in Seq(Seq(Nat)) /\ DOMAIN << >> = {} /\ ToSet(<< >>) = {} /\ IsInjective(<< >>)
  BY DEF ToSet, IsInjective
<1>2. TasksApart'
  BY <1>1 DEF TasksApart
<1>3. \A x : x \notin Pending'
  BY <1>1 DEF Pending
<1> QED BY <1>2, <1>3

LEMMA CallsStay ==
  ASSUME OneShardInv, file' = file, calls' = calls, phase' \in Nat,
         phase < phase' \/ (phase' = phase /\ (pass = "pool" => pass' = "pool"))
  PROVE  /\ \A c \in DOMAIN calls' : c.of \in {"node", "way", "relation"} /\ Begun(c.of)'
         /\ CalledOnce'
<1>1. phase \in Nat
  BY PhasesAre DEF OneShardInv
<1>2. ASSUME NEW c \in DOMAIN calls PROVE c.of \in {"node", "way", "relation"} /\ Begun(c.of)'
  <2>1. c.of \in {"node", "way", "relation"} /\ Begun(c.of)
    BY DEF OneShardInv, CallsFresh
  <2> QED BY <1>1, <2>1, BegunStays
<1>3. CalledOnce'
  BY DEF OneShardInv, CalledOnce
<1> QED BY <1>2, <1>3

(* The blocks of the file, as the scan of their headers lists them. *)
LEMMA ScannedBlocks ==
  ASSUME OneShardInv, ScanBlocks
  PROVE  OneShardInv'
<1>1. /\ file' = file /\ phase' = phase /\ shard' = shard /\ ranges' = ranges /\ todo' = todo
      /\ calls' = calls /\ failed' = failed /\ pass = "scan" /\ pass' = "idle"
      /\ blocks' = [b \in DOMAIN file.blocks |-> Metadata(b)]
  BY DEF ScanBlocks, stores
<1>2. AllPhases' = AllPhases
  BY <1>1 DEF AllPhases, WayKeys
<1>3. DOMAIN file.blocks \subseteq Nat /\ IsFiniteSet(DOMAIN file.blocks)
  <2>1. Len(file.blocks) \in Nat /\ DOMAIN file.blocks = 1..Len(file.blocks)
    BY FilesAssumption DEF OneShardInv
  <2>2. IsFiniteSet(1..Len(file.blocks))
    BY <2>1, FS_Interval
  <2> QED BY <2>1, <2>2
<1>4. ASSUME NEW b \in DOMAIN file.blocks
      PROVE  /\ Metadata(b) \in [block : DOMAIN file.blocks, chunk : Nat, chunks : Nat, has : SUBSET {"node", "way", "relation"}]
             /\ Metadata(b).block = b /\ Metadata(b).chunk = 0 /\ Metadata(b).chunks = 1
  <2>1. \E H \in SUBSET {"node", "way", "relation"} : Metadata(b) = [block |-> b, chunk |-> 0, chunks |-> 1, has |-> H]
    BY Zenon DEF Metadata
  <2> QED BY <2>1
<1>5. BlocksApart'
  <2>1. \A b \in DOMAIN file.blocks : blocks'[b] = Metadata(b)
    BY <1>1
  <2>2. DOMAIN blocks' = DOMAIN file.blocks
    BY <1>1
  <2> QED BY <1>1, <1>3, <1>4, <2>1, <2>2 DEF BlocksApart
<1>6. TasksApart' /\ Pending' = {}
  BY <1>1, NoTasks DEF OneShardInv, TasksApart
<1>7. (\A c \in DOMAIN calls' : c.of \in {"node", "way", "relation"} /\ Begun(c.of)') /\ CalledOnce'
  <2>1. phase' \in Nat
    BY <1>1, PhasesAre DEF OneShardInv
  <2> QED BY <1>1, <2>1, CallsStay
<1>8. CallsFresh'
  BY <1>6, <1>7 DEF CallsFresh
<1> QED BY <1>1, <1>2, <1>5, <1>6, <1>7, <1>8 DEF OneShardInv

(* After the only pass of a phase comes the next phase. *)
LEMMA NextPhase ==
  ASSUME OneShardInv, Shards = 1, NextPass
  PROVE  shard' = 0 /\ phase' = phase + 1
<1>1. effectiveShards = 1 /\ shard = 0
  BY DEF effectiveShards, OneShardInv
<1> QED BY <1>1 DEF NextPass

(* The end of a pass, or one that is skipped. *)
LEMMA PassEnded ==
  ASSUME OneShardInv, Shards = 1, SkipPass \/ Join
  PROVE  OneShardInv'
<1>1. /\ file' = file /\ blocks' = blocks /\ ranges' = ranges /\ todo' = todo
      /\ calls' = calls /\ failed' = failed /\ pass' = "idle"
      /\ Running /\ NextPass
  BY DEF SkipPass, Join
<1>2. AllPhases' = AllPhases
  BY <1>1 DEF AllPhases, WayKeys
<1>3. shard' = 0 /\ phase' = phase + 1
  BY <1>1, NextPhase
<1>4. phase \in 1..Len(AllPhases) /\ phase' \in 1..(Len(AllPhases) + 1) /\ phase' \in Nat /\ phase < phase'
  <2>1. phase \in 1..(Len(AllPhases) + 1) /\ phase <= Len(AllPhases) /\ Len(AllPhases) \in Nat
    BY <1>1, PhasesAre DEF OneShardInv, Running
  <2> QED BY <1>3, <2>1
<1>5. TasksApart' /\ Pending' = {}
  <2>1. ranges = << >> /\ \A t \in Threads : todo[t] = << >>
    BY DEF SkipPass, Join, OneShardInv, TasksApart
  <2> QED BY <1>1, <2>1, NoTasks DEF OneShardInv, TasksApart
<1>6. BlocksApart'
  <2>1. ASSUME Running' PROVE Phase # "Relations" \/ pass # "pool"
    <3>1. phase < Len(AllPhases)
      BY <1>2, <1>3, <1>4, <2>1, PhasesAre DEF Running, OneShardInv
    <3> QED BY <1>4, <3>1, PhasesAre DEF Phase, OneShardInv
  <2>2. Running' => \A k \in DOMAIN blocks : blocks[k].chunks = 1 /\ blocks[k].chunk = 0
    BY <1>1, <2>1 DEF OneShardInv, BlocksApart
  <2> QED BY <1>1, <2>2 DEF OneShardInv, BlocksApart
<1>7. (\A c \in DOMAIN calls' : c.of \in {"node", "way", "relation"} /\ Begun(c.of)') /\ CalledOnce'
  BY <1>1, <1>4, CallsStay
<1>8. CallsFresh'
  BY <1>5, <1>7 DEF CallsFresh
<1> QED BY <1>1, <1>2, <1>3, <1>4, <1>5, <1>6, <1>7, <1>8 DEF OneShardInv

-----------------------------------------------------------------------------
(* A pass begins. *)

LEMMA Parted ==
  ASSUME NEW x \in Nat, NEW T \in Nat \ {0}
  PROVE  x \div T \in Nat /\ x % T \in Nat /\ x = (x \div T) * T + (x % T)
BY Z3

LEMMA PartedBelow ==
  ASSUME NEW n \in Nat, NEW T \in Nat \ {0}, NEW k \in 1..(n * T)
  PROVE  /\ 1 + (k - 1) \div T \in 1..n /\ (k - 1) % T \in Nat
         /\ k - 1 = ((k - 1) \div T) * T + ((k - 1) % T)
<1> DEFINE x == k - 1
           q == x \div T
<1>1. n * T \in Nat /\ x \in Nat /\ x < n * T
  OBVIOUS
<1>2. q \in Nat /\ x % T \in Nat /\ x = q * T + (x % T)
  BY <1>1, Parted
<1>3. ASSUME q >= n PROVE FALSE
  <2>1. \A a, b, c \in Nat : a <= b => a * c <= b * c
    OBVIOUS
  <2> HIDE DEF q, x
  <2>2. n * T <= q * T /\ q * T \in Nat
    BY <1>2, <1>3, <2>1
  <2> QED BY <1>1, <1>2, <2>2
<1>4. q < n
  BY <1>2, <1>3
<1> HIDE DEF q
<1>5. 1 + q \in 1..n
  BY <1>2, <1>4
<1> QED BY <1>2, <1>5 DEF q

(* Divided among the threads, no two pieces are the same chunk of a block. *)
LEMMA SubdividedApart ==
  ASSUME OneShardInv, Running, pass = "idle"
  PROVE  /\ DOMAIN Subdivided \subseteq Nat /\ IsFiniteSet(DOMAIN Subdivided)
         /\ \A k \in DOMAIN Subdivided :
              Subdivided[k] \in [block : DOMAIN file.blocks, chunk : Nat, chunks : Nat, has : SUBSET {"node", "way", "relation"}]
         /\ \A j, k \in DOMAIN Subdivided : j # k =>
              \/ Subdivided[j].block # Subdivided[k].block
              \/ Subdivided[j].chunks = Subdivided[k].chunks /\ Subdivided[j].chunk # Subdivided[k].chunk
<1> DEFINE keys == Ascending(DOMAIN blocks)
           n == Len(keys)
           T == threadNum
           R == [block : DOMAIN file.blocks, chunk : Nat, chunks : Nat, has : SUBSET {"node", "way", "relation"}]
           S == Subdivided
           at(k) == keys[1 + (k - 1) \div T]
<1>1. T \in Nat \ {0}
  BY ConfigAssumption, FS_CardinalityType, FS_EmptySet DEF threadNum
<1>2. /\ DOMAIN blocks \in SUBSET Nat /\ IsFiniteSet(DOMAIN blocks)
      /\ \A k \in DOMAIN blocks : blocks[k] \in R
      /\ \A j, k \in DOMAIN blocks : j # k => blocks[j].block # blocks[k].block
  BY DEF OneShardInv, BlocksApart
<1>3. keys \in Seq(DOMAIN blocks) /\ IsInjective(keys)
  BY <1>2, AscendingLists
<1>4. n \in Nat /\ DOMAIN keys = 1..n /\ \A i \in 1..n : keys[i] \in DOMAIN blocks
  BY <1>3, LenProperties, ElementOfSeq
<1>5. /\ DOMAIN S = 1..(n * T)
      /\ \A k \in 1..(n * T) : S[k] = [blocks[at(k)] EXCEPT !.chunks = T, !.chunk = (k - 1) % T]
  BY DEF Subdivided
<1>6. n * T \in Nat /\ DOMAIN S \subseteq Nat /\ IsFiniteSet(DOMAIN S)
  <2> HIDE DEF S, keys, n, T
  <2>1. n * T \in Nat
    BY <1>1, <1>4
  <2>2. IsFiniteSet(1..(n * T))
    BY <2>1, FS_Interval
  <2>3. DOMAIN S = 1..(n * T)
    BY <1>5, Zenon
  <2>4. 1..(n * T) \subseteq Nat
    BY <2>1
  <2> QED BY <2>1, <2>2, <2>3, <2>4, Zenon
<1> HIDE DEF S, keys, n, T
<1>7. ASSUME NEW k \in 1..(n * T)
      PROVE  /\ 1 + (k - 1) \div T \in 1..n /\ at(k) \in DOMAIN blocks
             /\ S[k] \in R /\ S[k].block = blocks[at(k)].block /\ S[k].chunks = T /\ S[k].chunk = (k - 1) % T
  <2>1. 1 + (k - 1) \div T \in 1..n /\ (k - 1) % T \in Nat
    BY <1>1, <1>4, PartedBelow
  <2>2. at(k) \in DOMAIN blocks
    BY <1>4, <2>1
  <2> DEFINE c == (k - 1) % T
  <2> HIDE DEF at, c
  <2>3. blocks[at(k)] \in R /\ S[k] = [blocks[at(k)] EXCEPT !.chunks = T, !.chunk = c] /\ c \in Nat
    BY <1>2, <1>5, <2>1, <2>2 DEF c
  <2>4. S[k] \in R /\ S[k].block = blocks[at(k)].block /\ S[k].chunks = T /\ S[k].chunk = c
    BY <1>1, <2>3
  <2> QED BY <2>1, <2>2, <2>4 DEF c
<1>8. ASSUME NEW j \in 1..(n * T), NEW k \in 1..(n * T), j # k, S[j].block = S[k].block
      PROVE  S[j].chunks = S[k].chunks /\ S[j].chunk # S[k].chunk
  <2>1. at(j) = at(k)
    BY <1>2, <1>7, <1>8
  <2>2. 1 + (j - 1) \div T = 1 + (k - 1) \div T
    BY <1>3, <1>4, <1>7, <2>1 DEF IsInjective
  <2> DEFINE x == (j - 1) \div T
             y == (k - 1) \div T
             u == (j - 1) % T
             v == (k - 1) % T
  <2>3. j - 1 = x * T + u /\ k - 1 = y * T + v /\ x \in Nat /\ y \in Nat /\ u \in Nat /\ v \in Nat
    <3>1. 1 + (j - 1) \div T \in 1..n /\ 1 + (k - 1) \div T \in 1..n
      BY <1>7
    <3>2. j - 1 \in Nat /\ k - 1 \in Nat
      BY <1>6
    <3> QED BY <1>1, <3>2, Parted
  <2> HIDE DEF x, y
  <2>4. x = y
    BY <2>2, <2>3 DEF x, y
  <2> HIDE DEF u, v
  <2>5. u # v
    BY <1>6, <1>8, <2>3, <2>4
  <2> QED BY <1>7, <2>5 DEF u, v
<1> QED BY <1>5, <1>6, <1>7, <1>8 DEF S

(* The tasks of a pass are posted. *)
LEMMA PassStarted ==
  ASSUME OneShardInv, Shards = 1, StartPass
  PROVE  OneShardInv'
<1>1. /\ file' = file /\ phase' = phase /\ shard' = shard /\ todo' = todo
      /\ calls' = calls /\ failed' = failed /\ pass = "idle" /\ pass' = "pool" /\ Running
      /\ blocks' = (IF Subdivides THEN Subdivided ELSE blocks)
      /\ ranges' = Ranges(blocks')
  BY DEF StartPass, stores
<1>2. AllPhases' = AllPhases /\ Phase' = Phase /\ TypeRead' = TypeRead
  BY <1>1 DEF AllPhases, WayKeys, Phase, TypeRead
<1>3. /\ DOMAIN blocks' \subseteq Nat /\ IsFiniteSet(DOMAIN blocks')
      /\ \A k \in DOMAIN blocks' :
           blocks'[k] \in [block : DOMAIN file.blocks, chunk : Nat, chunks : Nat, has : SUBSET {"node", "way", "relation"}]
      /\ \A j, k \in DOMAIN blocks' : j # k =>
           \/ blocks'[j].block # blocks'[k].block
           \/ blocks'[j].chunks = blocks'[k].chunks /\ blocks'[j].chunk # blocks'[k].chunk
  <2>1. CASE Subdivides
    <3>1. blocks' = Subdivided
      BY <1>1, <2>1
    <3> QED BY <1>1, <3>1, SubdividedApart
  <2>2. CASE ~Subdivides
    BY <1>1, <2>2 DEF OneShardInv, BlocksApart
  <2> QED BY <2>1, <2>2
<1>4. BlocksApart'
  <2>1. ASSUME Phase # "Relations" PROVE \A k \in DOMAIN blocks' : blocks'[k].chunks = 1 /\ blocks'[k].chunk = 0
    <3>1. ~Subdivides
      BY <2>1 DEF Subdivides
    <3> QED BY <1>1, <3>1 DEF OneShardInv, BlocksApart
  <2> QED BY <1>1, <1>2, <1>3, <2>1 DEF BlocksApart
<1>5. TasksApart'
  <2>1. PICK b : b = blocks'
    OBVIOUS
  <2>2. ranges' = Ranges(b) /\ DOMAIN b \subseteq Nat /\ IsFiniteSet(DOMAIN b)
    BY <1>1, <1>3, <2>1
  <2>3. /\ ranges' \in Seq(Seq(Nat))
        /\ \A i \in DOMAIN ranges' : IsInjective(ranges'[i]) /\ ToSet(ranges'[i]) \subseteq DOMAIN blocks'
        /\ \A i, j \in DOMAIN ranges' : i # j => ToSet(ranges'[i]) \cap ToSet(ranges'[j]) = {}
    BY <2>1, <2>2, RangesApart
  <2>4. todo' \in [Threads -> Seq(Nat)] /\ \A t \in Threads : todo'[t] = << >>
    BY <1>1 DEF OneShardInv, TasksApart
  <2>5. ToSet(<< >>) = {} /\ IsInjective(<< >>)
    BY DEF ToSet, IsInjective
  <2> QED BY <1>1, <2>3, <2>4, <2>5 DEF TasksApart
<1>6. (\A c \in DOMAIN calls' : c.of \in {"node", "way", "relation"} /\ Begun(c.of)') /\ CalledOnce'
  <2>1. phase' \in Nat
    BY <1>1, PhasesAre DEF OneShardInv
  <2> QED BY <1>1, <2>1, CallsStay
<1>7. ASSUME Phase \in {"Nodes", "Ways", "Relations"} PROVE \A c \in DOMAIN calls : c.of # TypeRead
  <2>1. ~Begun(TypeRead)
    BY <1>1, <1>7, BegunNow DEF OneShardInv
  <2> QED BY <2>1 DEF OneShardInv, CallsFresh
<1>8. CallsFresh'
  BY <1>1, <1>2, <1>6, <1>7 DEF CallsFresh
<1> QED BY <1>1, <1>2, <1>4, <1>5, <1>6, <1>8 DEF OneShardInv

-----------------------------------------------------------------------------
(* A thread takes a task and reads its blocks. *)

LEMMA TailAt ==
  ASSUME NEW S, NEW s \in Seq(S), s # << >>
  PROVE  /\ 1 \in DOMAIN s /\ Head(s) = s[1] /\ Tail(s) \in Seq(S)
         /\ \A i \in DOMAIN Tail(s) : i \in Nat /\ i + 1 \in DOMAIN s /\ Tail(s)[i] = s[i + 1]
         /\ \A i \in DOMAIN s : i # 1 => i - 1 \in DOMAIN Tail(s) /\ Tail(s)[i - 1] = s[i]
<1>1. Len(s) \in Nat /\ DOMAIN s = 1..Len(s) /\ Len(s) # 0
  BY LenProperties, EmptySeq
<1>2. /\ Head(s) = s[1] /\ Tail(s) \in Seq(S) /\ Len(Tail(s)) = Len(s) - 1
      /\ \A i \in 1..Len(Tail(s)) : Tail(s)[i] = s[i + 1]
  BY <1>1, HeadTailProperties
<1>3. DOMAIN Tail(s) = 1..(Len(s) - 1)
  BY <1>2, LenProperties
<1> QED BY <1>1, <1>2, <1>3

LEMMA TailWithout ==
  ASSUME NEW S, NEW s \in Seq(S), s # << >>, IsInjective(s)
  PROVE  /\ Head(s) \in ToSet(s) /\ IsInjective(Tail(s))
         /\ \A x : x \in ToSet(Tail(s)) => x \in ToSet(s) /\ x # Head(s)
<1>1. /\ 1 \in DOMAIN s /\ Head(s) = s[1]
      /\ \A i \in DOMAIN Tail(s) : i \in Nat /\ i + 1 \in DOMAIN s /\ Tail(s)[i] = s[i + 1]
      /\ DOMAIN s = 1..Len(s) /\ DOMAIN Tail(s) = 1..Len(Tail(s)) /\ Len(Tail(s)) \in Nat
  BY TailAt, LenProperties
<1>2. Head(s) \in ToSet(s)
  BY <1>1 DEF ToSet
<1>3. ASSUME NEW i \in DOMAIN Tail(s), NEW j \in DOMAIN Tail(s), Tail(s)[i] = Tail(s)[j] PROVE i = j
  <2>1. s[i + 1] = s[j + 1] /\ i + 1 \in DOMAIN s /\ j + 1 \in DOMAIN s
    BY <1>1, <1>3
  <2>2. i + 1 = j + 1
    BY <2>1 DEF IsInjective
  <2> QED BY <1>1, <2>2
<1>4. ASSUME NEW i \in DOMAIN Tail(s) PROVE Tail(s)[i] \in ToSet(s) /\ Tail(s)[i] # Head(s)
  <2>1. i + 1 \in DOMAIN s /\ Tail(s)[i] = s[i + 1] /\ i + 1 # 1
    BY <1>1
  <2>2. s[i + 1] # s[1]
    BY <1>1, <2>1 DEF IsInjective
  <2> QED BY <1>1, <2>1, <2>2 DEF ToSet
<1> QED BY <1>2, <1>3, <1>4 DEF IsInjective, ToSet

LEMMA InPending ==
  ASSUME NEW k
  PROVE  k \in Pending <=> (\E i \in DOMAIN ranges : k \in ToSet(ranges[i])) \/ (\E t \in Threads : k \in ToSet(todo[t]))
BY DEF Pending

LEMMA RangeTaken ==
  ASSUME OneShardInv, NEW t \in Threads, TakeRange(t)
  PROVE  OneShardInv'
<1>1. /\ file' = file /\ blocks' = blocks /\ phase' = phase /\ shard' = shard /\ pass' = pass
      /\ calls' = calls /\ failed' = failed /\ pass = "pool" /\ Running
      /\ todo[t] = << >> /\ ranges # << >>
      /\ todo' = [todo EXCEPT ![t] = Head(ranges)] /\ ranges' = Tail(ranges)
  BY DEF TakeRange, stores
<1>2. AllPhases' = AllPhases /\ Phase' = Phase /\ TypeRead' = TypeRead /\ Running'
  BY <1>1 DEF AllPhases, WayKeys, Phase, TypeRead, Running
<1>3. TasksApart
  BY DEF OneShardInv
<1>4. ranges \in Seq(Seq(Nat)) /\ todo \in [Threads -> Seq(Nat)]
  BY <1>3 DEF TasksApart
<1>5. /\ 1 \in DOMAIN ranges /\ Head(ranges) = ranges[1] /\ ranges' \in Seq(Seq(Nat))
      /\ \A i \in DOMAIN ranges' : i \in Nat /\ i + 1 \in DOMAIN ranges /\ ranges'[i] = ranges[i + 1]
  BY <1>1, <1>4, TailAt
<1>6. ranges[1] \in Seq(Nat)
  BY <1>4, <1>5, ElementOfSeq, LenProperties
<1>7. /\ todo' \in [Threads -> Seq(Nat)] /\ todo'[t] = ranges[1]
      /\ \A u \in Threads : u # t => todo'[u] = todo[u]
  BY <1>1, <1>4, <1>5, <1>6
<1>8. \A i \in DOMAIN ranges' : IsInjective(ranges'[i]) /\ ToSet(ranges'[i]) \subseteq DOMAIN blocks'
  BY <1>1, <1>3, <1>5 DEF TasksApart
<1>9. \A u \in Threads : IsInjective(todo'[u]) /\ ToSet(todo'[u]) \subseteq DOMAIN blocks'
  <2>1. \A i \in DOMAIN ranges : IsInjective(ranges[i]) /\ ToSet(ranges[i]) \subseteq DOMAIN blocks
    BY <1>3 DEF TasksApart
  <2>2. \A u \in Threads : IsInjective(todo[u]) /\ ToSet(todo[u]) \subseteq DOMAIN blocks
    BY <1>3 DEF TasksApart
  <2> QED BY <1>1, <1>5, <1>7, <2>1, <2>2
<1>10. ASSUME NEW i \in DOMAIN ranges', NEW j \in DOMAIN ranges', i # j PROVE ToSet(ranges'[i]) \cap ToSet(ranges'[j]) = {}
  <2>1. i + 1 # j + 1 /\ i + 1 \in DOMAIN ranges /\ j + 1 \in DOMAIN ranges
    BY <1>5, <1>10
  <2> QED BY <1>3, <1>5, <2>1 DEF TasksApart
<1>11. ASSUME NEW u \in Threads, NEW v \in Threads, u # v PROVE ToSet(todo'[u]) \cap ToSet(todo'[v]) = {}
  <2>1. \A w \in Threads : ToSet(todo[w]) \cap ToSet(ranges[1]) = {}
    BY <1>3, <1>5 DEF TasksApart
  <2>2. ToSet(todo[u]) \cap ToSet(todo[v]) = {}
    BY <1>3, <1>11 DEF TasksApart
  <2> QED BY <1>7, <1>11, <2>1, <2>2
<1>12. ASSUME NEW u \in Threads, NEW i \in DOMAIN ranges' PROVE ToSet(todo'[u]) \cap ToSet(ranges'[i]) = {}
  <2>1. i + 1 # 1 /\ i + 1 \in DOMAIN ranges /\ ranges'[i] = ranges[i + 1]
    BY <1>5
  <2>2. ToSet(todo[u]) \cap ToSet(ranges[i + 1]) = {} /\ ToSet(ranges[1]) \cap ToSet(ranges[i + 1]) = {}
    BY <1>3, <1>5, <2>1 DEF TasksApart
  <2> QED BY <1>7, <2>1, <2>2
<1>13. TasksApart'
  BY <1>1, <1>5, <1>7, <1>8, <1>9, <1>10, <1>11, <1>12 DEF TasksApart
<1>14. \A k \in Pending' : k \in Pending
  <2>1. SUFFICES ASSUME NEW k \in Pending' PROVE k \in Pending
    OBVIOUS
  <2>2. (\E i \in DOMAIN ranges' : k \in ToSet(ranges'[i])) \/ (\E u \in Threads : k \in ToSet(todo'[u]))
    BY <2>1 DEF Pending
  <2>3. (\E i \in DOMAIN ranges : k \in ToSet(ranges[i])) \/ (\E u \in Threads : k \in ToSet(todo[u]))
    BY <1>5, <1>7, <2>2
  <2> QED BY <2>3, InPending
<1>15. BlocksApart'
  BY <1>1, <1>2 DEF OneShardInv, BlocksApart
<1>16. (\A c \in DOMAIN calls' : c.of \in {"node", "way", "relation"} /\ Begun(c.of)') /\ CalledOnce'
  <2>1. phase' \in Nat
    BY <1>1, PhasesAre DEF OneShardInv
  <2> QED BY <1>1, <2>1, CallsStay
<1>17. CallsFresh'
  <2>1. \A m : Part(m)' = Part(m)
    BY <1>1, <1>2 DEF Part, Share, ObjectsIn, Groups
  <2>2. \A m \in {blocks[k] : k \in Pending}' : m \in {blocks[k] : k \in Pending}
    BY <1>1, <1>14
  <2> QED BY <1>1, <1>2, <1>16, <2>1, <2>2 DEF OneShardInv, CallsFresh
<1> QED BY <1>1, <1>2, <1>13, <1>15, <1>16, <1>17 DEF OneShardInv

(* A read of a block calls for objects of the task's part of it, once.     *)
LEMMA BlockCalls ==
  ASSUME OneShardInv, Running, NEW k \in Pending, NEW m, m = blocks[k], m.block \in DOMAIN file.blocks,
         \/ Phase = "RelationScan" /\ ScanRelations(m)
         \/ Phase = "WayScan" /\ ScanWays(m)
         \/ Phase = "Nodes" /\ ReadNodes(m)
         \/ Phase = "Ways" /\ ReadWays(m)
         \/ Phase = "Relations" /\ ReadRelations(m)
  PROVE  /\ CalledOnce' /\ failed' \in BOOLEAN
         /\ \A c \in DOMAIN calls' :
              \/ c \in DOMAIN calls
              \/ /\ Phase \in {"Nodes", "Ways", "Relations"} /\ c.of = TypeRead
                 /\ \E o \in Part(m) : c.id = o.id
<1>0. \A o, q \in Part(m) : o.id = q.id => o = q
  BY PartsApart DEF OneShardInv
<1>1. CASE calls' = calls /\ failed' \in BOOLEAN
  BY <1>1 DEF OneShardInv, CalledOnce
<1>2. CASE Phase = "RelationScan" /\ ScanRelations(m)
  BY <1>1, <1>2 DEF ScanRelations, OneShardInv
<1>3. CASE Phase = "WayScan" /\ ScanWays(m)
  BY <1>1, <1>3 DEF ScanWays, OneShardInv
<1>4. CASE Phase = "Nodes" /\ ReadNodes(m)
  <2> DEFINE H == {n \in ObjectsIn(m.block, "node") : n.offered}
             C == {Call("node", o, {}) : o \in H}
  <2>1. TypeRead = "node" /\ Part(m) = ObjectsIn(m.block, "node")
    BY <1>4 DEF TypeRead, Part
  <2>2. \A o \in H : o \in Part(m)
    BY <2>1
  <2>3. QED
    <3>1. calls' = calls (+) SetToBag(C) /\ failed' = failed
      BY <1>4 DEF ReadNodes
    <3> HIDE DEF H
    <3>2. ASSUME NEW c \in C PROVE c.of = TypeRead /\ \E o \in Part(m) : c.id = o.id
      BY <2>1, <2>2, CallFields
    <3>3. ASSUME NEW c \in C, NEW d \in C, c.id = d.id PROVE c = d
      BY <1>0, <2>2, <3>3, CallFields
    <3> HIDE DEF C
    <3>4. Phase \in {"Nodes", "Ways", "Relations"} /\ failed' \in BOOLEAN
      BY <1>4, <3>1 DEF OneShardInv
    <3> QED BY <3>1, <3>2, <3>3, <3>4, PartCalled
<1>5. CASE Phase = "Ways" /\ ReadWays(m)
  <2> DEFINE here == {w \in ObjectsIn(m.block, "way") : (WayUsed(w) \/ Filter(w)) /\ WayInShard(w)}
             H == {w \in here : Positions(w) # {}}
             C == {Call("way", o, Positions(o)) : o \in H}
  <2>1. TypeRead = "way" /\ Part(m) = ObjectsIn(m.block, "way")
    BY <1>5 DEF TypeRead, Part
  <2>2. \A o \in H : o \in Part(m)
    BY <2>1
  <2>3. CASE Integrity /\ \E w \in here : Positions(w) # ToSet(w.refs)
    BY <1>1, <1>5, <2>3 DEF ReadWays
  <2>4. CASE ~(Integrity /\ \E w \in here : Positions(w) # ToSet(w.refs))
    <3>1. calls' = calls (+) SetToBag(C) /\ failed' = failed
      BY <1>5, <2>4 DEF ReadWays
    <3> HIDE DEF H
    <3>2. ASSUME NEW c \in C PROVE c.of = TypeRead /\ \E o \in Part(m) : c.id = o.id
      BY <2>1, <2>2, CallFields
    <3>3. ASSUME NEW c \in C, NEW d \in C, c.id = d.id PROVE c = d
      BY <1>0, <2>2, <3>3, CallFields
    <3> HIDE DEF C
    <3>4. Phase \in {"Nodes", "Ways", "Relations"} /\ failed' \in BOOLEAN
      BY <1>5, <3>1 DEF OneShardInv
    <3> QED BY <3>1, <3>2, <3>3, <3>4, PartCalled
  <2> QED BY <2>3, <2>4
<1>6. CASE Phase = "Relations" /\ ReadRelations(m)
  <2> DEFINE H == {r \in Share(m) :
                     /\ file.blocks[m.block].mp
                     /\ r.kind \in {"multipolygon", "boundary"} \/ WritesRelations
                     /\ RelationInShard(r)
                     /\ r.id \in usedRelations \/ Filter(r)}
             C == {Call("relation", o, Stored(o)) : o \in H}
  <2>1. TypeRead = "relation" /\ Part(m) = Share(m)
    BY <1>6 DEF TypeRead, Part
  <2>2. \A o \in H : o \in Part(m)
    BY <2>1
  <2>3. QED
    <3>1. calls' = calls (+) SetToBag(C) /\ failed' = failed
      BY <1>6 DEF ReadRelations
    <3> HIDE DEF H
    <3>2. ASSUME NEW c \in C PROVE c.of = TypeRead /\ \E o \in Part(m) : c.id = o.id
      BY <2>1, <2>2, CallFields
    <3>3. ASSUME NEW c \in C, NEW d \in C, c.id = d.id PROVE c = d
      BY <1>0, <2>2, <3>3, CallFields
    <3> HIDE DEF C
    <3>4. Phase \in {"Nodes", "Ways", "Relations"} /\ failed' \in BOOLEAN
      BY <1>6, <3>1 DEF OneShardInv
    <3> QED BY <3>1, <3>2, <3>3, <3>4, PartCalled
<1> QED BY <1>2, <1>3, <1>4, <1>5, <1>6

(* Two tasks do not read an object with the same ID. *)
LEMMA ReadsApart ==
  ASSUME OneShardInv, Running, Phase \in {"Nodes", "Ways", "Relations"},
         NEW j \in DOMAIN blocks, NEW k \in DOMAIN blocks, j # k,
         NEW o \in Part(blocks[j]), NEW q \in Part(blocks[k])
  PROVE  o.id # q.id
<1>1. SUFFICES ASSUME o.id = q.id PROVE FALSE
  OBVIOUS
<1>2. BlocksApart /\ file \in Files /\ phase \in 1..(Len(AllPhases) + 1)
  BY DEF OneShardInv
<1>3. blocks[j].block \in DOMAIN file.blocks /\ blocks[k].block \in DOMAIN file.blocks
  BY <1>2 DEF BlocksApart
<1>4. /\ blocks[j].block = blocks[k].block
      /\ TypeRead = "relation" /\ blocks[j].chunks = blocks[k].chunks => blocks[j].chunk = blocks[k].chunk
  BY <1>1, <1>2, <1>3, PartsApart
<1>5. blocks[j].chunks = blocks[k].chunks /\ blocks[j].chunk # blocks[k].chunk
  BY <1>2, <1>4 DEF BlocksApart
<1>6. Phase # "Relations"
  BY <1>2, <1>4, <1>5, BegunNow
<1> QED BY <1>2, <1>5, <1>6 DEF BlocksApart

LEMMA BlockRead ==
  ASSUME OneShardInv, NEW t \in Threads, ReadBlock(t)
  PROVE  OneShardInv'
<1>1. PICK k : k = Head(todo[t])
  OBVIOUS
<1>2. PICK m : m = blocks[k]
  OBVIOUS
<1>3. /\ file' = file /\ phase' = phase /\ shard' = shard /\ pass' = pass /\ ranges' = ranges
      /\ pass = "pool" /\ Running /\ todo[t] # << >>
      /\ todo' = [todo EXCEPT ![t] = Tail(@)]
      /\ blocks' = (IF Handled(m) THEN [i \in DOMAIN blocks \ {k} |-> blocks[i]] ELSE blocks)
  BY <1>1, <1>2 DEF ReadBlock
<1>4. \/ Phase = "RelationScan" /\ ScanRelations(m)
      \/ Phase = "WayScan" /\ ScanWays(m)
      \/ Phase = "Nodes" /\ ReadNodes(m)
      \/ Phase = "Ways" /\ ReadWays(m)
      \/ Phase = "Relations" /\ ReadRelations(m)
  BY <1>1, <1>2 DEF ReadBlock
<1>5. AllPhases' = AllPhases /\ Phase' = Phase /\ TypeRead' = TypeRead
  BY <1>3 DEF AllPhases, WayKeys, Phase, TypeRead
<1>6. TasksApart /\ BlocksApart
  BY DEF OneShardInv
<1>7. /\ todo \in [Threads -> Seq(Nat)] /\ ranges \in Seq(Seq(Nat))
      /\ \A u \in Threads : IsInjective(todo[u]) /\ ToSet(todo[u]) \subseteq DOMAIN blocks
      /\ \A i \in DOMAIN ranges : IsInjective(ranges[i]) /\ ToSet(ranges[i]) \subseteq DOMAIN blocks
  BY <1>6 DEF TasksApart
<1>8. /\ k \in ToSet(todo[t]) /\ k \in DOMAIN blocks /\ Tail(todo[t]) \in Seq(Nat) /\ IsInjective(Tail(todo[t]))
      /\ \A x \in ToSet(Tail(todo[t])) : x \in ToSet(todo[t]) /\ x # k
  BY <1>1, <1>3, <1>7, TailAt, TailWithout
<1>9. /\ todo' \in [Threads -> Seq(Nat)] /\ todo'[t] = Tail(todo[t])
      /\ \A u \in Threads : u # t => todo'[u] = todo[u]
  BY <1>3, <1>7, <1>8
<1>10. /\ DOMAIN blocks' \subseteq DOMAIN blocks /\ \A j \in DOMAIN blocks : j # k => j \in DOMAIN blocks'
       /\ \A j \in DOMAIN blocks' : blocks'[j] = blocks[j]
  <2>1. CASE Handled(m)
    BY <1>3, <2>1
  <2>2. CASE ~Handled(m)
    BY <1>3, <2>2
  <2> QED BY <2>1, <2>2
<1>11. ASSUME NEW u \in Threads PROVE \A x \in ToSet(todo'[u]) : x \in ToSet(todo[u]) /\ x # k
  <2>1. CASE u = t
    BY <1>8, <1>9, <2>1
  <2>2. CASE u # t
    <3>1. ToSet(todo[u]) \cap ToSet(todo[t]) = {}
      BY <1>6, <2>2 DEF TasksApart
    <3> QED BY <1>8, <1>9, <2>2, <3>1
  <2> QED BY <2>1, <2>2
<1>12. ASSUME NEW i \in DOMAIN ranges PROVE k \notin ToSet(ranges[i])
  BY <1>6, <1>8 DEF TasksApart
<1>13. TasksApart'
  <2>1. \A i \in DOMAIN ranges : IsInjective(ranges[i]) /\ ToSet(ranges[i]) \subseteq DOMAIN blocks'
    BY <1>7, <1>10, <1>12
  <2>2. \A u \in Threads : IsInjective(todo'[u]) /\ ToSet(todo'[u]) \subseteq DOMAIN blocks'
    <3>1. \A u \in Threads : IsInjective(todo'[u])
      BY <1>7, <1>8, <1>9
    <3> QED BY <1>7, <1>10, <1>11, <3>1
  <2>3. \A u, v \in Threads : u # v => ToSet(todo'[u]) \cap ToSet(todo'[v]) = {}
    <3>1. \A u, v \in Threads : u # v => ToSet(todo[u]) \cap ToSet(todo[v]) = {}
      BY <1>6 DEF TasksApart
    <3> QED BY <1>11, <3>1
  <2>4. \A u \in Threads : \A i \in DOMAIN ranges : ToSet(todo'[u]) \cap ToSet(ranges[i]) = {}
    <3>1. \A u \in Threads : \A i \in DOMAIN ranges : ToSet(todo[u]) \cap ToSet(ranges[i]) = {}
      BY <1>6 DEF TasksApart
    <3> QED BY <1>11, <3>1
  <2>5. \A i, j \in DOMAIN ranges : i # j => ToSet(ranges[i]) \cap ToSet(ranges[j]) = {}
    BY <1>6 DEF TasksApart
  <2> QED BY <1>3, <1>7, <1>9, <2>1, <2>2, <2>3, <2>4, <2>5 DEF TasksApart
<1>14. k \in Pending
  BY <1>8, InPending
<1>15. \A j \in Pending' : j \in Pending /\ j # k /\ j \in DOMAIN blocks /\ j \in DOMAIN blocks'
  <2>1. SUFFICES ASSUME NEW j \in Pending' PROVE j \in Pending /\ j # k /\ j \in DOMAIN blocks /\ j \in DOMAIN blocks'
    OBVIOUS
  <2>2. (\E i \in DOMAIN ranges : j \in ToSet(ranges[i])) \/ (\E u \in Threads : j \in ToSet(todo'[u]))
    BY <1>3, <2>1 DEF Pending
  <2>3. (\E i \in DOMAIN ranges : j \in ToSet(ranges[i])) \/ (\E u \in Threads : j \in ToSet(todo[u]))
    BY <1>11, <2>2
  <2>4. j # k /\ j \in DOMAIN blocks
    BY <1>7, <1>11, <1>12, <2>2
  <2> QED BY <1>10, <2>3, <2>4, InPending
<1>16. failed = FALSE /\ Running' => failed' = FALSE
  BY <1>3 DEF Running, OneShardInv
<1>17. BlocksApart'
  <2>1. Running' => Running
    BY <1>3
  <2>2. IsFiniteSet(DOMAIN blocks) /\ IsFiniteSet(DOMAIN blocks')
    BY <1>6, <1>10, FS_Subset DEF BlocksApart
  <2> QED BY <1>3, <1>5, <1>6, <1>10, <2>1, <2>2 DEF BlocksApart
<1>18. /\ CalledOnce' /\ failed' \in BOOLEAN
       /\ \A c \in DOMAIN calls' :
            \/ c \in DOMAIN calls
            \/ /\ Phase \in {"Nodes", "Ways", "Relations"} /\ c.of = TypeRead
               /\ \E o \in Part(m) : c.id = o.id
  <2>1. m.block \in DOMAIN file.blocks
    BY <1>2, <1>6, <1>8 DEF BlocksApart
  <2> QED BY <1>2, <1>3, <1>4, <1>14, <2>1, BlockCalls
<1>19. ASSUME NEW c \in DOMAIN calls' PROVE c.of \in {"node", "way", "relation"} /\ Begun(c.of)'
  <2>1. c.of \in {"node", "way", "relation"} /\ Begun(c.of)
    <3>1. CASE c \in DOMAIN calls
      BY <3>1 DEF OneShardInv, CallsFresh
    <3>2. CASE Phase \in {"Nodes", "Ways", "Relations"} /\ c.of = TypeRead
      BY <1>3, <3>2, BegunNow DEF OneShardInv
    <3> QED BY <1>18, <3>1, <3>2
  <2>2. phase \in Nat
    BY PhasesAre DEF OneShardInv
  <2> QED BY <1>3, <2>1, <2>2, BegunStays
<1>20. CallsFresh'
  <2>1. \A n : Part(n)' = Part(n)
    BY <1>3, <1>5 DEF Part, Share, ObjectsIn, Groups
  <2>2. ASSUME Phase \in {"Nodes", "Ways", "Relations"}, NEW j \in Pending',
               NEW o \in Part(blocks[j]), NEW c \in DOMAIN calls', c.of = TypeRead
        PROVE  c.id # o.id
    <3>1. CASE c \in DOMAIN calls
      BY <1>3, <1>15, <2>2, <3>1 DEF OneShardInv, CallsFresh
    <3>2. CASE \E q \in Part(m) : c.id = q.id
      BY <1>2, <1>3, <1>8, <1>15, <2>2, <3>2, ReadsApart
    <3> QED BY <1>18, <3>1, <3>2
  <2>3. ASSUME Phase \in {"Nodes", "Ways", "Relations"}, NEW n \in {blocks[j] : j \in Pending}',
               NEW o \in Part(n), NEW c \in DOMAIN calls', c.of = TypeRead
        PROVE  c.id # o.id
    <3>1. PICK j \in Pending' : n = blocks[j]
      BY <1>10, <1>15, <2>3
    <3> QED BY <2>2, <2>3, <3>1
  <2> QED BY <1>5, <1>19, <2>1, <2>3 DEF CallsFresh
<1> QED BY <1>3, <1>5, <1>13, <1>17, <1>18, <1>20 DEF OneShardInv

-----------------------------------------------------------------------------
(* The blocks, tasks and calls of files that are read with one shard, in   *)
(* every state of ReadPbfFile.                                             *)
THEOREM OneShardInvariance == Spec => [](Shards = 1 => OneShardInv)
<1>1. Init => (Shards = 1 => OneShardInv)
  <2> SUFFICES ASSUME Init, Shards = 1 PROVE OneShardInv
    OBVIOUS
  <2>1. /\ file \in Files /\ phase = 1 /\ shard = 0 /\ pass = "scan" /\ failed = FALSE
        /\ blocks = << >> /\ ranges = << >> /\ todo = [t \in Threads |-> << >>] /\ calls = EmptyBag
    BY DEF Init
  <2>2. phase \in 1..(Len(AllPhases) + 1)
    BY <2>1, PhasesAre
  <2>3. << >> \in Seq(Seq(Nat)) /\ << >> \in Seq(Nat) /\ DOMAIN << >> = {} /\ ToSet(<< >>) = {} /\ IsInjective(<< >>)
    BY DEF ToSet, IsInjective
  <2>4. TasksApart /\ Pending = {}
    <3>1. todo \in [Threads -> Seq(Nat)] /\ \A t \in Threads : todo[t] = << >>
      BY <2>1, <2>3
    <3>2. TasksApart
      BY <2>1, <2>3, <3>1 DEF TasksApart
    <3>3. \A k : k \notin Pending
      BY <2>1, <2>3, <3>1 DEF Pending
    <3> QED BY <3>2, <3>3
  <2>5. BlocksApart
    BY <2>1, <2>3, FS_EmptySet DEF BlocksApart
  <2>6. DOMAIN calls = {}
    BY <2>1 DEF EmptyBag, SetToBag
  <2>7. CallsFresh /\ CalledOnce
    BY <2>6 DEF CallsFresh, CalledOnce
  <2> QED BY <2>1, <2>2, <2>4, <2>5, <2>7 DEF OneShardInv
<1>2. (Shards = 1 => OneShardInv) /\ [Next]_vars => (Shards = 1 => OneShardInv)'
  <2> SUFFICES ASSUME Shards = 1 => OneShardInv, [Next]_vars, Shards' = 1 PROVE OneShardInv'
    OBVIOUS
  <2>1. file' = file
    BY DEF Next, Main, ScanBlocks, SkipPass, StartPass, Join, Worker, TakeRange, ReadBlock, Terminated, vars
  <2>2. Shards = 1 /\ OneShardInv
    BY <2>1 DEF Shards
  <2>3. CASE ScanBlocks
    BY <2>2, <2>3, ScannedBlocks
  <2>4. CASE SkipPass \/ Join
    BY <2>2, <2>4, PassEnded
  <2>5. CASE StartPass
    BY <2>2, <2>5, PassStarted
  <2>6. ASSUME NEW t \in Threads, TakeRange(t) PROVE OneShardInv'
    BY <2>2, <2>6, RangeTaken
  <2>7. ASSUME NEW t \in Threads, ReadBlock(t) PROVE OneShardInv'
    BY <2>2, <2>7, BlockRead
  <2>8. CASE UNCHANGED vars
    <3>1. /\ file' = file /\ phase' = phase /\ shard' = shard /\ pass' = pass /\ blocks' = blocks
          /\ ranges' = ranges /\ todo' = todo /\ calls' = calls /\ failed' = failed
      BY <2>8 DEF vars
    <3>2. AllPhases' = AllPhases /\ Phase' = Phase /\ TypeRead' = TypeRead /\ Running' = Running
      BY <3>1 DEF AllPhases, WayKeys, Phase, TypeRead, Running
    <3>3. (\A m : Part(m)' = Part(m)) /\ Pending' = Pending
      BY <3>1, <3>2 DEF Part, Share, ObjectsIn, Groups, Pending
    <3>4. BlocksApart' /\ TasksApart'
      BY <2>2, <3>1, <3>2 DEF OneShardInv, BlocksApart, TasksApart
    <3>5. (\A c \in DOMAIN calls' : c.of \in {"node", "way", "relation"} /\ Begun(c.of)') /\ CalledOnce'
      <4>1. phase' \in Nat
        BY <2>2, <3>1, PhasesAre DEF OneShardInv
      <4> QED BY <2>2, <3>1, <4>1, CallsStay
    <3>6. CallsFresh'
      BY <2>2, <3>1, <3>2, <3>3, <3>5 DEF OneShardInv, CallsFresh
    <3> QED BY <2>2, <3>1, <3>2, <3>4, <3>5, <3>6 DEF OneShardInv
  <2> QED BY <2>3, <2>4, <2>5, <2>6, <2>7, <2>8 DEF Next, Main, Worker, Terminated
<1> QED BY <1>1, <1>2, PTL DEF Spec

(* A file that is read with one shard: no object is given to the Lua       *)
(* script twice, whatever its blocks, the threads and the order they work  *)
(* in, the division of blocks into chunks included.                        *)
THEOREM ObjectsCalledOnce == Spec => [](Shards = 1 => CalledOnce)
<1>1. (Shards = 1 => OneShardInv) => (Shards = 1 => CalledOnce)
  BY DEF OneShardInv
<1> QED BY <1>1, OneShardInvariance, PTL

=============================================================================
