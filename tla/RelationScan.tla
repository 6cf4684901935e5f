----------------------------- MODULE RelationScan -----------------------------
(***************************************************************************)
(* What the relation scan keeps for later passes: who is a member of which *)
(* accepted relation and in which role, and the relations' tags            *)
(* (RelationScanStore of include/osm_store.h, src/relation_roles.cpp,      *)
(* ScanRelations of src/pbf_processor.cpp, scanRelation and                *)
(* postScanRelations of src/osm_lua_processing.cpp).                       *)
(***************************************************************************)
EXTENDS Integers, Sequences, FiniteSets, FiniteSetsExt, SequencesExt

CONSTANTS
    Scanners,       \* threads of the pool that reads blocks of relations
    Relations,      \* the file: [id, native, accept, tags, members] records
    PopularRoles,   \* popularRoleStrings, without repetitions
    StoreShards,    \* mutex.size() (128)
    PostScans       \* is there a relation_postscan_function?

(* The IDs of relations are numbers and unique in a file. *)
ASSUME RelationsAssumption ==
    /\ IsFiniteSet(Relations)
    /\ \A r \in Relations : r.members \in Seq(Range(r.members)) /\ {r.accept, r.native} \subseteq BOOLEAN
    /\ \A r \in Relations : r.id \in Nat /\ \A m \in Range(r.members) : m.id \in Nat
    /\ \A q, r \in Relations : q.id = r.id => q = r
    /\ PopularRoles \in Seq(Range(PopularRoles))

VARIABLES
    scanPhase,      \* "scan", "postscan", "read"
    unscanned,      \* relations no thread has taken
    task,           \* scanner -> Idle, or the relation, its next member, the role looked up
    rareRoles,      \* rareRoleStrings
    memberships,    \* <<type, shard, member id>> -> sequence of <<relation, role id>>
    relationTags,   \* <<shard, relation>> -> tags, as a set of <<key, value>>
    relationsUsed,
    visited         \* relations post-scanned so far, with the list each was given

scanVars == <<scanPhase, unscanned, task, rareRoles, memberships, relationTags, relationsUsed, visited>>

Idle == [on |-> FALSE]
Shard(type, id) == IF type = "relation" THEN 0 ELSE id % StoreShards
TagSlot(id) == <<id % StoreShards, id>>

\* A map of C++: operator[] inserts an empty value when it reads.
At(map, key)   == IF key \in DOMAIN map THEN map[key] ELSE <<>>
Touch(map, key, empty) == IF key \in DOMAIN map THEN map ELSE [k \in DOMAIN map \cup {key} |-> IF k = key THEN empty ELSE map[k]]
Put(map, key, value) == [k \in DOMAIN map \cup {key} |-> IF k = key THEN value ELSE map[k]]

InitScan ==
    /\ scanPhase = "scan" /\ unscanned = Relations
    /\ task = [s \in Scanners |-> Idle]
    /\ rareRoles = <<>>
    /\ memberships = [k \in {} |-> <<>>] /\ relationTags = [k \in {} |-> {}]
    /\ relationsUsed = {} /\ visited = <<>>
-----------------------------------------------------------------------------
(* Roles. *)

PositionIn(seq, x) == CHOOSE i \in 1..Len(seq) : seq[i] = x

\* mutant: a rare role is numbered without the popular ones.
RoleId_RareOnly(rare, role) ==
    IF role \in Range(PopularRoles) THEN PositionIn(PopularRoles, role) - 1 ELSE PositionIn(rare, role) - 1

\* getOrAddRole(), once the role is known, and getRole().
RoleId(rare, role) ==
    IF role \in Range(PopularRoles) THEN PositionIn(PopularRoles, role) - 1
    ELSE Len(PopularRoles) + PositionIn(rare, role) - 1
GetRole(id) == IF id < Len(PopularRoles) THEN PopularRoles[id + 1] ELSE rareRoles[id - Len(PopularRoles) + 1]
AddRole(role) == IF role \in Range(PopularRoles) \cup Range(rareRoles) THEN rareRoles ELSE Append(rareRoles, role)
-----------------------------------------------------------------------------
(* Scanning. *)

\* Are a relation's tags enough for way_keys? The script's wishes are part of the input.
Significant(tags) == \E t \in tags : t[1] = "key"

\* ScanRelations up to the members: a native multipolygon is wanted for its tags, any other
\* relation when relation_scan_function accepts it, which keeps its tags.
TakeRelation(s, r) ==
    /\ scanPhase = "scan" /\ task[s] = Idle
    /\ unscanned' = unscanned \ {r}
    /\ LET wanted == IF r.native THEN Significant(r.tags) ELSE r.accept
       IN  /\ relationsUsed' = IF wanted THEN relationsUsed \cup {r.id} ELSE relationsUsed
           /\ relationTags' = IF wanted /\ ~r.native THEN Put(relationTags, TagSlot(r.id), r.tags) ELSE relationTags
           /\ task' = IF wanted /\ ~r.native THEN [task EXCEPT ![s] = [on |-> TRUE, rel |-> r, at |-> 1, role |-> -1]] ELSE task
    /\ UNCHANGED <<scanPhase, rareRoles, memberships, visited>>

\* The first half of relation_contains_way and its siblings, under the roles' mutex.
FindRole(s) ==
    /\ task[s].on /\ task[s].role = -1 /\ task[s].at <= Len(task[s].rel.members)
    /\ LET role == task[s].rel.members[task[s].at].role
       IN  /\ rareRoles' = AddRole(role)
           /\ task' = [task EXCEPT ![s].role = RoleId(AddRole(role), role)]
    /\ UNCHANGED <<scanPhase, unscanned, memberships, relationTags, relationsUsed, visited>>

\* The second half, under the mutex of the member's shard.
AddMember(s) ==
    /\ task[s].on /\ task[s].role # -1
    /\ LET m    == task[s].rel.members[task[s].at]
           slot == <<m.type, Shard(m.type, m.id), m.id>>
       IN  memberships' = Put(memberships, slot, Append(At(memberships, slot), <<task[s].rel.id, task[s].role>>))
    /\ task' = [task EXCEPT ![s].at = @ + 1, ![s].role = -1]
    /\ UNCHANGED <<scanPhase, unscanned, rareRoles, relationTags, relationsUsed, visited>>

EndRelation(s) ==
    /\ task[s].on /\ task[s].at > Len(task[s].rel.members)
    /\ task' = [task EXCEPT ![s] = Idle]
    /\ UNCHANGED <<scanPhase, unscanned, rareRoles, memberships, relationTags, relationsUsed, visited>>

\* pool.join()
JoinScan ==
    /\ scanPhase = "scan" /\ unscanned = {} /\ \A s \in Scanners : task[s] = Idle
    /\ scanPhase' = IF PostScans THEN "postscan" ELSE "read"
    /\ UNCHANGED <<unscanned, task, rareRoles, memberships, relationTags, relationsUsed, visited>>
-----------------------------------------------------------------------------
(* The post-scan. *)

ParentSlot(id) == <<"relation", 0, id>>

\* mutant: only the parents themselves.
WithParents_OneLevel(id) ==
    [out |-> At(memberships, ParentSlot(id)), todo |-> <<>>, done |-> {id}, map |-> Touch(memberships, ParentSlot(id), <<>>)]

\* One round of its loop over a stack: depth first; reading a relation without parents gives
\* it an empty list.
Visit(w) ==
    LET rel     == Last(w.todo)
        parents == At(w.map, ParentSlot(rel))
    IN  IF w.todo = <<>> THEN w
        ELSE IF rel \in w.done THEN [w EXCEPT !.todo = Front(@)]
        ELSE [out  |-> w.out \o parents,
              todo |-> Front(w.todo) \o [k \in DOMAIN parents |-> parents[k][1]],
              done |-> w.done \cup {rel},
              map  |-> Touch(w.map, ParentSlot(rel), <<>>)]

\* relations_for_relation_with_parents(): as many rounds as there are memberships, and one.
WithParents(id) ==
    LET edges == Cardinality(UNION {{r} \X DOMAIN r.members : r \in Relations})
        after[n \in 0..(edges + 1)] ==
            IF n = 0 THEN [out |-> <<>>, todo |-> <<id>>, done |-> {}, map |-> memberships] ELSE Visit(after[n - 1])
    IN  after[edges + 1]

\* get_relation_tag(), FindInRelation()
ParentNames(id) ==
    IF TagSlot(id) \notin DOMAIN relationTags THEN {}
    ELSE {t[2] : t \in {u \in relationTags[TagSlot(id)] : u[1] = "name"}}

\* The script of docs/RELATIONS.md sets every ancestor's name on the relation, so that of those
\* listed that have one the last stays.
Bounced(tags, list) ==
    LET named == {k \in DOMAIN list : ParentNames(list[k][1]) # {}}
    IN  IF named = {} THEN tags
        ELSE {t \in tags : t[1] # "name"} \cup {<<"name", CHOOSE n \in ParentNames(list[Max(named)][1]) : TRUE>>}

\* Iteration over the map, which goes on over what is inserted behind the position.
PostScanRelation ==
    /\ scanPhase = "postscan"
    /\ LET past == IF visited = <<>> THEN 0 ELSE Last(visited).id
           left == {k[3] : k \in {j \in DOMAIN memberships : j[1] = "relation"}}
           rest == {id \in left : id > past}
       IN  IF rest = {} THEN scanPhase' = "read" /\ UNCHANGED <<memberships, relationTags, visited>>
           ELSE LET id   == CHOOSE i \in rest : \A j \in rest : i <= j
                    w    == WithParents(id)
                    tags == Touch(relationTags, TagSlot(id), {})
                IN  /\ memberships' = w.map
                    /\ relationTags' = [tags EXCEPT ![TagSlot(id)] = Bounced(@, w.out)]
                    /\ visited' = Append(visited, [id |-> id, list |-> w.out, names |-> Bounced({}, w.out)])
                    /\ UNCHANGED scanPhase
    /\ UNCHANGED <<unscanned, task, rareRoles, relationsUsed>>

NextScan ==
    \/ \E s \in Scanners, r \in unscanned : TakeRelation(s, r)
    \/ \E s \in Scanners : FindRole(s) \/ AddMember(s) \/ EndRelation(s)
    \/ JoinScan
    \/ PostScanRelation

SpecScan == InitScan /\ [][NextScan]_scanVars
-----------------------------------------------------------------------------
(* Later passes. *)

\* relations_for_way, relations_for_node, relations_for_relation behind their ..._in_any_...
RelationsFor(type, id) == At(memberships, <<type, Shard(type, id), id>>)

\* mutant: without the scanned tags a relation has none.
TagsForRelation_ScannedOnly(r) ==
    IF TagSlot(r.id) \in DOMAIN relationTags THEN relationTags[TagSlot(r.id)] ELSE {}

\* The tags ReadRelations gives a relation: the scanned ones if there are any, else its own.
TagsForRelation(r) ==
    IF TagSlot(r.id) \in DOMAIN relationTags THEN relationTags[TagSlot(r.id)] ELSE r.tags

Wanted == {r \in Relations : r.accept /\ ~r.native}

\* What NextRelation gives for a way, a node or a relation after the scan are the accepted
\* relations it is a member of, once per membership, with the role of the file, however the
\* threads interleaved (relation_contains_*, getOrAddRole, getRole).
MembershipsReadBack ==
    scanPhase # "scan" => \A r \in Relations : \A i \in DOMAIN r.members :
        LET m    == r.members[i]
            list == RelationsFor(m.type, m.id)
            read == [k \in DOMAIN list |-> <<list[k][1], GetRole(list[k][2])>>]
        IN  \A q \in Wanted, role \in {n.role : n \in Range(r.members)} :
                Cardinality({k \in DOMAIN read : read[k] = <<q.id, role>>})
                  = Cardinality({k \in DOMAIN q.members : /\ q.members[k].type = m.type /\ q.members[k].id = m.id
                                                          /\ q.members[k].role = role})

\* Ancestors of a relation, reached by one membership or more: the least set that has the
\* parents of the relation and of its elements.
ParentsOf(S) == {q.id : q \in {p \in Wanted : \E m \in Range(p.members) : m.type = "relation" /\ m.id \in S}}
Ancestor(id) ==
    {a \in {q.id : q \in Wanted} : \A S \in SUBSET {q.id : q \in Wanted} : ParentsOf(S \cup {id}) \subseteq S => a \in S}

\* The list relation_postscan_function walks has every ancestor, and nothing else, also
\* where relations contain each other (relations_for_relation_with_parents).
AncestorsListed == \A i \in DOMAIN visited : {p[1] : p \in Range(visited[i].list)} = Ancestor(visited[i].id)

\* A relation that is written has the tags of the file, with the name its ancestors gave it
\* in the post-scan (relation_tags, has_relation_tags, SetTag, ReadRelations).
TagsKept ==
    scanPhase = "read" => \A r \in Relations :
        r.id \in relationsUsed =>
            LET given == UNION {visited[i].names : i \in {j \in DOMAIN visited : visited[j].id = r.id}}
            IN  TagsForRelation(r) = IF given = {} THEN r.tags
                                     ELSE {t \in r.tags : t[1] # "name"} \cup given
-----------------------------------------------------------------------------
(* The strengthening that makes MembershipsReadBack inductive. *)

AllMembers == UNION {Range(r.members) : r \in Relations}
AllRoles   == {m.role : m \in AllMembers}

Known(id)   == id \in Nat /\ id < Len(PopularRoles) + Len(rareRoles)
ListOf(m)   == RelationsFor(m.type, m.id)
OnTask(s, q) == task[s].on /\ task[s].rel = q

\* The positions of q's members that have been added.
Added(q) == {k \in DOMAIN q.members : q \notin unscanned /\ \A s \in Scanners : OnTask(s, q) => k < task[s].at}

\* Entries of a list and members of q that say q has the member m in a role.
EntriesFor(list, q, role) == {k \in DOMAIN list : list[k][1] = q.id /\ GetRole(list[k][2]) = role}
MembersFor(q, m, role) ==
    {k \in Added(q) : q.members[k].type = m.type /\ q.members[k].id = m.id /\ q.members[k].role = role}

Tasks == {Idle} \cup [on : {TRUE}, rel : Wanted, at : Nat \ {0}, role : Int]

ScanTypeOK ==
    /\ scanPhase \in {"scan", "postscan", "read"} /\ unscanned \subseteq Relations
    /\ task \in [Scanners -> Tasks]
    /\ rareRoles \in Seq(AllRoles)
    /\ \A m \in AllMembers : ListOf(m) \in Seq({r.id : r \in Relations} \X Nat)
    /\ \A m \in AllMembers : \A k \in DOMAIN ListOf(m) : Known(ListOf(m)[k][2])

\* A relation is with one scanner, who holds the role of the member it is at.
TasksHold ==
    /\ \A s \in Scanners : task[s].on =>
         /\ task[s].rel \notin unscanned /\ task[s].at <= Len(task[s].rel.members) + 1
         /\ task[s].role # -1 => /\ task[s].at <= Len(task[s].rel.members) /\ Known(task[s].role)
                                 /\ GetRole(task[s].role) = task[s].rel.members[task[s].at].role
    /\ \A s, t \in Scanners : task[s].on /\ task[t].on /\ task[s].rel = task[t].rel => s = t
    /\ scanPhase # "scan" => unscanned = {} /\ \A s \in Scanners : task[s] = Idle

MembershipsAdded ==
    \A q \in Wanted, m \in AllMembers, role \in AllRoles :
        Cardinality(EntriesFor(ListOf(m), q, role)) = Cardinality(MembersFor(q, m, role))

ScanInv == ScanTypeOK /\ TasksHold /\ MembershipsAdded
-----------------------------------------------------------------------------
(* What AncestorsListed and TagsKept rest on besides. *)

SlotOf(m)    == <<m.type, Shard(m.type, m.id), m.id>>
Entries      == UNION {{key} \X DOMAIN memberships[key] : key \in DOMAIN memberships}
AddedMembers == UNION {{q} \X Added(q) : q \in Wanted}

\* Each entry of a list is of a member that was added, and there are no more of them, which
\* bounds the rounds of the walk.
EntriesTrue ==
    \A key \in DOMAIN memberships :
        /\ memberships[key] \in Seq({q.id : q \in Wanted} \X Nat)
        /\ \A k \in DOMAIN memberships[key] :
             \E q \in Wanted : \E j \in Added(q) : q.id = memberships[key][k][1] /\ key = SlotOf(q.members[j])
EntriesCounted == IsFiniteSet(Entries) /\ Cardinality(Entries) <= Cardinality(AddedMembers)

WalkInv == ScanInv /\ EntriesTrue /\ EntriesCounted /\ AncestorsListed /\ visited \in Seq(Range(visited))

\* A relation whose tags are not scanned is not a member of one whose tags are: TagsKept is
\* about files of which this is true.
ScannedMembers ==
    \A q \in Wanted : \A m \in Range(q.members) : m.type = "relation" => \A r \in Relations : r.id = m.id => ~r.native

\* Relations the post-scan may visit: members and those that have them.
Related == {q.id : q \in Wanted} \cup {m.id : m \in {n \in UNION {Range(q.members) : q \in Wanted} : n.type = "relation"}}
GivenTo(id) == UNION {visited[i].names : i \in {j \in DOMAIN visited : visited[j].id = id}}

KeysRelated ==
    \A key \in DOMAIN memberships : key[1] = "relation" => key[3] \in Related /\ key = ParentSlot(key[3])

VisitedInOrder ==
    /\ \A i \in DOMAIN visited : visited[i].id \in Related
    /\ \A i, j \in DOMAIN visited : i < j => visited[i].id < visited[j].id
    /\ scanPhase = "scan" => visited = <<>>

UsedScanned == \A r \in Relations : r.id \in relationsUsed => r \notin unscanned /\ (r.native \/ r \in Wanted)

\* Tags are kept of related relations; those of a scanned one with the name it was given.
TagsScanned ==
    /\ \A slot \in DOMAIN relationTags : \E id \in Related : slot = TagSlot(id)
    /\ \A r \in Wanted : r \notin unscanned =>
         /\ TagSlot(r.id) \in DOMAIN relationTags
         /\ relationTags[TagSlot(r.id)] = IF GivenTo(r.id) = {} THEN r.tags
                                         ELSE {t \in r.tags : t[1] # "name"} \cup GivenTo(r.id)

TagsHold == KeysRelated /\ VisitedInOrder /\ UsedScanned /\ TagsScanned

TagsInv == WalkInv /\ TagsHold
=============================================================================
