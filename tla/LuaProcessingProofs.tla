------------------------ MODULE LuaProcessingProofs ------------------------
(***************************************************************************)
(* Proofs about LuaProcessing: whatever the objects of the file and        *)
(* whatever calls a script makes for them, in whatever order, an output    *)
(* has the geometry of its own object and the attributes it was given.     *)
(***************************************************************************)
EXTENDS LuaProcessing, Induction, TLAPS

LEMMA SeqFacts ==
  ASSUME NEW s, IsSeq(s)
  PROVE  Len(s) \in Nat /\ DOMAIN s = 1..Len(s)
BY LenProperties DEF IsSeq

Longer(s, e, t) ==
    /\ IsSeq(t) /\ Len(t) = Len(s) + 1 /\ Len(s) \in Nat
    /\ DOMAIN s = 1..Len(s) /\ DOMAIN t = 1..(Len(s) + 1)
    /\ \A i \in 1..Len(s) : t[i] = s[i]
    /\ t[Len(s) + 1] = e
    /\ Range(t) = Range(s) \cup {e}

LEMMA AppendFacts ==
  ASSUME NEW s, IsSeq(s), NEW e, NEW t, t = Append(s, e)
  PROVE  Longer(s, e, t)
<1> DEFINE S == Range(s) \cup {e}
<1>1. s \in Seq(S) /\ e \in S
  BY DEF IsSeq
<1>2. Len(s) \in Nat /\ DOMAIN s = 1..Len(s)
  BY SeqFacts
<1>3. /\ t \in Seq(S) /\ Len(t) = Len(s) + 1
      /\ \A i \in 1..Len(s) : t[i] = s[i]
      /\ t[Len(s) + 1] = e
  <2> HIDE DEF S
  <2> QED BY <1>1, AppendProperties
<1>4. DOMAIN t = 1..(Len(s) + 1)
  <2> HIDE DEF S
  <2> QED BY <1>3, LenProperties
<1>5. Range(t) = S
  <2> DEFINE n == Len(s)
  <2>1. n \in Nat /\ DOMAIN s = 1..n /\ DOMAIN t = 1..(n + 1) /\ (\A i \in 1..n : t[i] = s[i]) /\ t[n + 1] = e
    BY <1>2, <1>3, <1>4
  <2> HIDE DEF n
  <2>2. ASSUME NEW x \in Range(t) PROVE x \in S
    <3>1. PICK i \in 1..(n + 1) : x = t[i]
      BY <2>1 DEF Range
    <3>2. CASE i \in 1..n
      BY <2>1, <3>1, <3>2 DEF Range
    <3>3. CASE i = n + 1
      BY <2>1, <3>1, <3>3
    <3> QED BY <2>1, <3>2, <3>3
  <2>3. ASSUME NEW x \in S PROVE x \in Range(t)
    <3>1. CASE x = e
      <4>1. n + 1 \in 1..(n + 1)
        BY <2>1
      <4> QED BY <2>1, <3>1, <4>1 DEF Range
    <3>2. CASE x \in Range(s)
      <4>1. PICK i \in 1..n : x = s[i]
        BY <2>1, <3>2 DEF Range
      <4>2. i \in 1..(n + 1) /\ t[i] = x
        BY <2>1, <4>1
      <4> QED BY <2>1, <4>2 DEF Range
    <3> QED BY <3>1, <3>2
  <2> QED BY <2>2, <2>3
<1> QED BY <1>2, <1>3, <1>4, <1>5 DEF IsSeq, Longer

LEMMA EmptyFacts == IsSeq(<<>>) /\ Len(<<>>) = 0 /\ DOMAIN <<>> = {} /\ Range(<<>>) = {}
<1>1. Len(<<>>) = 0 /\ DOMAIN <<>> = {}
  OBVIOUS
<1>2. Range(<<>>) = {}
  BY <1>1 DEF Range
<1> QED BY <1>1, <1>2 DEF IsSeq

-----------------------------------------------------------------------------
(* What an id leads to stays what it is while geometries are added.        *)
Grows == stored' = stored \/ \E g : stored' = Append(stored, g)

LEMMA GrowFacts ==
  ASSUME IsSeq(stored), Grows
  PROVE  /\ IsSeq(stored)' /\ Len(stored) \in Nat /\ Len(stored') \in Nat /\ Len(stored) <= Len(stored')
         /\ \A i \in 1..Len(stored) : stored'[i] = stored[i]
<1>1. Len(stored) \in Nat
  BY SeqFacts
<1>2. CASE stored' = stored
  BY <1>1, <1>2 DEF IsSeq
<1>3. CASE \E g : stored' = Append(stored, g)
  <2>1. PICK g : stored' = Append(stored, g)
    BY <1>3
  <2>2. PICK t : t = stored'
    OBVIOUS
  <2>3. /\ IsSeq(t) /\ Len(t) = Len(stored) + 1 /\ Len(stored) \in Nat
        /\ \A i \in 1..Len(stored) : t[i] = stored[i]
    <3>1. PICK s : s = stored
      OBVIOUS
    <3>2. IsSeq(s) /\ t = Append(s, g)
      BY <2>1, <2>2, <3>1 DEF IsSeq
    <3>3. Longer(s, g, t)
      BY <3>2, AppendFacts
    <3> QED BY <3>1, <3>3 DEF Longer
  <2>4. IsSeq(stored)'
    BY <2>2, <2>3 DEF IsSeq
  <2>5. Len(t) \in Nat /\ Len(stored) <= Len(t)
    BY <2>3
  <2> QED BY <2>2, <2>3, <2>4, <2>5
<1> QED BY <1>2, <1>3 DEF Grows

LEMMA PromisesKept ==
  ASSUME IsSeq(stored), Grows, UNCHANGED <<handed, next>>, nodeStore \subseteq nodeStore',
         wayEmitted => wayEmitted',
         NEW type, NEW id, NEW what, WillResolve(type, id, what)
  PROVE  WillResolve(type, id, what)'
<1>1. /\ Len(stored) \in Nat /\ Len(stored') \in Nat /\ Len(stored) <= Len(stored')
      /\ \A i \in 1..Len(stored) : stored'[i] = stored[i]
  BY GrowFacts
<1>2. Current' = Current
  BY DEF Current
<1>3. CASE id.store = "tiles" /\ id.id \in Nat /\ id.id < Len(stored) /\ stored[id.id + 1] = MeantBy(what, Current)
  <2> DEFINE k == id.id + 1
  <2>1. k \in 1..Len(stored) /\ id.id < Len(stored')
    BY <1>1, <1>3
  <2>2. stored'[k] = stored[k]
    BY <1>1, <2>1
  <2>3. MeantBy(what, Current)' = MeantBy(what, Current)
    BY <1>2 DEF MeantBy, Geometry
  <2> QED BY <1>3, <2>1, <2>2, <2>3 DEF WillResolve
<1>4. CASE ~(id.store = "tiles" /\ id.id \in Nat /\ id.id < Len(stored) /\ stored[id.id + 1] = MeantBy(what, Current))
  BY <1>2, <1>4 DEF WillResolve
<1> QED BY <1>3, <1>4

LEMMA SettledKept ==
  ASSUME IsSeq(stored), Grows, nodeStore \subseteq nodeStore', wayStore \subseteq wayStore',
         NEW e, Settled(e)
  PROVE  Settled(e)'
<1>1. /\ Len(stored) \in Nat /\ Len(stored') \in Nat /\ Len(stored) <= Len(stored')
      /\ \A i \in 1..Len(stored) : stored'[i] = stored[i]
  BY GrowFacts
<1>2. Resolve(e.output) = Meant(e) /\ Meant(e)' = Meant(e)
  BY DEF Settled, Meant, MeantBy, Geometry
<1>3. CASE e.output.id.store = "tiles" /\ e.output.id.id \in Nat /\ e.output.id.id < Len(stored)
  <2> DEFINE k == e.output.id.id + 1
  <2>1. k \in 1..Len(stored) /\ e.output.id.id < Len(stored')
    BY <1>1, <1>3
  <2>2. Resolve(e.output)' = stored'[k] /\ Resolve(e.output) = stored[k]
    BY <1>3 DEF Resolve
  <2>3. stored'[k] = stored[k]
    BY <1>1, <2>1
  <2> QED BY <1>2, <1>3, <2>1, <2>2, <2>3 DEF Settled
<1>4. CASE e.output.id.store = "node" /\ e.output.id.id \in nodeStore
  <2>1. Resolve(e.output)' = Resolve(e.output)
    BY <1>4 DEF Resolve, Geometry
  <2> QED BY <1>2, <1>4, <2>1 DEF Settled
<1>5. CASE e.output.id.store = "way" /\ e.output.id.id \in wayStore
  <2>1. Resolve(e.output)' = Resolve(e.output)
    BY <1>5 DEF Resolve, Geometry
  <2> QED BY <1>2, <1>5, <2>1 DEF Settled
<1> QED BY <1>3, <1>4, <1>5 DEF Settled

-----------------------------------------------------------------------------
(* Starting on an object, and what the calls leave of it. *)

LEMMA LuaBegins ==
  ASSUME LuaAssumption, LuaInit
  PROVE  GeometryInv
<1>1. stored = <<None>> /\ outputs = <<>> /\ running = FALSE /\ index = {} /\ handed \in Files /\ next = 1
  BY DEF LuaInit
<1>2. cache = [k \in CacheKinds |-> None] /\ inited = {} /\ lastStored = [id |-> NoId, type |-> "POINT"]
  BY DEF LuaInit
<1>3. IsSeq(<<None>>)
  <2>1. <<None>> \in Seq({None}) /\ Range(<<None>>) = {None}
    BY DEF Range
  <2> QED BY <2>1 DEF IsSeq
<1>4. IsSeq(stored) /\ IsSeq(outputs) /\ DOMAIN outputs = {}
  BY <1>1, <1>3, EmptyFacts
<1>5. DOMAIN cache = CacheKinds /\ inited \subseteq CacheKinds /\ DOMAIN lastStored = {"id", "type"}
  BY <1>2
<1>6. handed \in Files /\ next \in Nat \ {0} /\ running \in BOOLEAN /\ ~running /\ index = {}
  <2>1. handed \in Files /\ running \in BOOLEAN /\ ~running /\ index = {} /\ next = 1
    BY <1>1, Zenon
  <2>2. 1 \in Nat \ {0}
    OBVIOUS
  <2> QED BY <2>1, <2>2, Zenon
<1>7. LuaTypeOK
  BY <1>4, <1>5, <1>6 DEF LuaTypeOK
<1> QED BY <1>6, <1>7 DEF GeometryInv

LEMMA CurrentFacts ==
  ASSUME LuaAssumption, LuaTypeOK, next <= Len(handed)
  PROVE  Current.kind \in {"node", "way", "relation"}
<1>1. IsSeq(handed) /\ \A i \in DOMAIN handed : handed[i].kind \in {"node", "way", "relation"}
  BY DEF LuaAssumption, LuaTypeOK
<1>2. Len(handed) \in Nat /\ DOMAIN handed = 1..Len(handed)
  BY <1>1, SeqFacts
<1>3. next \in 1..Len(handed)
  BY <1>2 DEF LuaTypeOK
<1> QED BY <1>1, <1>2, <1>3 DEF Current

LEMMA SetKeeps ==
  ASSUME LuaAssumption, GeometryInv, SetObject
  PROVE  GeometryInv'
<1>1. /\ next <= Len(handed) /\ outputs' = <<>> /\ inited' = {} /\ lastStored' = [lastStored EXCEPT !.id = NoId]
      /\ originalOsmID' = Current.id /\ isWay' = (Current.kind # "node") /\ isRelation' = (Current.kind = "relation")
      /\ llVec' = (IF Current.kind = "way" THEN Current ELSE Null)
      /\ wayVecs' = (IF Current.kind = "relation" THEN Current ELSE Null)
      /\ running' = (FunctionFor(Current) # "none")
      /\ next' = (IF FunctionFor(Current) = "none" THEN next + 1 ELSE next)
      /\ UNCHANGED <<handed, cache, stored, nodeStore, wayStore, index>>
  BY DEF SetObject, Reset, kept
<1>2. LuaTypeOK
  BY DEF GeometryInv
<1>3. DOMAIN lastStored' = {"id", "type"} /\ lastStored'.id = NoId
  BY <1>1, <1>2 DEF LuaTypeOK
<1>4. IsSeq(outputs)' /\ DOMAIN outputs' = {}
  BY <1>1, EmptyFacts DEF IsSeq
<1>5. LuaTypeOK'
  <2>1. IsSeq(stored)' /\ DOMAIN cache' = CacheKinds /\ inited' \subseteq CacheKinds /\ handed' \in Files
    BY <1>1, <1>2 DEF LuaTypeOK, IsSeq
  <2>2. next' \in Nat \ {0} /\ running' \in BOOLEAN
    BY <1>1, <1>2 DEF LuaTypeOK
  <2> QED BY <1>3, <1>4, <2>1, <2>2 DEF LuaTypeOK
<1>6. ASSUME running' PROVE ObjectSet'
  <2>1. next' = next
    BY <1>1, <1>6
  <2>2. Current' = Current
    BY <1>1, <2>1 DEF Current
  <2> QED BY <1>1, <1>3, <1>4, <2>1, <2>2 DEF ObjectSet
<1>7. ASSUME NEW e \in index' PROVE Settled(e)'
  <2>1. e \in index /\ Grows /\ nodeStore' = nodeStore /\ wayStore' = wayStore /\ IsSeq(stored)
    BY <1>1, <1>2, <1>7 DEF Grows, LuaTypeOK
  <2>2. Settled(e)
    BY <2>1 DEF GeometryInv
  <2> QED BY <2>1, <2>2, SettledKept
<1> QED BY <1>5, <1>6, <1>7 DEF GeometryInv

(* What every call leaves alone. *)
Calling == /\ running /\ UNCHANGED <<handed, next, running, isWay, isRelation, isClosed, llVec, wayVecs, nodeStore, wayStore, index>>
           /\ (MaterializeGeometries \/ originalOsmID' = originalOsmID)

(* The caches hold what belongs to the object. *)
CachesKept == /\ DOMAIN cache' = CacheKinds /\ inited' \subseteq CacheKinds
              /\ \A k \in inited' : cache'[k] = Geometry(k, Source(k).id)

LEMMA CallKeeps ==
  ASSUME GeometryInv, Calling, CachesKept, Grows, wayEmitted => wayEmitted',
         IsSeq(outputs)',
         \A i \in DOMAIN outputs' :
            /\ DOMAIN outputs'[i] = OutputFields
            /\ WillResolve(outputs[i].type, outputs[i].id, outputs[i].what)',
         \/ lastStored' = lastStored
         \/ /\ DOMAIN lastStored' = {"id", "type"} /\ lastStored'.type \in {"LINESTRING", "MULTILINESTRING"}
            /\ WillResolve(lastStored.type, lastStored.id, BaseKind(lastStored.type))'
  PROVE  GeometryInv'
<1>1. LuaTypeOK /\ ObjectSet /\ IsSeq(stored)
  BY DEF GeometryInv, Calling, LuaTypeOK
<1>2. Current' = Current /\ nodeStore \subseteq nodeStore' /\ wayStore \subseteq wayStore' /\ UNCHANGED <<handed, next>>
  BY DEF Calling, Current
<1>3. DOMAIN lastStored' = {"id", "type"}
  BY <1>1 DEF LuaTypeOK
<1>4. LuaTypeOK'
  <2>1. handed' \in Files /\ next' \in Nat \ {0} /\ running' \in BOOLEAN
    BY <1>1 DEF LuaTypeOK, Calling
  <2>2. DOMAIN cache' = CacheKinds /\ inited' \subseteq CacheKinds
    BY DEF CachesKept
  <2>3. IsSeq(stored)'
    BY <1>1, GrowFacts
  <2> QED BY <1>3, <2>1, <2>2, <2>3 DEF LuaTypeOK
<1>5. \A k : Source(k)' = Source(k)
  BY DEF Source, Calling
<1>6. \A k \in inited' : cache'[k] = Geometry(k, Source(k)'.id)
  BY <1>5 DEF CachesKept
<1>7. lastStored'.id # NoId => /\ lastStored'.type \in {"LINESTRING", "MULTILINESTRING"}
                               /\ WillResolve(lastStored.type, lastStored.id, BaseKind(lastStored.type))'
  <2>1. CASE lastStored' = lastStored
    <3>1. SUFFICES ASSUME lastStored.id # NoId
                   PROVE  /\ lastStored.type \in {"LINESTRING", "MULTILINESTRING"}
                          /\ WillResolve(lastStored.type, lastStored.id, BaseKind(lastStored.type))'
      BY <2>1
    <3>2. PICK type, id, kind : type = lastStored.type /\ id = lastStored.id /\ kind = BaseKind(type)
      OBVIOUS
    <3>3. type \in {"LINESTRING", "MULTILINESTRING"} /\ WillResolve(type, id, kind)
      BY <1>1, <3>1, <3>2 DEF ObjectSet
    <3>4. WillResolve(type, id, kind)'
      BY <1>1, <1>2, <3>3, PromisesKept
    <3>5. BaseKind(type)' = BaseKind(type)
      BY DEF BaseKind, Calling
    <3>6. BaseKind(lastStored.type)' = kind /\ lastStored'.type = type /\ lastStored'.id = id
      BY <2>1, <3>2, <3>5
    <3> QED BY <3>2, <3>3, <3>4, <3>6 DEF WillResolve
  <2>2. CASE lastStored' # lastStored
    BY <2>2
  <2> QED BY <2>1, <2>2
<1>8. ObjectSet'
  <2>1. /\ next' <= Len(handed') /\ isWay' = (Current'.kind # "node") /\ isRelation' = (Current'.kind = "relation")
        /\ llVec' = (IF Current'.kind = "way" THEN Current' ELSE Null)
        /\ wayVecs' = (IF Current'.kind = "relation" THEN Current' ELSE Null)
        /\ MaterializeGeometries \/ originalOsmID' = Current'.id
    BY <1>1, <1>2 DEF ObjectSet, Calling
  <2> QED BY <1>6, <1>7, <2>1 DEF ObjectSet
<1>9. ASSUME NEW e \in index' PROVE Settled(e)'
  <2>1. e \in index
    BY <1>9 DEF Calling
  <2>2. Settled(e)
    BY <2>1 DEF GeometryInv
  <2> QED BY <1>1, <1>2, <2>2, SettledKept
<1> QED BY <1>4, <1>8, <1>9 DEF GeometryInv

-----------------------------------------------------------------------------
(* Writing to a layer. *)

(* The geometry a cache gives is the one of its source, and stays so.      *)
LEMMA CachedFacts ==
  ASSUME LuaTypeOK, ObjectSet, NEW kind \in CacheKinds
  PROVE  /\ Cached(kind).value = Geometry(kind, Source(kind).id)
         /\ DOMAIN Cached(kind).cache = CacheKinds /\ Cached(kind).inited \subseteq CacheKinds
         /\ \A k \in Cached(kind).inited : Cached(kind).cache[k] = Geometry(k, Source(k).id)
<1>1. CASE kind \in inited
  <2>1. Cached(kind).value = cache[kind] /\ Cached(kind).cache = cache /\ Cached(kind).inited = inited
    BY <1>1 DEF Cached
  <2> QED BY <1>1, <2>1 DEF LuaTypeOK, ObjectSet
<1>2. CASE kind \notin inited
  <2>1. PICK g : g = Geometry(kind, Source(kind).id)
    OBVIOUS
  <2>2. Cached(kind).value = g /\ Cached(kind).cache = [cache EXCEPT ![kind] = g] /\ Cached(kind).inited = inited \cup {kind}
    BY <1>2, <2>1 DEF Cached
  <2>3. PICK c : c = [cache EXCEPT ![kind] = g]
    OBVIOUS
  <2>4. DOMAIN c = CacheKinds /\ c[kind] = g /\ \A k \in CacheKinds \ {kind} : c[k] = cache[k]
    BY <2>3 DEF LuaTypeOK
  <2>5. \A k \in inited : k \in CacheKinds /\ cache[k] = Geometry(k, Source(k).id)
    BY DEF LuaTypeOK, ObjectSet
  <2>6. \A k \in inited \cup {kind} : c[k] = Geometry(k, Source(k).id)
    <3> HIDE DEF CacheKinds
    <3> QED BY <1>2, <2>1, <2>4, <2>5, Zenon
  <2> QED BY <2>1, <2>2, <2>3, <2>4, <2>5, <2>6
<1> QED BY <1>1, <1>2

LEMMA CachesStay ==
  ASSUME LuaTypeOK, ObjectSet, UNCHANGED <<cache, inited>>
  PROVE  CachesKept
BY DEF CachesKept, LuaTypeOK, ObjectSet

LEMMA CachesFilled ==
  ASSUME LuaTypeOK, ObjectSet, NEW kind \in CacheKinds, KeepCache(Cached(kind))
  PROVE  CachesKept
BY CachedFacts DEF CachesKept, KeepCache

(* An output that is written, and one that is not. *)
Fresh(o) == /\ DOMAIN o = OutputFields /\ o.attributes = <<>> /\ o.asked = <<>>
            /\ WillResolve(o.type, o.id, o.what)'
Emitted == outputKeys' = {} /\ \/ outputs' = outputs /\ skipped' = skipped \cup {Len(outputs)}
                               \/ skipped' = skipped /\ \E o : Fresh(o) /\ outputs' = Append(outputs, o)

LEMMA EmittedKeeps ==
  ASSUME GeometryInv, Calling, CachesKept, Grows, wayEmitted => wayEmitted', Emitted,
         \/ lastStored' = lastStored
         \/ /\ DOMAIN lastStored' = {"id", "type"} /\ lastStored'.type \in {"LINESTRING", "MULTILINESTRING"}
            /\ WillResolve(lastStored.type, lastStored.id, BaseKind(lastStored.type))'
  PROVE  GeometryInv'
<1>1. LuaTypeOK /\ ObjectSet /\ IsSeq(stored) /\ IsSeq(outputs)
  BY DEF GeometryInv, Calling, LuaTypeOK
<1>2. UNCHANGED <<handed, next>> /\ nodeStore \subseteq nodeStore'
  BY DEF Calling
<1>3. ASSUME NEW i \in DOMAIN outputs
      PROVE  DOMAIN outputs[i] = OutputFields /\ WillResolve(outputs[i].type, outputs[i].id, outputs[i].what)
  BY <1>1 DEF LuaTypeOK, ObjectSet
<1>4. ASSUME NEW o, WillResolve(o.type, o.id, o.what) PROVE WillResolve(o.type, o.id, o.what)'
  <2>1. PICK type, id, what : type = o.type /\ id = o.id /\ what = o.what
    OBVIOUS
  <2>2. WillResolve(type, id, what)
    BY <1>4, <2>1
  <2>3. WillResolve(type, id, what)'
    BY <1>1, <1>2, <2>2, PromisesKept
  <2> QED BY <2>1, <2>3
<1>5. /\ IsSeq(outputs)'
      /\ \A i \in DOMAIN outputs' : /\ DOMAIN outputs'[i] = OutputFields
                                    /\ WillResolve(outputs[i].type, outputs[i].id, outputs[i].what)'
  <2>1. CASE outputs' = outputs
    <3>1. ASSUME NEW i \in DOMAIN outputs'
          PROVE  /\ DOMAIN outputs'[i] = OutputFields
                 /\ WillResolve(outputs[i].type, outputs[i].id, outputs[i].what)'
      <4>1. PICK o : o = outputs[i]
        OBVIOUS
      <4>2. outputs'[i] = o /\ DOMAIN o = OutputFields /\ WillResolve(o.type, o.id, o.what)
        BY <1>3, <2>1, <4>1
      <4>3. WillResolve(o.type, o.id, o.what)'
        BY <1>4, <4>2
      <4> QED BY <4>2, <4>3
    <3> QED BY <1>1, <2>1, <3>1 DEF IsSeq
  <2>2. CASE \E o : Fresh(o) /\ outputs' = Append(outputs, o)
    <3>1. PICK new : Fresh(new) /\ outputs' = Append(outputs, new)
      BY <2>2
    <3>2. PICK s, t : s = outputs /\ t = outputs'
      OBVIOUS
    <3>3. IsSeq(s) /\ t = Append(s, new)
      BY <1>1, <3>1, <3>2
    <3>4. Longer(s, new, t)
      BY <3>3, AppendFacts
    <3>5. ASSUME NEW i \in DOMAIN outputs'
          PROVE  /\ DOMAIN outputs'[i] = OutputFields
                 /\ WillResolve(outputs[i].type, outputs[i].id, outputs[i].what)'
      <4>1. i \in DOMAIN t
        BY <3>2, <3>5
      <4>2. (i \in DOMAIN s /\ t[i] = s[i]) \/ t[i] = new
        BY <3>4, <4>1 DEF Longer
      <4>3. CASE i \in DOMAIN s /\ t[i] = s[i]
        <5>1. PICK o : o = s[i]
          OBVIOUS
        <5>2. outputs'[i] = o /\ DOMAIN o = OutputFields /\ WillResolve(o.type, o.id, o.what)
          BY <1>3, <3>2, <4>3, <5>1
        <5>3. WillResolve(o.type, o.id, o.what)'
          BY <1>4, <5>2
        <5> QED BY <5>2, <5>3
      <4>4. CASE t[i] = new
        <5>1. outputs'[i] = new
          BY <3>2, <4>4
        <5> QED BY <3>1, <5>1 DEF Fresh
      <4> QED BY <4>2, <4>3, <4>4
    <3>6. IsSeq(t)
      BY <3>4 DEF Longer
    <3>7. IsSeq(outputs)'
      BY <3>2, <3>6 DEF IsSeq
    <3> QED BY <3>5, <3>7
  <2> QED BY <2>1, <2>2 DEF Emitted
<1> QED BY <1>5, CallKeeps

(* What StoreWith and Lazy give a new output. *)
LEMMA StoredResolves ==
  ASSUME IsSeq(stored), UNCHANGED <<handed, next>>, NEW g, NEW what, g = MeantBy(what, Current),
         stored' = Append(stored, g), NEW type, NEW id, id = [store |-> "tiles", id |-> Len(stored)]
  PROVE  Grows /\ WillResolve(type, id, what)'
<1>1. PICK s, t, n : s = stored /\ t = stored' /\ n = Len(s)
  OBVIOUS
<1>2. IsSeq(s) /\ t = Append(s, g)
  BY <1>1
<1>3. Longer(s, g, t)
  BY <1>2, AppendFacts
<1>4. n \in Nat /\ Len(t) = n + 1 /\ t[n + 1] = g
  BY <1>1, <1>3 DEF Longer
<1>5. id.store = "tiles" /\ id.id = n
  BY <1>1
<1>6. MeantBy(what, Current)' = g
  BY DEF MeantBy, Geometry, Current
<1>7. id.id \in Nat /\ id.id < Len(t) /\ t[id.id + 1] = g
  BY <1>4, <1>5
<1>8. WillResolve(type, id, what)'
  BY <1>1, <1>5, <1>6, <1>7 DEF WillResolve
<1> QED BY <1>8 DEF Grows

(* Layer(): which geometry an object of each kind starts from. *)
LEMMA BaseFacts ==
  ASSUME LuaAssumption, LuaTypeOK, ObjectSet, NEW area, NEW type, type = GeomType(area), NEW kind, kind = BaseKind(type)
  PROVE  /\ \/ type = "POINT" /\ kind = "point" /\ Current.kind = "node" /\ ~isRelation
            \/ type = "LINESTRING" /\ kind = "linestring" /\ Current.kind = "way" /\ ~isRelation
            \/ type = "POLYGON" /\ kind = "linestring" /\ Current.kind = "way" /\ ~isRelation
            \/ type = "MULTILINESTRING" /\ kind = "multilinestring" /\ Current.kind = "relation" /\ isRelation
            \/ type = "POLYGON" /\ kind = "multipolygon" /\ Current.kind = "relation" /\ isRelation
         /\ kind # "point" => kind \in CacheKinds /\ Source(kind) = Current
<1>1. Current.kind \in {"node", "way", "relation"}
  BY CurrentFacts DEF ObjectSet
<1>2. isWay = (Current.kind # "node") /\ isRelation = (Current.kind = "relation")
  BY DEF ObjectSet
<1>3. llVec = (IF Current.kind = "way" THEN Current ELSE Null)
      /\ wayVecs = (IF Current.kind = "relation" THEN Current ELSE Null)
  BY DEF ObjectSet
<1>4. CASE Current.kind = "node"
  <2>1. ~isWay /\ ~isRelation
    BY <1>2, <1>4
  <2>2. type = "POINT" /\ kind = "point"
    BY <2>1 DEF GeomType, BaseKind
  <2> QED BY <1>4, <2>1, <2>2
<1>5. CASE Current.kind = "way"
  <2>1. isWay /\ ~isRelation
    BY <1>2, <1>5
  <2>2. type \in {"LINESTRING", "POLYGON"} /\ kind = "linestring"
    BY <2>1 DEF GeomType, BaseKind
  <2>3. Source(kind) = Current
    BY <1>3, <1>5, <2>2 DEF Source
  <2> QED BY <1>5, <2>1, <2>2, <2>3 DEF CacheKinds
<1>6. CASE Current.kind = "relation"
  <2>1. isWay /\ isRelation
    BY <1>2, <1>6
  <2>2. (type = "MULTILINESTRING" /\ kind = "multilinestring") \/ (type = "POLYGON" /\ kind = "multipolygon")
    BY <2>1 DEF GeomType, BaseKind
  <2>3. Source(kind) = Current
    BY <1>3, <1>6, <2>2 DEF Source
  <2> QED BY <1>6, <2>1, <2>2, <2>3 DEF CacheKinds
<1> QED BY <1>1, <1>4, <1>5, <1>6

LEMMA OutputFacts ==
  ASSUME NEW type, NEW layer, NEW id, NEW what, NEW o, o = Output(type, layer, id, what)
  PROVE  /\ DOMAIN o = OutputFields /\ o.attributes = <<>> /\ o.asked = <<>>
         /\ o.type = type /\ o.id = id /\ o.what = what
BY DEF Output, OutputFields

(* The id LayerTarget gives will lead to the geometry. *)
LEMMA TargetResolves ==
  ASSUME LuaAssumption, LuaTypeOK, ObjectSet, UNCHANGED <<handed, next>>, nodeStore' = nodeStore,
         NEW area, NEW type, type = GeomType(area), NEW kind, kind = BaseKind(type),
         NEW c, c.value = Geometry(kind, Current.id),
         NEW s, s = LayerTarget(type, c), stored' = s.stored, wayEmitted' = (wayEmitted \/ s.ids.store = "way")
  PROVE  Grows /\ WillResolve(type, s.ids, kind)'
<1>1. IsSeq(stored)
  BY DEF LuaTypeOK
<1>2. /\ \/ type = "POINT" /\ kind = "point" /\ Current.kind = "node" /\ ~isRelation
         \/ type = "LINESTRING" /\ kind = "linestring" /\ Current.kind = "way" /\ ~isRelation
         \/ type = "POLYGON" /\ kind = "linestring" /\ Current.kind = "way" /\ ~isRelation
         \/ type = "MULTILINESTRING" /\ kind = "multilinestring" /\ Current.kind = "relation" /\ isRelation
         \/ type = "POLYGON" /\ kind = "multipolygon" /\ Current.kind = "relation" /\ isRelation
  BY BaseFacts
<1>3. Current' = Current
  BY DEF Current
<1>4. CASE type = "POINT" /\ ~MaterializeGeometries
  <2>1. s = Lazy("node")
    BY <1>4 DEF LayerTarget
  <2>2. s.ids.store = "node" /\ s.ids.id = Current.id /\ s.stored = stored
    BY <1>4, <2>1 DEF Lazy, ObjectSet
  <2>3. kind = "point" /\ Current.kind = "node"
    BY <1>2, <1>4
  <2> QED BY <1>3, <2>2, <2>3 DEF Grows, WillResolve
<1>5. CASE type \in {"LINESTRING", "POLYGON"} /\ ~isRelation /\ ~MaterializeGeometries /\ CorrectGeometry("linestring") = "Valid"
  <2>1. s = Lazy("way")
    BY <1>5 DEF LayerTarget
  <2>2. s.ids.store = "way" /\ s.ids.id = Current.id /\ s.stored = stored
    BY <1>5, <2>1 DEF Lazy, ObjectSet
  <2>3. kind = "linestring" /\ Current.kind = "way" /\ type # "POINT"
    BY <1>2, <1>5
  <2>4. Current.validity # "Corrected" /\ wayEmitted'
    BY <1>5, <2>2 DEF CorrectGeometry
  <2> QED BY <1>3, <2>2, <2>3, <2>4 DEF Grows, WillResolve
<1>6. CASE /\ ~(type = "POINT" /\ ~MaterializeGeometries)
           /\ ~(type \in {"LINESTRING", "POLYGON"} /\ ~isRelation /\ ~MaterializeGeometries /\ CorrectGeometry("linestring") = "Valid")
  <2>1. PICK g : g = IF CorrectGeometry(BaseKind(type)) = "Corrected" THEN [c.value EXCEPT !.kind = "corrected"] ELSE c.value
    OBVIOUS
  <2>2. s = StoreWith(g)
    BY <1>6, <2>1 DEF LayerTarget
  <2>3. g = MeantBy(kind, Current)
    <3>1. [Geometry(kind, Current.id) EXCEPT !.kind = "corrected"] = Geometry("corrected", Current.id)
      BY DEF Geometry
    <3>2. g = IF kind # "point" /\ Current.validity = "Corrected" THEN Geometry("corrected", Current.id) ELSE Geometry(kind, Current.id)
      BY <2>1, <3>1 DEF CorrectGeometry
    <3>3. kind \notin {"label", "centroid"}
      BY <1>2
    <3> QED BY <3>2, <3>3 DEF MeantBy
  <2>4. s.ids = [store |-> "tiles", id |-> Len(stored)] /\ s.stored = Append(stored, g)
    BY <2>2 DEF StoreWith
  <2>5. PICK id : id = s.ids
    OBVIOUS
  <2>6. id = [store |-> "tiles", id |-> Len(stored)] /\ stored' = Append(stored, g)
    BY <2>4, <2>5
  <2>7. Grows /\ WillResolve(type, id, kind)'
    BY <1>1, <2>3, <2>6, StoredResolves
  <2> QED BY <2>5, <2>7
<1> QED BY <1>4, <1>5, <1>6

LEMMA LayerKeeps ==
  ASSUME LuaAssumption, GeometryInv, Calling, NEW layer, NEW area, Layer(layer, area)
  PROVE  GeometryInv' /\ Emitted
<1>1. LuaTypeOK /\ ObjectSet /\ IsSeq(stored)
  BY DEF GeometryInv, Calling, LuaTypeOK
<1>2. PICK type, kind : type = GeomType(area) /\ kind = BaseKind(type)
  OBVIOUS
<1>3. PICK c : c = IF kind = "point" THEN [value |-> Geometry("point", Current.id), cache |-> cache, inited |-> inited]
                   ELSE Cached(kind)
  OBVIOUS
<1>4. kind # "point" => kind \in CacheKinds /\ Source(kind) = Current
  BY <1>1, <1>2, BaseFacts
<1>5. c.value = Geometry(kind, Current.id)
  BY <1>1, <1>3, <1>4, CachedFacts
<1>6. KeepCache(c) => CachesKept
  <2>1. CASE kind = "point"
    <3>1. c.cache = cache /\ c.inited = inited
      BY <1>3, <2>1
    <3> QED BY <1>1, <3>1, CachesStay DEF KeepCache
  <2>2. CASE kind # "point"
    BY <1>1, <1>3, <1>4, <2>2, CachesFilled
  <2> QED BY <2>1, <2>2
<1>7. UNCHANGED <<handed, next>> /\ nodeStore' = nodeStore /\ nodeStore \subseteq nodeStore'
  BY DEF Calling
<1>8. CASE Reuses(type)
  <2>1. PICK o : o = Output(type, layer, lastStored.id, kind)
    OBVIOUS
  <2>2. /\ outputs' = Append(outputs, o) /\ UNCHANGED <<cache, inited, lastStored, stored, wayEmitted, skipped>>
        /\ outputKeys' = {}
    BY <1>2, <1>8, <2>1 DEF Layer, geometry
  <2>3. PICK id : id = lastStored.id
    OBVIOUS
  <2>4. WillResolve(type, id, kind)
    BY <1>1, <1>2, <1>8, <2>3 DEF Reuses, ObjectSet
  <2>5. Grows /\ (wayEmitted => wayEmitted')
    BY <2>2 DEF Grows
  <2>6. WillResolve(type, id, kind)'
    BY <1>1, <1>7, <2>4, <2>5, PromisesKept
  <2>7. Fresh(o)
    <3>1. /\ DOMAIN o = OutputFields /\ o.attributes = <<>> /\ o.asked = <<>>
          /\ o.type = type /\ o.id = id /\ o.what = kind
      BY <2>1, <2>3, OutputFacts
    <3> QED BY <2>6, <3>1 DEF Fresh
  <2>8. Emitted
    BY <2>2, <2>7 DEF Emitted
  <2>9. CachesKept /\ lastStored' = lastStored
    BY <1>1, <2>2, CachesStay
  <2> QED BY <2>5, <2>8, <2>9, EmittedKeeps
<1>9. CASE ~Reuses(type) /\ CorrectGeometry(kind) = "Invalid"
  <2>1. /\ KeepCache(c) /\ outputKeys' = {} /\ WritesNothing
    BY <1>2, <1>3, <1>9 DEF Layer
  <2>2. Grows /\ (wayEmitted => wayEmitted') /\ lastStored' = lastStored /\ Emitted
    BY <2>1 DEF WritesNothing, Grows, Emitted
  <2>3. CachesKept
    BY <1>6, <2>1
  <2> QED BY <2>2, <2>3, EmittedKeeps
<1>10. CASE ~Reuses(type) /\ CorrectGeometry(kind) # "Invalid"
  <2>1. PICK s : s = LayerTarget(type, c)
    OBVIOUS
  <2>2. PICK o : o = Output(type, layer, s.ids, kind)
    OBVIOUS
  <2>3. /\ KeepCache(c) /\ outputKeys' = {} /\ Emit(s, o)
        /\ wayEmitted' = (wayEmitted \/ s.ids.store = "way")
        /\ lastStored' = (IF type \in {"LINESTRING", "MULTILINESTRING"} THEN [id |-> s.ids, type |-> type] ELSE lastStored)
        /\ skipped' = skipped
    BY <1>2, <1>3, <1>10, <2>1, <2>2 DEF Layer
  <2>4. outputs' = Append(outputs, o) /\ stored' = s.stored /\ (wayEmitted => wayEmitted')
    BY <2>3 DEF Emit
  <2>5. Grows /\ WillResolve(type, s.ids, kind)'
    BY <1>1, <1>2, <1>5, <1>7, <2>1, <2>3, <2>4, TargetResolves
  <2>6. Fresh(o)
    <3>1. /\ DOMAIN o = OutputFields /\ o.attributes = <<>> /\ o.asked = <<>>
          /\ o.type = type /\ o.id = s.ids /\ o.what = kind
      BY <2>2, OutputFacts
    <3> QED BY <2>5, <3>1 DEF Fresh
  <2>7. Emitted
    BY <2>3, <2>4, <2>6 DEF Emitted
  <2>8. \/ lastStored' = lastStored
        \/ /\ DOMAIN lastStored' = {"id", "type"} /\ lastStored'.type \in {"LINESTRING", "MULTILINESTRING"}
           /\ WillResolve(lastStored.type, lastStored.id, BaseKind(lastStored.type))'
    <3>1. CASE type \in {"LINESTRING", "MULTILINESTRING"}
      <4>1. PICK l : l = lastStored'
        OBVIOUS
      <4>2. l = [id |-> s.ids, type |-> type]
        BY <2>3, <3>1, <4>1
      <4>3. DOMAIN l = {"id", "type"} /\ l.id = s.ids /\ l.type = type
        BY <4>2
      <4>4. BaseKind(type)' = kind
        BY <1>2 DEF BaseKind, Calling
      <4>5. BaseKind(l.type)' = kind
        BY <4>3, <4>4
      <4>6. WillResolve(l.type, l.id, BaseKind(l.type))'
        BY <2>5, <4>3, <4>5
      <4> QED BY <3>1, <4>1, <4>3, <4>6
    <3>2. CASE type \notin {"LINESTRING", "MULTILINESTRING"}
      BY <2>3, <3>2
    <3> QED BY <3>1, <3>2
  <2>9. CachesKept
    BY <1>6, <2>3
  <2> QED BY <2>4, <2>5, <2>7, <2>8, <2>9, EmittedKeeps
<1> QED BY <1>8, <1>9, <1>10

(* The same of the id CentroidTarget gives. *)
LEMMA CentroidResolves ==
  ASSUME LuaAssumption, LuaTypeOK, ObjectSet, UNCHANGED <<handed, next>>, nodeStore' = nodeStore,
         NEW algorithm, NEW label, NEW what, NEW point,
         \/ label # 0 /\ label = Current.label /\ label \in nodeStore /\ what = "label" /\ isRelation
         \/ label = 0 /\ what = (IF isWay THEN "centroid" ELSE "point"),
         point = MeantBy(what, Current),
         NEW s, s = CentroidTarget(algorithm, label, point), stored' = s.stored,
         wayEmitted' = (wayEmitted \/ s.ids.store = "way")
  PROVE  Grows /\ WillResolve("POINT", s.ids, what)'
<1>1. IsSeq(stored)
  BY DEF LuaTypeOK
<1>2. Current' = Current
  BY DEF Current
<1>3. Current.kind \in {"node", "way", "relation"} /\ isWay = (Current.kind # "node") /\ isRelation = (Current.kind = "relation")
  BY CurrentFacts DEF ObjectSet
<1>4. CASE MaterializeGeometries \/ (isRelation /\ label = 0) \/ (isWay /\ algorithm # "centroid")
  <2>1. s = StoreWith(point)
    BY <1>4 DEF CentroidTarget
  <2>2. s.ids = [store |-> "tiles", id |-> Len(stored)] /\ s.stored = Append(stored, point)
    BY <2>1 DEF StoreWith
  <2>3. PICK id : id = s.ids
    OBVIOUS
  <2>4. id = [store |-> "tiles", id |-> Len(stored)] /\ stored' = Append(stored, point)
    BY <2>2, <2>3
  <2>5. Grows /\ WillResolve("POINT", id, what)'
    BY <1>1, <2>4, StoredResolves
  <2> QED BY <2>3, <2>5
<1>5. CASE ~(MaterializeGeometries \/ (isRelation /\ label = 0) \/ (isWay /\ algorithm # "centroid"))
  <2>1. originalOsmID = Current.id
    BY <1>5 DEF ObjectSet
  <2>2. CASE label # 0
    <3>1. s = [Lazy("node") EXCEPT !.ids.id = label]
      BY <1>5, <2>2 DEF CentroidTarget
    <3>2. s.ids.store = "node" /\ s.ids.id = label /\ s.stored = stored
      BY <3>1 DEF Lazy
    <3> QED BY <1>2, <2>2, <3>2 DEF Grows, WillResolve
  <2>3. CASE label = 0 /\ ~isWay
    <3>1. s = Lazy("node")
      BY <1>5, <2>3 DEF CentroidTarget
    <3>2. s.ids.store = "node" /\ s.ids.id = Current.id /\ s.stored = stored
      BY <2>1, <3>1 DEF Lazy
    <3>3. what = "point" /\ Current.kind = "node"
      BY <1>3, <2>3
    <3> QED BY <1>2, <3>2, <3>3 DEF Grows, WillResolve
  <2>4. CASE label = 0 /\ isWay
    <3>1. s = Lazy("way")
      BY <1>5, <2>4 DEF CentroidTarget
    <3>2. s.ids.store = "way" /\ s.ids.id = Current.id /\ s.stored = stored
      BY <2>1, <3>1 DEF Lazy
    <3>3. what = "centroid" /\ Current.kind = "way" /\ wayEmitted'
      BY <1>3, <1>5, <2>4, <3>2
    <3> QED BY <1>2, <3>2, <3>3 DEF Grows, WillResolve
  <2> QED BY <2>2, <2>3, <2>4
<1> QED BY <1>4, <1>5

LEMMA CentroidKeeps ==
  ASSUME LuaAssumption, GeometryInv, Calling, NEW layer, NEW algorithm, NEW role, LayerAsCentroid(layer, algorithm, role)
  PROVE  GeometryInv' /\ Emitted
<1>1. LuaTypeOK /\ ObjectSet /\ IsSeq(stored)
  BY DEF GeometryInv, Calling, LuaTypeOK
<1>2. Current.kind \in {"node", "way", "relation"} /\ isWay = (Current.kind # "node") /\ isRelation = (Current.kind = "relation")
  BY <1>1, CurrentFacts DEF ObjectSet
<1>3. PICK label : label = IF isRelation /\ role THEN Current.label ELSE 0
  OBVIOUS
<1>4. PICK kind : kind = IF isRelation THEN "multipolygon" ELSE "linestring"
  OBVIOUS
<1>5. PICK c : c = Cached(kind)
  OBVIOUS
<1>6. PICK what : what = IF label # 0 THEN "label" ELSE IF isWay THEN "centroid" ELSE "point"
  OBVIOUS
<1>7. PICK point : point = IF label # 0 THEN Geometry("point", label)
                           ELSE IF isWay THEN Geometry("centroid", c.value.of) ELSE Geometry("point", Current.id)
  OBVIOUS
<1>8. PICK s : s = CentroidTarget(algorithm, label, point)
  OBVIOUS
<1>9. PICK o : o = Output("POINT", layer, s.ids, what)
  OBVIOUS
<1>10. /\ outputKeys' = {}
       /\ IF label = 0 /\ isWay THEN KeepCache(c) ELSE UNCHANGED <<cache, inited>>
       /\ \/ WritesNothing
          \/ /\ label # 0 => label \in nodeStore
             /\ Emit(s, o) /\ wayEmitted' = (wayEmitted \/ s.ids.store = "way") /\ UNCHANGED <<lastStored, skipped>>
  BY <1>3, <1>4, <1>5, <1>6, <1>7, <1>8, <1>9 DEF LayerAsCentroid
<1>11. kind \in CacheKinds
  BY <1>4 DEF CacheKinds
<1>12. CachesKept
  <2>1. CASE label = 0 /\ isWay
    <3>1. KeepCache(Cached(kind))
      BY <1>5, <1>10, <2>1
    <3> QED BY <1>1, <1>11, <3>1, CachesFilled
  <2>2. CASE ~(label = 0 /\ isWay)
    BY <1>1, <1>10, <2>2, CachesStay
  <2> QED BY <2>1, <2>2
<1>13. CASE WritesNothing
  <2>1. Grows /\ (wayEmitted => wayEmitted') /\ lastStored' = lastStored /\ Emitted
    BY <1>10, <1>13 DEF WritesNothing, Grows, Emitted
  <2> QED BY <1>12, <2>1, EmittedKeeps
<1>14. CASE /\ label # 0 => label \in nodeStore
            /\ Emit(s, o) /\ wayEmitted' = (wayEmitted \/ s.ids.store = "way") /\ UNCHANGED <<lastStored, skipped>>
  <2>1. outputs' = Append(outputs, o) /\ stored' = s.stored /\ (wayEmitted => wayEmitted') /\ lastStored' = lastStored
    BY <1>14 DEF Emit
  <2>2. UNCHANGED <<handed, next>> /\ nodeStore' = nodeStore
    BY DEF Calling
  <2>3. \/ label # 0 /\ label = Current.label /\ label \in nodeStore /\ what = "label" /\ isRelation
        \/ label = 0 /\ what = (IF isWay THEN "centroid" ELSE "point")
    BY <1>3, <1>6, <1>14
  <2>4. isWay => c.value.of = Current.id
    <3>1. SUFFICES ASSUME isWay PROVE c.value.of = Current.id
      OBVIOUS
    <3>2. Source(kind) = Current
      BY <1>1, <1>2, <1>4, <3>1 DEF Source, ObjectSet
    <3>3. c.value = Geometry(kind, Current.id)
      BY <1>1, <1>5, <1>11, <3>2, CachedFacts
    <3> QED BY <3>3 DEF Geometry
  <2>5. point = MeantBy(what, Current)
    <3>1. CASE label # 0
      BY <1>7, <2>3, <3>1 DEF MeantBy
    <3>2. CASE label = 0 /\ isWay
      BY <1>7, <2>3, <2>4, <3>2 DEF MeantBy
    <3>3. CASE label = 0 /\ ~isWay
      BY <1>7, <2>3, <3>3 DEF MeantBy
    <3> QED BY <3>1, <3>2, <3>3
  <2>6. Grows /\ WillResolve("POINT", s.ids, what)'
    BY <1>1, <1>8, <1>14, <2>1, <2>2, <2>3, <2>5, CentroidResolves
  <2>7. Fresh(o)
    <3>1. /\ DOMAIN o = OutputFields /\ o.attributes = <<>> /\ o.asked = <<>>
          /\ o.type = "POINT" /\ o.id = s.ids /\ o.what = what
      BY <1>9, OutputFacts
    <3> QED BY <2>6, <3>1 DEF Fresh
  <2>8. Emitted
    BY <1>10, <1>14, <2>1, <2>7 DEF Emitted
  <2> QED BY <1>12, <2>1, <2>6, <2>8, EmittedKeeps
<1> QED BY <1>10, <1>13, <1>14

-----------------------------------------------------------------------------
(* The calls that change the output written last. *)

Replaced(s, o, t) ==
    /\ IsSeq(t) /\ Len(t) = Len(s) /\ Len(s) \in Nat \ {0} /\ DOMAIN s = 1..Len(s) /\ DOMAIN t = DOMAIN s
    /\ t[Len(s)] = o /\ \A i \in DOMAIN s : i # Len(s) => t[i] = s[i]

LEMMA ReplacedFacts ==
  ASSUME NEW s, IsSeq(s), s # <<>>, NEW o, NEW t, t = [s EXCEPT ![Len(s)] = o]
  PROVE  Replaced(s, o, t)
<1>1. Len(s) \in Nat /\ DOMAIN s = 1..Len(s)
  BY SeqFacts
<1>2. Len(s) # 0
  BY EmptySeq DEF IsSeq
<1>3. PICK n : n = Len(s)
  OBVIOUS
<1>4. n \in Nat \ {0} /\ DOMAIN s = 1..n /\ t = [s EXCEPT ![n] = o] /\ n \in 1..n
  BY <1>1, <1>2, <1>3
<1>5. DOMAIN t = 1..n /\ t[n] = o /\ \A i \in 1..n : i # n => t[i] = s[i]
  BY <1>4
<1>6. t \in [1..n -> Range(t)]
  <2>1. t = [i \in 1..n |-> t[i]]
    BY <1>4
  <2> QED BY <1>5, <2>1 DEF Range
<1>7. t \in Seq(Range(t)) /\ Len(t) = n
  BY <1>4, <1>6, FunctionIsSeq
<1> QED BY <1>3, <1>4, <1>5, <1>7 DEF Replaced, IsSeq

(* The output keeps its geometry. *)
LEMMA ChangedKeeps ==
  ASSUME GeometryInv, Calling, UNCHANGED <<cache, inited, lastStored, stored, wayEmitted>>,
         outputs # <<>>, NEW o, Replaced(outputs, o, outputs'), DOMAIN o = OutputFields,
         o.type = outputs[Len(outputs)].type, o.id = outputs[Len(outputs)].id, o.what = outputs[Len(outputs)].what
  PROVE  GeometryInv'
<1>1. LuaTypeOK /\ ObjectSet /\ IsSeq(stored) /\ IsSeq(outputs)
  BY DEF GeometryInv, Calling, LuaTypeOK
<1>2. UNCHANGED <<handed, next>> /\ nodeStore \subseteq nodeStore' /\ Grows /\ (wayEmitted => wayEmitted')
  BY DEF Calling, Grows
<1>3. CachesKept
  BY <1>1, CachesStay
<1>4. ASSUME NEW i \in DOMAIN outputs'
      PROVE  /\ DOMAIN outputs'[i] = OutputFields
             /\ WillResolve(outputs[i].type, outputs[i].id, outputs[i].what)'
  <2>1. i \in DOMAIN outputs /\ (outputs'[i] = outputs[i] \/ (i = Len(outputs) /\ outputs'[i] = o))
    BY <1>4 DEF Replaced
  <2>2. PICK type, id, what : type = outputs[i].type /\ id = outputs[i].id /\ what = outputs[i].what
    OBVIOUS
  <2>3. outputs'[i].type = type /\ outputs'[i].id = id /\ outputs'[i].what = what
    BY <2>1, <2>2
  <2>4. DOMAIN outputs[i] = OutputFields /\ WillResolve(type, id, what)
    BY <1>1, <2>1, <2>2 DEF LuaTypeOK, ObjectSet
  <2>5. WillResolve(type, id, what)'
    BY <1>1, <1>2, <2>4, PromisesKept
  <2> QED BY <2>1, <2>3, <2>4, <2>5
<1>5. IsSeq(outputs)'
  BY DEF Replaced, IsSeq
<1> QED BY <1>2, <1>3, <1>4, <1>5, CallKeeps

LEMMA NothingChanges ==
  ASSUME GeometryInv, Calling, UNCHANGED <<outputs, cache, inited, lastStored, stored, wayEmitted>>
  PROVE  GeometryInv'
<1>1. LuaTypeOK /\ ObjectSet /\ IsSeq(stored) /\ IsSeq(outputs)
  BY DEF GeometryInv, Calling, LuaTypeOK
<1>2. UNCHANGED <<handed, next>> /\ nodeStore \subseteq nodeStore' /\ Grows /\ (wayEmitted => wayEmitted')
  BY DEF Calling, Grows
<1>3. CachesKept
  BY <1>1, CachesStay
<1>4. ASSUME NEW i \in DOMAIN outputs'
      PROVE  /\ DOMAIN outputs'[i] = OutputFields
             /\ WillResolve(outputs[i].type, outputs[i].id, outputs[i].what)'
  <2>2. PICK type, id, what : type = outputs[i].type /\ id = outputs[i].id /\ what = outputs[i].what
    OBVIOUS
  <2>4. DOMAIN outputs[i] = OutputFields /\ WillResolve(type, id, what)
    BY <1>1, <2>2 DEF LuaTypeOK, ObjectSet
  <2>5. WillResolve(type, id, what)'
    BY <1>1, <1>2, <2>4, PromisesKept
  <2> QED BY <2>2, <2>4, <2>5
<1>5. IsSeq(outputs)'
  BY <1>1 DEF IsSeq
<1> QED BY <1>2, <1>3, <1>4, <1>5, CallKeeps

(* An attribute: what the output is afterwards. *)
LEMMA AttributeFacts ==
  ASSUME LuaTypeOK, outputs # <<>>, NEW key, NEW value, Attribute(key, value)
  PROVE  \E o : /\ Replaced(outputs, o, outputs') /\ DOMAIN o = OutputFields
                /\ o.type = outputs[Len(outputs)].type /\ o.id = outputs[Len(outputs)].id
                /\ o.what = outputs[Len(outputs)].what
                /\ \E rest \in RemoveAttributeIfNeeded(outputs[Len(outputs)].attributes, key) :
                     o.attributes = Append(rest, <<key, value>>)
                /\ o.asked = Append(outputs[Len(outputs)].asked, <<key, value>>)
<1>1. IsSeq(outputs) /\ \A i \in DOMAIN outputs : DOMAIN outputs[i] = OutputFields
  BY DEF LuaTypeOK
<1>2. PICK s, n, p, t : s = outputs /\ n = Len(s) /\ p = s[n] /\ t = outputs'
  OBVIOUS
<1>3. PICK rest : /\ rest \in RemoveAttributeIfNeeded(Last(s).attributes, key)
                  /\ t = [s EXCEPT ![n].attributes = Append(rest, <<key, value>>), ![n].asked = Append(@, <<key, value>>)]
  BY <1>2 DEF Attribute
<1>4. PICK a, q : a = Append(rest, <<key, value>>) /\ q = Append(p.asked, <<key, value>>)
  OBVIOUS
<1>5. Len(s) \in Nat /\ DOMAIN s = 1..Len(s) /\ Len(s) # 0
  BY <1>1, <1>2, SeqFacts, EmptySeq DEF IsSeq
<1>6. n \in DOMAIN s /\ DOMAIN p = OutputFields
  BY <1>1, <1>2, <1>5
<1>7. PICK o : o = [p EXCEPT !.attributes = a, !.asked = q]
  OBVIOUS
<1>8. /\ DOMAIN o = OutputFields /\ o.type = p.type /\ o.id = p.id /\ o.what = p.what
      /\ o.attributes = a /\ o.asked = q
  BY <1>6, <1>7 DEF OutputFields
<1>9. t = [s EXCEPT ![n] = o]
  BY <1>2, <1>3, <1>4, <1>6, <1>7 DEF OutputFields
<1>10. Replaced(s, o, t)
  BY <1>1, <1>2, <1>9, ReplacedFacts
<1>11. Last(s) = p
  BY <1>2 DEF Last
<1> QED BY <1>2, <1>3, <1>4, <1>8, <1>10, <1>11

LEMMA AttributeKeeps ==
  ASSUME GeometryInv, Calling, NEW key, NEW value, Attribute(key, value)
  PROVE  GeometryInv'
<1>1. UNCHANGED <<cache, inited, lastStored, stored, wayEmitted>>
  BY DEF Attribute, geometry
<1>2. CASE outputs = <<>>
  <2>1. outputs' = outputs
    BY <1>2 DEF Attribute
  <2> QED BY <1>1, <2>1, NothingChanges
<1>3. CASE outputs # <<>>
  <2>1. PICK o : /\ Replaced(outputs, o, outputs') /\ DOMAIN o = OutputFields
                 /\ o.type = outputs[Len(outputs)].type /\ o.id = outputs[Len(outputs)].id
                 /\ o.what = outputs[Len(outputs)].what
    BY <1>3, AttributeFacts DEF GeometryInv
  <2> QED BY <1>1, <1>3, <2>1, ChangedKeeps
<1> QED BY <1>2, <1>3

LEMMA ZoomFacts ==
  ASSUME LuaTypeOK, outputs # <<>>, NEW field, NEW z, SetZoom(field, z)
  PROVE  \E o : /\ Replaced(outputs, o, outputs') /\ DOMAIN o = OutputFields
                /\ o.type = outputs[Len(outputs)].type /\ o.id = outputs[Len(outputs)].id
                /\ o.what = outputs[Len(outputs)].what
                /\ o.attributes = outputs[Len(outputs)].attributes /\ o.asked = outputs[Len(outputs)].asked
<1>1. IsSeq(outputs) /\ \A i \in DOMAIN outputs : DOMAIN outputs[i] = OutputFields
  BY DEF LuaTypeOK
<1>2. PICK s, n, p, t : s = outputs /\ n = Len(s) /\ p = s[n] /\ t = outputs'
  OBVIOUS
<1>3. Len(s) \in Nat /\ DOMAIN s = 1..Len(s) /\ Len(s) # 0
  BY <1>1, <1>2, SeqFacts, EmptySeq DEF IsSeq
<1>4. n \in DOMAIN s /\ DOMAIN p = OutputFields
  BY <1>1, <1>2, <1>3
<1>5. \/ t = [s EXCEPT ![n].minZoom = z]
      \/ t = [s EXCEPT ![n].zOrder = z]
  BY <1>2 DEF SetZoom
<1>6. PICK o : /\ t = [s EXCEPT ![n] = o] /\ DOMAIN o = OutputFields
               /\ o.type = p.type /\ o.id = p.id /\ o.what = p.what
               /\ o.attributes = p.attributes /\ o.asked = p.asked
  <2>1. CASE t = [s EXCEPT ![n].minZoom = z]
    <3>1. PICK o : o = [p EXCEPT !.minZoom = z]
      OBVIOUS
    <3>2. /\ DOMAIN o = OutputFields /\ o.type = p.type /\ o.id = p.id /\ o.what = p.what
          /\ o.attributes = p.attributes /\ o.asked = p.asked
      BY <1>4, <3>1 DEF OutputFields
    <3>3. t = [s EXCEPT ![n] = o]
      BY <1>2, <1>4, <2>1, <3>1
    <3> QED BY <3>2, <3>3
  <2>2. CASE t = [s EXCEPT ![n].zOrder = z]
    <3>1. PICK o : o = [p EXCEPT !.zOrder = z]
      OBVIOUS
    <3>2. /\ DOMAIN o = OutputFields /\ o.type = p.type /\ o.id = p.id /\ o.what = p.what
          /\ o.attributes = p.attributes /\ o.asked = p.asked
      BY <1>4, <3>1 DEF OutputFields
    <3>3. t = [s EXCEPT ![n] = o]
      BY <1>2, <1>4, <2>2, <3>1
    <3> QED BY <3>2, <3>3
  <2> QED BY <1>5, <2>1, <2>2
<1>7. Replaced(s, o, t)
  BY <1>1, <1>2, <1>6, ReplacedFacts
<1> QED BY <1>2, <1>6, <1>7

LEMMA ZoomKeeps ==
  ASSUME GeometryInv, Calling, NEW field, NEW z, SetZoom(field, z)
  PROVE  GeometryInv'
<1>1. UNCHANGED <<cache, inited, lastStored, stored, wayEmitted>>
  BY DEF SetZoom, geometry
<1>2. CASE outputs = <<>>
  <2>1. outputs' = outputs
    BY <1>2 DEF SetZoom
  <2> QED BY <1>1, <2>1, NothingChanges
<1>3. CASE outputs # <<>>
  <2>1. PICK o : /\ Replaced(outputs, o, outputs') /\ DOMAIN o = OutputFields
                 /\ o.type = outputs[Len(outputs)].type /\ o.id = outputs[Len(outputs)].id
                 /\ o.what = outputs[Len(outputs)].what
    BY <1>3, ZoomFacts DEF GeometryInv
  <2> QED BY <1>1, <1>3, <2>1, ChangedKeeps
<1> QED BY <1>2, <1>3

LEMMA QueryKeeps ==
  ASSUME GeometryInv, Calling, NEW query, Query(query)
  PROVE  GeometryInv'
<1>1. LuaTypeOK /\ ObjectSet /\ IsSeq(stored) /\ IsSeq(outputs)
  BY DEF GeometryInv, Calling, LuaTypeOK
<1>2. PICK kind : kind = QueriedKind(query)
  OBVIOUS
<1>3. UNCHANGED <<outputs, lastStored, stored, wayEmitted>> /\ (UNCHANGED <<cache, inited>> \/ (kind # "point" /\ kind # "none" /\ KeepCache(Cached(kind))))
  BY <1>2 DEF Query, written
<1>4. kind \in CacheKinds \cup {"point", "none"}
  BY <1>2 DEF QueriedKind, CacheKinds
<1>5. CachesKept
  <2>1. CASE UNCHANGED <<cache, inited>>
    BY <1>1, <2>1, CachesStay
  <2>2. CASE kind # "point" /\ kind # "none" /\ KeepCache(Cached(kind))
    <3>1. kind \in CacheKinds
      BY <1>4, <2>2
    <3> QED BY <1>1, <2>2, <3>1, CachesFilled
  <2> QED BY <1>3, <2>1, <2>2
<1>6. UNCHANGED <<handed, next>> /\ nodeStore \subseteq nodeStore' /\ Grows /\ (wayEmitted => wayEmitted')
  BY <1>3 DEF Calling, Grows
<1>7. ASSUME NEW i \in DOMAIN outputs'
      PROVE  /\ DOMAIN outputs'[i] = OutputFields
             /\ WillResolve(outputs[i].type, outputs[i].id, outputs[i].what)'
  <2>1. PICK type, id, what : type = outputs[i].type /\ id = outputs[i].id /\ what = outputs[i].what
    OBVIOUS
  <2>2. DOMAIN outputs[i] = OutputFields /\ WillResolve(type, id, what)
    BY <1>1, <1>3, <2>1 DEF LuaTypeOK, ObjectSet
  <2>3. WillResolve(type, id, what)'
    BY <1>1, <1>6, <2>2, PromisesKept
  <2> QED BY <1>3, <2>1, <2>2, <2>3
<1>8. IsSeq(outputs)'
  BY <1>1, <1>3 DEF IsSeq
<1> QED BY <1>3, <1>5, <1>6, <1>7, <1>8, CallKeeps

LEMMA AnyCall ==
  ASSUME LuaAssumption, NEW c \in Calls, Call(c)
  PROVE  /\ Calling
         /\ \/ \E layer, area : Layer(layer, area)
            \/ \E layer, algorithm, role : LayerAsCentroid(layer, algorithm, role)
            \/ \E key, value : Attribute(key, value)
            \/ \E field, z : SetZoom(field, z)
            \/ \E query : Query(query)
            \/ UNCHANGED <<crashed, geometry, written>>
<1>1. /\ running /\ UNCHANGED <<handed, next, running, isWay, isRelation, isClosed, llVec, wayVecs, kept>>
      /\ originalOsmID' = IF c.call = "ModifyId" THEN c.id ELSE originalOsmID
  BY DEF Call
<1>2. Calling
  BY <1>1 DEF Calling, kept, LuaAssumption
<1>3. c.call \in {"Layer", "LayerAsCentroid", "Attribute", "Zoom", "Query", "ModifyId"}
  BY DEF LuaAssumption
<1>4. /\ c.call = "Layer" => Layer(c.layer, c.area)
      /\ c.call = "LayerAsCentroid" => LayerAsCentroid(c.layer, c.algorithm, c.role)
      /\ c.call = "Attribute" => Attribute(c.key, c.value)
      /\ c.call = "Zoom" => SetZoom(c.field, c.z)
      /\ c.call = "Query" => Query(c.query)
      /\ c.call = "ModifyId" => UNCHANGED <<crashed, geometry, written>>
  BY DEF Call
<1> QED BY <1>2, <1>3, <1>4

LEMMA CallStep ==
  ASSUME LuaAssumption, GeometryInv, NEW c \in Calls, Call(c)
  PROVE  GeometryInv'
<1>1. Calling
  BY AnyCall
<1>2. ASSUME NEW layer, NEW area, Layer(layer, area) PROVE GeometryInv'
  BY <1>1, <1>2, LayerKeeps
<1>3. ASSUME NEW layer, NEW algorithm, NEW role, LayerAsCentroid(layer, algorithm, role) PROVE GeometryInv'
  BY <1>1, <1>3, CentroidKeeps
<1>4. ASSUME NEW key, NEW value, Attribute(key, value) PROVE GeometryInv'
  BY <1>1, <1>4, AttributeKeeps
<1>5. ASSUME NEW field, NEW z, SetZoom(field, z) PROVE GeometryInv'
  BY <1>1, <1>5, ZoomKeeps
<1>6. ASSUME NEW query, Query(query) PROVE GeometryInv'
  BY <1>1, <1>6, QueryKeeps
<1>7. CASE UNCHANGED <<crashed, geometry, written>>
  BY <1>1, <1>7, NothingChanges DEF geometry, written
<1> QED BY <1>2, <1>3, <1>4, <1>5, <1>6, <1>7, AnyCall

-----------------------------------------------------------------------------
(* The function returns: what was promised is kept.                        *)
LEMMA ReturnSettles ==
  ASSUME LuaTypeOK, ObjectSet, FunctionReturns, NEW i \in DOMAIN outputs, NEW e,
         e.output = outputs[i], e.of = Current
  PROVE  Settled(e)'
<1>1. PICK o, x : o = outputs[i] /\ x = Current
  OBVIOUS
<1>2. e.output = o /\ e.of = x
  BY <1>1
<1>3. WillResolve(o.type, o.id, o.what)
  BY <1>1 DEF ObjectSet
<1>4. outputs # <<>>
  OBVIOUS
<1>5. /\ nodeStore \subseteq nodeStore' /\ wayStore \subseteq wayStore' /\ stored' = stored
      /\ (Current.kind = "node" => Current.id \in nodeStore')
      /\ (Current.kind = "way" /\ wayEmitted => Current.id \in wayStore')
  BY <1>4 DEF FunctionReturns, written
<1>6. Meant(e)' = MeantBy(o.what, x)
  BY <1>2 DEF Meant, MeantBy, Geometry
<1>7. CASE o.id.store = "tiles" /\ o.id.id \in Nat /\ o.id.id < Len(stored) /\ stored[o.id.id + 1] = MeantBy(o.what, Current)
  <2>1. Resolve(e.output)' = stored'[o.id.id + 1]
    BY <1>2, <1>7 DEF Resolve
  <2> QED BY <1>1, <1>2, <1>5, <1>6, <1>7, <2>1 DEF Settled
<1>8. CASE o.id.store = "node" /\ o.what = "label" /\ o.id.id = Current.label /\ o.id.id \in nodeStore
  <2>1. o.id.id \in nodeStore'
    BY <1>5, <1>8
  <2>2. Resolve(e.output)' = Geometry("point", o.id.id)
    BY <1>2, <1>8, <2>1 DEF Resolve, Geometry
  <2>3. MeantBy(o.what, x) = Geometry("point", o.id.id)
    BY <1>1, <1>8 DEF MeantBy
  <2> QED BY <1>2, <1>6, <1>8, <2>1, <2>2, <2>3 DEF Settled
<1>9. CASE o.id.store = "node" /\ o.what = "point" /\ o.id.id = Current.id /\ Current.kind = "node"
  <2>1. o.id.id \in nodeStore'
    BY <1>5, <1>9
  <2>2. Resolve(e.output)' = Geometry("point", o.id.id)
    BY <1>2, <1>9, <2>1 DEF Resolve, Geometry
  <2>3. MeantBy(o.what, x) = Geometry("point", o.id.id)
    BY <1>1, <1>9 DEF MeantBy
  <2> QED BY <1>2, <1>6, <1>9, <2>1, <2>2, <2>3 DEF Settled
<1>10. CASE /\ o.id.store = "way" /\ o.id.id = Current.id /\ Current.kind = "way" /\ wayEmitted
            /\ IF o.type = "POINT" THEN o.what = "centroid" ELSE o.what = "linestring" /\ Current.validity # "Corrected"
  <2>1. o.id.id \in wayStore'
    BY <1>5, <1>10
  <2>2. Resolve(e.output)' = Geometry(IF o.type = "POINT" THEN "centroid" ELSE "linestring", o.id.id)
    BY <1>2, <1>10, <2>1 DEF Resolve, Geometry
  <2>3. MeantBy(o.what, x) = Geometry(IF o.type = "POINT" THEN "centroid" ELSE "linestring", o.id.id)
    BY <1>1, <1>10 DEF MeantBy
  <2> QED BY <1>2, <1>6, <1>10, <2>1, <2>2, <2>3 DEF Settled
<1> QED BY <1>3, <1>7, <1>8, <1>9, <1>10 DEF WillResolve

LEMMA ReturnKeeps ==
  ASSUME LuaAssumption, GeometryInv, FunctionReturns
  PROVE  GeometryInv'
<1>1. LuaTypeOK /\ ObjectSet /\ IsSeq(stored) /\ IsSeq(outputs)
  BY DEF GeometryInv, FunctionReturns, LuaTypeOK
<1>2. /\ index' = index \cup {[id |-> originalOsmID, of |-> Current, output |-> outputs[i],
                               skipped |-> i \in skipped, tiles |-> TilesFor(outputs[i])] : i \in DOMAIN outputs}
      /\ ~running' /\ running' \in BOOLEAN /\ next' = next + 1
      /\ nodeStore \subseteq nodeStore' /\ wayStore \subseteq wayStore'
      /\ UNCHANGED <<handed, lastStored, outputs, stored>>
  BY DEF FunctionReturns, written
<1>3. PICK kind : kind = IF ~isRelation THEN "linestring" ELSE IF isClosed THEN "multipolygon" ELSE "multilinestring"
  OBVIOUS
<1>4. UNCHANGED <<cache, inited>> \/ KeepCache(Cached(kind))
  BY <1>3 DEF FunctionReturns
<1>5. kind \in CacheKinds
  BY <1>3 DEF CacheKinds
<1>6. CachesKept
  BY <1>1, <1>4, <1>5, CachesStay, CachesFilled
<1>7. LuaTypeOK'
  <2>1. DOMAIN cache' = CacheKinds /\ inited' \subseteq CacheKinds
    BY <1>6 DEF CachesKept
  <2>2. handed' \in Files /\ next' \in Nat \ {0}
    BY <1>1, <1>2 DEF LuaTypeOK
  <2>3. DOMAIN lastStored' = {"id", "type"} /\ IsSeq(stored)' /\ IsSeq(outputs)' /\ \A i \in DOMAIN outputs' : DOMAIN outputs'[i] = OutputFields
    BY <1>1, <1>2 DEF LuaTypeOK, IsSeq
  <2> QED BY <1>2, <2>1, <2>2, <2>3 DEF LuaTypeOK
<1>8. ASSUME NEW e \in index' PROVE Settled(e)'
  <2>1. CASE e \in index
    <3>1. Settled(e) /\ Grows
      BY <1>2, <2>1 DEF GeometryInv, Grows
    <3> QED BY <1>1, <1>2, <3>1, SettledKept
  <2>2. CASE e \notin index
    <3>1. PICK i \in DOMAIN outputs : e = [id |-> originalOsmID, of |-> Current, output |-> outputs[i],
                                           skipped |-> i \in skipped, tiles |-> TilesFor(outputs[i])]
      BY <1>2, <1>8, <2>2
    <3>2. e.output = outputs[i] /\ e.of = Current
      BY <3>1
    <3> QED BY <1>1, <3>2, ReturnSettles
  <2> QED BY <2>1, <2>2
<1> QED BY <1>2, <1>7, <1>8 DEF GeometryInv

LEMMA GeometryStep ==
  ASSUME LuaAssumption, GeometryInv, [LuaNext]_luaVars
  PROVE  GeometryInv'
<1>1. CASE SetObject
  BY <1>1, SetKeeps
<1>2. ASSUME NEW c \in Calls, Call(c) PROVE GeometryInv'
  BY <1>2, CallStep
<1>3. CASE FunctionReturns
  BY <1>3, ReturnKeeps
<1>4. CASE UNCHANGED luaVars
  <2>1. UNCHANGED <<handed, next, running, originalOsmID, isWay, isRelation, isClosed, llVec, wayVecs, cache, inited, lastStored>>
    BY <1>4 DEF luaVars, object, geometry
  <2>2. UNCHANGED <<outputs, outputKeys, wayEmitted, stored, skipped, nodeStore, wayStore, index>>
    BY <1>4 DEF luaVars, written, kept
  <2>3. LuaTypeOK'
    BY <2>1, <2>2 DEF GeometryInv, LuaTypeOK, IsSeq
  <2>4. CASE running
    <3>1. Calling
      BY <2>1, <2>2, <2>4 DEF Calling
    <3> QED BY <2>1, <2>2, <3>1, NothingChanges
  <2>5. CASE ~running
    <3>1. ASSUME NEW e \in index' PROVE Settled(e)'
      <4>1. Settled(e) /\ IsSeq(stored) /\ Grows
        BY <2>2, <3>1 DEF GeometryInv, LuaTypeOK, Grows
      <4> QED BY <2>2, <4>1, SettledKept
    <3> QED BY <2>1, <2>3, <2>5, <3>1 DEF GeometryInv
  <2> QED BY <2>4, <2>5
<1> QED BY <1>1, <1>2, <1>3, <1>4 DEF LuaNext

(* While a script works on an object, every output it has written leads to *)
(* a geometry of that object, stored or about to be, and the caches hold   *)
(* no other object's geometry (GeometryInv; reset, Layer,                  *)
(* LayerAsCentroid).                                                       *)
THEOREM GeometryInvariance ==
  ASSUME LuaAssumption
  PROVE  SpecLua => []GeometryInv
<1>1. LuaInit => GeometryInv
  BY LuaBegins
<1>2. GeometryInv /\ [LuaNext]_luaVars => GeometryInv'
  BY GeometryStep
<1> QED BY <1>1, <1>2, PTL DEF SpecLua

(* Whatever the objects and the calls of the script, every output resolves *)
(* to the geometry of its own object in the form the call asked for        *)
(* (OwnGeometry; Layer, LayerAsCentroid, reset against OsmMemTiles),       *)
(* unless ModifyId is called while geometries are looked up by id.         *)
THEOREM GeometriesAreOwn ==
  ASSUME LuaAssumption
  PROVE  SpecLua => []OwnGeometry
<1>1. GeometryInv => OwnGeometry
  BY DEF GeometryInv, OwnGeometry, Settled
<1> QED BY <1>1, GeometryInvariance, PTL

-----------------------------------------------------------------------------
(* Attributes. *)

(* A sequence without its element i.                                       *)
Shorter(s, i, t) ==
    /\ IsSeq(t) /\ Range(t) = {s[j] : j \in DOMAIN s \ {i}} /\ (IsInjective(s) => IsInjective(t))

LEMMA RemoveAtFacts ==
  ASSUME NEW s, IsSeq(s), NEW i \in DOMAIN s, NEW t, t = RemoveAt(s, i)
  PROVE  Shorter(s, i, t)
<1>1. PICK n : n = Len(s)
  OBVIOUS
<1>2. n \in Nat /\ DOMAIN s = 1..n /\ i \in 1..n
  BY <1>1, SeqFacts
<1>3. PICK S : S = Range(s)
  OBVIOUS
<1>4. \A j \in 1..n : s[j] \in S
  BY <1>2, <1>3 DEF Range
<1>5. PICK a, b : a = SubSeq(s, 1, i - 1) /\ b = SubSeq(s, i + 1, n)
  OBVIOUS
<1>6. a \in Seq(S) /\ Len(a) = i - 1 /\ \A j \in 1..(i - 1) : a[j] = s[j]
  <2>1. \A j \in 1..(i - 1) : s[j] \in S
    BY <1>2, <1>4
  <2>2. 1 \in Int /\ i - 1 \in Int
    BY <1>2
  <2>3. /\ a \in Seq(S) /\ Len(a) = IF 1 <= i - 1 THEN i - 1 - 1 + 1 ELSE 0
        /\ \A j \in 1..(i - 1 - 1 + 1) : a[j] = s[1 + j - 1]
    BY <1>5, <2>1, <2>2, SubSeqProperties
  <2> QED BY <1>2, <2>3
<1>7. b \in Seq(S) /\ Len(b) = n - i /\ \A j \in 1..(n - i) : b[j] = s[i + j]
  <2>1. \A j \in (i + 1)..n : s[j] \in S
    BY <1>2, <1>4
  <2>2. i + 1 \in Int /\ n \in Int
    BY <1>2
  <2>3. /\ b \in Seq(S) /\ Len(b) = IF i + 1 <= n THEN n - (i + 1) + 1 ELSE 0
        /\ \A j \in 1..(n - (i + 1) + 1) : b[j] = s[i + 1 + j - 1]
    BY <1>5, <2>1, <2>2, SubSeqProperties
  <2>4. ASSUME NEW j \in 1..(n - i) PROVE b[j] = s[i + j]
    <3>1. j \in 1..(n - (i + 1) + 1) /\ i + 1 + j - 1 = i + j
      BY <1>2
    <3> QED BY <2>3, <3>1
  <2>5. Len(b) = n - i
    <3>1. (IF i + 1 <= n THEN n - (i + 1) + 1 ELSE 0) = n - i
      BY <1>2
    <3> QED BY <2>3, <3>1
  <2> QED BY <2>3, <2>4, <2>5
<1>8. t = a \o b
  BY <1>1, <1>5 DEF RemoveAt
<1>9. /\ t \in Seq(S) /\ Len(t) = Len(a) + Len(b)
      /\ \A j \in 1..(Len(a) + Len(b)) : t[j] = IF j <= Len(a) THEN a[j] ELSE b[j - Len(a)]
  BY <1>6, <1>7, <1>8, ConcatProperties
<1>10. Len(t) = n - 1 /\ \A j \in 1..(n - 1) : t[j] = IF j < i THEN s[j] ELSE s[j + 1]
  <2>1. Len(t) = n - 1
    BY <1>2, <1>6, <1>7, <1>9
  <2>2. ASSUME NEW j \in 1..(n - 1) PROVE t[j] = IF j < i THEN s[j] ELSE s[j + 1]
    <3>1. t[j] = IF j <= i - 1 THEN a[j] ELSE b[j - (i - 1)]
      BY <1>2, <1>6, <1>7, <1>9, <2>2
    <3>2. CASE j < i
      BY <1>2, <1>6, <3>1, <3>2
    <3>3. CASE ~(j < i)
      <4>1. j - (i - 1) \in 1..(n - i) /\ i + (j - (i - 1)) = j + 1 /\ ~(j <= i - 1)
        BY <1>2, <3>3
      <4> QED BY <1>7, <3>1, <3>3, <4>1
    <3> QED BY <3>2, <3>3
  <2> QED BY <2>1, <2>2
<1>11. DOMAIN t = 1..(n - 1)
  BY <1>9, <1>10, LenProperties
<1>12. Range(t) = {s[j] : j \in DOMAIN s \ {i}}
  <2>1. ASSUME NEW x \in Range(t) PROVE x \in {s[j] : j \in DOMAIN s \ {i}}
    <3>1. PICK j \in 1..(n - 1) : x = t[j]
      BY <1>11 DEF Range
    <3>2. PICK k : k = IF j < i THEN j ELSE j + 1
      OBVIOUS
    <3>3. k \in 1..n /\ k # i /\ x = s[k]
      BY <1>2, <1>10, <3>1, <3>2
    <3> QED BY <1>2, <3>3
  <2>2. ASSUME NEW k \in DOMAIN s \ {i} PROVE s[k] \in Range(t)
    <3>1. PICK j : j = IF k < i THEN k ELSE k - 1
      OBVIOUS
    <3>2. j \in 1..(n - 1) /\ k = IF j < i THEN j ELSE j + 1
      BY <1>2, <3>1
    <3>3. t[j] = s[k]
      BY <1>10, <3>2
    <3> QED BY <1>11, <3>2, <3>3 DEF Range
  <2> QED BY <2>1, <2>2
<1>13. ASSUME IsInjective(s) PROVE IsInjective(t)
  <2>1. SUFFICES ASSUME NEW j \in 1..(n - 1), NEW k \in 1..(n - 1), t[j] = t[k] PROVE j = k
    BY <1>11 DEF IsInjective
  <2>2. PICK u, v : u = (IF j < i THEN j ELSE j + 1) /\ v = IF k < i THEN k ELSE k + 1
    OBVIOUS
  <2>3. u \in 1..n /\ v \in 1..n /\ t[j] = s[u] /\ t[k] = s[v]
    BY <1>2, <1>10, <2>2
  <2>4. u = v
    BY <1>2, <1>13, <2>1, <2>3 DEF IsInjective
  <2> QED BY <1>2, <2>2, <2>4
<1>14. IsSeq(t)
  <2>1. t \in [1..(n - 1) -> Range(t)]
    <3>1. t \in [1..Len(t) -> S]
      BY <1>9
    <3>2. t \in [1..(n - 1) -> S]
      BY <1>10, <3>1, Zenon
    <3>3. \A j \in 1..(n - 1) : t[j] \in Range(t)
      BY <1>11 DEF Range
    <3>4. PICK D : D = 1..(n - 1)
      OBVIOUS
    <3>5. t \in [D -> S] /\ \A j \in D : t[j] \in Range(t)
      BY <3>2, <3>3, <3>4
    <3>6. t \in [D -> Range(t)]
      BY <3>5
    <3> QED BY <3>4, <3>6
  <2>2. n - 1 \in Nat
    BY <1>2
  <2> QED BY <2>1, <2>2, FunctionIsSeq DEF IsSeq
<1> QED BY <1>12, <1>13, <1>14 DEF Shorter

(* The key that was asked for last. *)
LEMMA AskedAgain ==
  ASSUME NEW s, IsSeq(s), NEW kv, NEW t, Longer(s, kv, t)
  PROVE  LastAsked(t) = {x \in LastAsked(s) : x[1] # kv[1]} \cup {kv}
<1> DEFINE n == Len(s)
<1>1. /\ n \in Nat /\ DOMAIN s = 1..n /\ DOMAIN t = 1..(n + 1) /\ t[n + 1] = kv
      /\ \A i \in 1..n : t[i] = s[i]
  BY DEF Longer
<1> HIDE DEF n
<1>2. ASSUME NEW x \in LastAsked(t) PROVE x \in {y \in LastAsked(s) : y[1] # kv[1]} \cup {kv}
  <2>1. PICK i \in 1..(n + 1) : x = t[i] /\ \A k \in 1..(n + 1) : k > i => t[k][1] # t[i][1]
    BY <1>1 DEF LastAsked
  <2>2. CASE i = n + 1
    BY <1>1, <2>1, <2>2
  <2>3. CASE i # n + 1
    <3>1. i \in 1..n /\ n + 1 > i /\ n + 1 \in 1..(n + 1)
      BY <1>1, <2>1, <2>3
    <3>2. x = s[i] /\ x[1] # kv[1]
      BY <1>1, <2>1, <3>1
    <3>3. \A k \in 1..n : k > i => s[k][1] # s[i][1]
      BY <1>1, <2>1, <3>1
    <3>4. x \in LastAsked(s)
      BY <1>1, <3>1, <3>2, <3>3 DEF LastAsked
    <3> QED BY <3>2, <3>4
  <2> QED BY <2>2, <2>3
<1>3. kv \in LastAsked(t)
  <2>1. n + 1 \in 1..(n + 1) /\ \A k \in 1..(n + 1) : ~(k > n + 1)
    BY <1>1
  <2> QED BY <1>1, <2>1 DEF LastAsked
<1>4. ASSUME NEW x \in LastAsked(s), x[1] # kv[1] PROVE x \in LastAsked(t)
  <2>1. PICK i \in 1..n : x = s[i] /\ \A k \in 1..n : k > i => s[k][1] # s[i][1]
    BY <1>1 DEF LastAsked
  <2>2. i \in 1..(n + 1) /\ t[i] = x
    BY <1>1, <2>1
  <2>3. ASSUME NEW k \in 1..(n + 1), k > i PROVE t[k][1] # t[i][1]
    <3>1. CASE k = n + 1
      BY <1>1, <1>4, <2>2, <3>1
    <3>2. CASE k # n + 1
      <4>1. k \in 1..n
        BY <1>1, <3>2
      <4> QED BY <1>1, <2>1, <2>2, <2>3, <4>1
    <3> QED BY <3>1, <3>2
  <2> QED BY <1>1, <2>2, <2>3 DEF LastAsked
<1> QED BY <1>2, <1>3, <1>4

(* One value for a key. *)
LEMMA OneLast ==
  ASSUME NEW s, IsSeq(s), NEW x \in LastAsked(s), NEW y \in LastAsked(s), x[1] = y[1]
  PROVE  x = y
<1>1. PICK n : n \in Nat /\ DOMAIN s = 1..n
  BY SeqFacts
<1>2. PICK i \in 1..n : x = s[i] /\ \A k \in 1..n : k > i => s[k][1] # s[i][1]
  BY <1>1 DEF LastAsked
<1>3. PICK j \in 1..n : y = s[j] /\ \A k \in 1..n : k > j => s[k][1] # s[j][1]
  BY <1>1 DEF LastAsked
<1>4. ~(i > j) /\ ~(j > i)
  BY <1>2, <1>3
<1>5. i = j
  BY <1>1, <1>4
<1> QED BY <1>2, <1>3, <1>5

LEMMA KeysLonger ==
  ASSUME NEW s, NEW kv, NEW t, Longer(s, kv, t)
  PROVE  KeysOf(t) = KeysOf(s) \cup {kv[1]}
<1> DEFINE n == Len(s)
<1>1. /\ n \in Nat /\ DOMAIN s = 1..n /\ DOMAIN t = 1..(n + 1) /\ t[n + 1] = kv
      /\ \A i \in 1..n : t[i] = s[i]
  BY DEF Longer
<1> HIDE DEF n
<1>2. \A i \in 1..(n + 1) : i \in 1..n \/ i = n + 1
  BY <1>1
<1>3. (\A i \in 1..n : i \in 1..(n + 1)) /\ n + 1 \in 1..(n + 1)
  BY <1>1
<1> QED BY <1>1, <1>2, <1>3 DEF KeysOf

(* One attribute more, or another value of one: the last values are there, *)
(* and nothing else when the keys are known.                               *)
AttributeAdded(p, after, key, value, o) ==
    /\ AttributesKept(p, after) /\ (after \/ outputKeys = KeysOf(p.asked))
    /\ \E rest \in RemoveAttributeIfNeeded(p.attributes, key) : o.attributes = Append(rest, <<key, value>>)
    /\ o.asked = Append(p.asked, <<key, value>>)

LEMMA AttributeSet ==
  ASSUME NEW p, NEW after, NEW key, NEW value, NEW o, AttributeAdded(p, after, key, value, o)
  PROVE  AttributesKept(o, after) /\ KeysOf(o.asked) = KeysOf(p.asked) \cup {key}
<1>1. /\ AttributesKept(p, after) /\ (after \/ outputKeys = KeysOf(p.asked))
      /\ o.asked = Append(p.asked, <<key, value>>)
  BY DEF AttributeAdded
<1>2. PICK rest \in RemoveAttributeIfNeeded(p.attributes, key) : o.attributes = Append(rest, <<key, value>>)
  BY DEF AttributeAdded
<1>3. PICK a, q, kv : a = p.attributes /\ q = p.asked /\ kv = <<key, value>>
  OBVIOUS
<1>4. kv[1] = key
  BY <1>3
<1>5. IsSeq(a) /\ IsSeq(q) /\ LastAsked(q) \subseteq Range(a)
  BY <1>1, <1>3 DEF AttributesKept
<1>6. ~after => Range(a) = LastAsked(q) /\ IsInjective(a) /\ outputKeys = KeysOf(q)
  BY <1>1, <1>3 DEF AttributesKept
<1>7. /\ IsSeq(rest) /\ \A x \in Range(a) : x[1] # key => x \in Range(rest)
      /\ ~after => IsInjective(rest) /\ Range(rest) = {x \in LastAsked(q) : x[1] # key}
  <2>1. CASE /\ key \in outputKeys
             /\ \E i \in DOMAIN a : a[i][1] = key /\ rest = RemoveAt(a, i)
    <3>1. PICK i \in DOMAIN a : a[i][1] = key /\ rest = RemoveAt(a, i)
      BY <2>1
    <3>2. Shorter(a, i, rest)
      BY <1>5, <3>1, RemoveAtFacts
    <3>3. IsSeq(rest) /\ Range(rest) = {a[j] : j \in DOMAIN a \ {i}} /\ (IsInjective(a) => IsInjective(rest))
      BY <3>2 DEF Shorter
    <3>4. ASSUME NEW x \in Range(a), x[1] # key PROVE x \in Range(rest)
      <4>1. PICK j \in DOMAIN a : x = a[j]
        BY <3>4 DEF Range
      <4> QED BY <3>1, <3>3, <3>4, <4>1
    <3>5. ASSUME ~after PROVE Range(rest) = {x \in LastAsked(q) : x[1] # key}
      <4>1. Range(a) = LastAsked(q) /\ IsInjective(a)
        BY <1>6, <3>5
      <4>2. ASSUME NEW j \in DOMAIN a \ {i} PROVE a[j] \in LastAsked(q) /\ a[j][1] # key
        <5>1. PICK x, y : x = a[i] /\ y = a[j]
          OBVIOUS
        <5>2. x \in LastAsked(q) /\ y \in LastAsked(q) /\ x # y
          BY <4>1, <5>1 DEF IsInjective, Range
        <5>3. x[1] # y[1]
          BY <1>5, <5>2, OneLast
        <5> QED BY <3>1, <5>1, <5>2, <5>3
      <4>3. Range(rest) \subseteq {x \in LastAsked(q) : x[1] # key}
        BY <3>3, <4>2
      <4>4. {x \in LastAsked(q) : x[1] # key} \subseteq Range(rest)
        BY <3>4, <4>1
      <4> QED BY <4>3, <4>4
    <3> QED BY <1>6, <3>3, <3>4, <3>5
  <2>2. CASE rest = a /\ (key \in outputKeys => \A i \in DOMAIN a : a[i][1] # key)
    <3>1. ASSUME ~after, NEW x \in LastAsked(q) PROVE x[1] # key
      <4>1. CASE key \in outputKeys
        BY <1>6, <2>2, <3>1, <4>1 DEF Range
      <4>2. CASE key \notin outputKeys
        <5>1. x[1] \in KeysOf(q)
          BY <3>1 DEF LastAsked, KeysOf
        <5> QED BY <1>6, <3>1, <4>2, <5>1
      <4> QED BY <4>1, <4>2
    <3> QED BY <1>5, <1>6, <2>2, <3>1
  <2>3. \/ key \in outputKeys /\ \E i \in DOMAIN a : a[i][1] = key /\ rest = RemoveAt(a, i)
        \/ rest = a /\ (key \in outputKeys => \A i \in DOMAIN a : a[i][1] # key)
    <3>1. rest \in RemoveAttributeIfNeeded(a, key)
      BY <1>3, <1>2
    <3> QED BY <3>1 DEF RemoveAttributeIfNeeded
  <2> QED BY <2>1, <2>2, <2>3
<1>8. PICK b, r : b = o.attributes /\ r = o.asked
  OBVIOUS
<1>9. b = Append(rest, kv) /\ r = Append(q, kv)
  BY <1>1, <1>3, <1>8, <1>2
<1>10. Longer(rest, kv, b) /\ Longer(q, kv, r)
  BY <1>5, <1>7, <1>9, AppendFacts
<1>11. IsSeq(b) /\ Range(b) = Range(rest) \cup {kv} /\ IsSeq(r)
  BY <1>10 DEF Longer
<1>12. LastAsked(r) = {x \in LastAsked(q) : x[1] # key} \cup {kv}
  BY <1>4, <1>5, <1>10, AskedAgain
<1>13. LastAsked(r) \subseteq Range(b)
  BY <1>5, <1>7, <1>11, <1>12
<1>14. ASSUME ~after PROVE Range(b) = LastAsked(r) /\ IsInjective(b)
  <2>1. IsInjective(rest) /\ Range(rest) = {x \in LastAsked(q) : x[1] # key}
    BY <1>7, <1>14
  <2>2. kv \notin Range(rest)
    BY <1>4, <2>1
  <2>3. IsInjective(b)
    <3> DEFINE n == Len(rest)
    <3>1. /\ n \in Nat /\ DOMAIN rest = 1..n /\ DOMAIN b = 1..(n + 1) /\ b[n + 1] = kv
          /\ \A i \in 1..n : b[i] = rest[i]
      BY <1>10 DEF Longer
    <3> HIDE DEF n
    <3>2. \A i \in 1..n : b[i] # kv
      BY <2>2, <3>1 DEF Range
    <3>3. \A i \in 1..(n + 1) : i \in 1..n \/ i = n + 1
      BY <3>1
    <3>4. \A i, j \in 1..n : b[i] = b[j] => i = j
      BY <2>1, <3>1 DEF IsInjective
    <3> QED BY <3>1, <3>2, <3>3, <3>4 DEF IsInjective
  <2> QED BY <1>11, <1>12, <2>1, <2>3
<1>15. AttributesKept(o, after)
  BY <1>8, <1>11, <1>13, <1>14 DEF AttributesKept
<1>16. KeysOf(r) = KeysOf(q) \cup {key}
  BY <1>4, <1>10, KeysLonger
<1> QED BY <1>3, <1>8, <1>15, <1>16

LEMMA NoAttributes ==
  ASSUME NEW o, o.attributes = <<>>, o.asked = <<>>, NEW after
  PROVE  AttributesKept(o, after) /\ KeysOf(o.asked) = {}
<1>1. IsSeq(o.attributes) /\ IsSeq(o.asked) /\ DOMAIN o.attributes = {} /\ DOMAIN o.asked = {} /\ Range(o.attributes) = {}
  BY EmptyFacts
<1>2. LastAsked(o.asked) = {} /\ KeysOf(o.asked) = {} /\ IsInjective(o.attributes)
  BY <1>1 DEF LastAsked, KeysOf, IsInjective
<1> QED BY <1>1, <1>2 DEF AttributesKept

LEMMA EmittedAttributes ==
  ASSUME LuaTypeOK, AttributesInv, Emitted, index' = index
  PROVE  AttributesInv'
<1>1. PICK s, t, n : s = outputs /\ t = outputs' /\ n = Len(s)
  OBVIOUS
<1>2. IsSeq(s)
  BY <1>1 DEF LuaTypeOK
<1>3. n \in Nat /\ DOMAIN s = 1..n
  BY <1>1, <1>2, SeqFacts
<1>4. \A i \in DOMAIN s : AttributesKept(s[i], i \in skipped)
  BY <1>1 DEF AttributesInv
<1>5. \A e \in index' : AttributesKept(e.output, e.skipped)
  BY DEF AttributesInv
<1>6. CASE outputs' = outputs /\ skipped' = skipped \cup {Len(outputs)}
  <2>1. \A i \in DOMAIN t : AttributesKept(t[i], i \in skipped')
    <3>1. SUFFICES ASSUME NEW i \in DOMAIN t PROVE AttributesKept(t[i], i \in skipped')
      OBVIOUS
    <3>2. t[i] = s[i] /\ AttributesKept(s[i], i \in skipped) /\ (i \in skipped => i \in skipped')
      BY <1>1, <1>4, <1>6, <3>1
    <3> QED BY <3>2 DEF AttributesKept
  <2>2. Len(t) \in skipped'
    BY <1>1, <1>6
  <2> QED BY <1>1, <1>5, <2>1, <2>2 DEF AttributesInv
<1>7. CASE skipped' = skipped /\ \E o : Fresh(o) /\ outputs' = Append(outputs, o)
  <2>1. PICK o : Fresh(o) /\ t = Append(s, o)
    BY <1>1, <1>7
  <2>2. Longer(s, o, t)
    BY <1>2, <2>1, AppendFacts
  <2>3. Len(t) = n + 1 /\ DOMAIN t = 1..(n + 1) /\ t[n + 1] = o /\ \A i \in 1..n : t[i] = s[i]
    BY <1>1, <2>2 DEF Longer
  <2>4. \A after : AttributesKept(o, after) /\ KeysOf(o.asked) = {}
    BY <2>1, NoAttributes DEF Fresh
  <2>5. \A i \in DOMAIN t : AttributesKept(t[i], i \in skipped')
    <3>1. SUFFICES ASSUME NEW i \in DOMAIN t PROVE AttributesKept(t[i], i \in skipped')
      OBVIOUS
    <3>2. CASE i = n + 1
      BY <2>3, <2>4, <3>2
    <3>3. CASE i # n + 1
      <4>1. i \in 1..n
        BY <1>3, <2>3, <3>1, <3>3
      <4> QED BY <1>3, <1>4, <1>7, <2>3, <4>1
    <3> QED BY <3>2, <3>3
  <2>6. Last(t) = o
    BY <2>3 DEF Last
  <2>7. outputKeys' = KeysOf(Last(t).asked)
    BY <2>4, <2>6 DEF Emitted
  <2> QED BY <1>1, <1>5, <2>5, <2>7 DEF AttributesInv, KeysOf, Last
<1> QED BY <1>6, <1>7 DEF Emitted

LEMMA ChangedAttributes ==
  ASSUME AttributesInv, index' = index, skipped' = skipped, NEW o, Replaced(outputs, o, outputs'),
         AttributesKept(o, Len(outputs) \in skipped),
         Len(outputs) \notin skipped => outputKeys' = KeysOf(o.asked)
  PROVE  AttributesInv'
<1>1. PICK s, t, n : s = outputs /\ t = outputs' /\ n = Len(s)
  OBVIOUS
<1>2. /\ Len(t) = n /\ n \in Nat \ {0} /\ DOMAIN s = 1..n /\ DOMAIN t = DOMAIN s
      /\ t[n] = o /\ \A i \in DOMAIN s : i # n => t[i] = s[i]
  BY <1>1 DEF Replaced
<1>3. \A i \in DOMAIN s : AttributesKept(s[i], i \in skipped)
  BY <1>1 DEF AttributesInv
<1>4. \A e \in index' : AttributesKept(e.output, e.skipped)
  BY DEF AttributesInv
<1>5. AttributesKept(o, n \in skipped)
  BY <1>1
<1>6. \A i \in DOMAIN t : AttributesKept(t[i], i \in skipped')
  <2>1. SUFFICES ASSUME NEW i \in DOMAIN t PROVE AttributesKept(t[i], i \in skipped)
    OBVIOUS
  <2>2. CASE i = n
    BY <1>2, <1>5, <2>2
  <2>3. CASE i # n
    BY <1>2, <1>3, <2>1, <2>3
  <2> QED BY <2>2, <2>3
<1>7. Last(t) = o
  BY <1>2 DEF Last
<1>8. Len(t) \notin skipped' => outputKeys' = KeysOf(Last(t).asked)
  BY <1>1, <1>2, <1>7
<1> QED BY <1>1, <1>4, <1>6, <1>8 DEF AttributesInv, KeysOf, Last

LEMMA SameAttributes ==
  ASSUME AttributesInv, UNCHANGED <<outputs, outputKeys, skipped, index>>
  PROVE  AttributesInv'
BY DEF AttributesInv, Last, KeysOf

LEMMA AttributeCall ==
  ASSUME LuaTypeOK, AttributesInv, index' = index, NEW key, NEW value, Attribute(key, value)
  PROVE  AttributesInv'
<1>1. CASE outputs = <<>>
  <2>1. UNCHANGED <<outputs, outputKeys, skipped, index>>
    BY <1>1 DEF Attribute
  <2> QED BY <2>1, SameAttributes
<1>2. CASE outputs # <<>>
  <2>1. PICK o : /\ Replaced(outputs, o, outputs')
                 /\ \E rest \in RemoveAttributeIfNeeded(outputs[Len(outputs)].attributes, key) :
                      o.attributes = Append(rest, <<key, value>>)
                 /\ o.asked = Append(outputs[Len(outputs)].asked, <<key, value>>)
    BY <1>2, AttributeFacts
  <2>2. PICK p, after : p = outputs[Len(outputs)] /\ after = (Len(outputs) \in skipped)
    OBVIOUS
  <2>3. Len(outputs) \in DOMAIN outputs
    BY <2>1 DEF Replaced
  <2>4. AttributesKept(p, after)
    BY <2>2, <2>3 DEF AttributesInv
  <2>5. after \/ outputKeys = KeysOf(p.asked)
    BY <1>2, <2>2 DEF AttributesInv, Last
  <2>6. AttributeAdded(p, after, key, value, o)
    BY <2>1, <2>2, <2>4, <2>5 DEF AttributeAdded
  <2>7. AttributesKept(o, after) /\ KeysOf(o.asked) = KeysOf(p.asked) \cup {key}
    BY <2>6, AttributeSet
  <2>8. outputKeys' = outputKeys \cup {key} /\ skipped' = skipped
    BY <1>2 DEF Attribute
  <2>9. AttributesKept(o, Len(outputs) \in skipped)
    BY <2>2, <2>7
  <2>10. Len(outputs) \notin skipped => outputKeys' = KeysOf(o.asked)
    BY <2>2, <2>5, <2>7, <2>8
  <2> QED BY <2>1, <2>8, <2>9, <2>10, ChangedAttributes
<1> QED BY <1>1, <1>2

LEMMA ZoomAttributes ==
  ASSUME LuaTypeOK, AttributesInv, index' = index, NEW field, NEW z, SetZoom(field, z)
  PROVE  AttributesInv'
<1>1. UNCHANGED <<outputKeys, skipped>>
  BY DEF SetZoom
<1>2. CASE outputs = <<>>
  <2>1. outputs' = outputs
    BY <1>2 DEF SetZoom
  <2> QED BY <1>1, <2>1, SameAttributes
<1>3. CASE outputs # <<>>
  <2>1. PICK o : /\ Replaced(outputs, o, outputs') /\ o.attributes = outputs[Len(outputs)].attributes
                 /\ o.asked = outputs[Len(outputs)].asked
    BY <1>3, ZoomFacts
  <2>2. Len(outputs) \in DOMAIN outputs
    BY <2>1 DEF Replaced
  <2>3. AttributesKept(outputs[Len(outputs)], Len(outputs) \in skipped)
    BY <2>2 DEF AttributesInv
  <2>4. AttributesKept(o, Len(outputs) \in skipped)
    BY <2>1, <2>3 DEF AttributesKept
  <2>5. Len(outputs) \notin skipped => outputKeys' = KeysOf(o.asked)
    BY <1>1, <1>3, <2>1 DEF AttributesInv, Last
  <2> QED BY <1>1, <2>1, <2>4, <2>5, ChangedAttributes
<1> QED BY <1>2, <1>3

LEMMA ReturnAttributes ==
  ASSUME AttributesInv, FunctionReturns
  PROVE  AttributesInv'
<1>1. /\ index' = index \cup {[id |-> originalOsmID, of |-> Current, output |-> outputs[i],
                               skipped |-> i \in skipped, tiles |-> TilesFor(outputs[i])] : i \in DOMAIN outputs}
      /\ UNCHANGED <<outputs, outputKeys, skipped>>
  BY DEF FunctionReturns, written
<1>2. ASSUME NEW e \in index' PROVE AttributesKept(e.output, e.skipped)
  <2>1. CASE e \in index
    BY <2>1 DEF AttributesInv
  <2>2. CASE e \notin index
    <3>1. PICK i \in DOMAIN outputs : e = [id |-> originalOsmID, of |-> Current, output |-> outputs[i],
                                           skipped |-> i \in skipped, tiles |-> TilesFor(outputs[i])]
      BY <1>1, <1>2, <2>2
    <3>2. e.output = outputs[i] /\ e.skipped = (i \in skipped)
      BY <3>1
    <3>3. AttributesKept(outputs[i], i \in skipped)
      BY DEF AttributesInv
    <3> QED BY <3>2, <3>3
  <2> QED BY <2>1, <2>2
<1> QED BY <1>1, <1>2 DEF AttributesInv, Last, KeysOf

LEMMA AttributesStep ==
  ASSUME LuaAssumption, GeometryInv, AttributesInv, [LuaNext]_luaVars
  PROVE  AttributesInv'
<1>1. LuaTypeOK
  BY DEF GeometryInv
<1>2. CASE SetObject
  <2>1. outputs' = <<>> /\ index' = index
    BY <1>2 DEF SetObject, Reset, kept
  <2>2. DOMAIN outputs' = {}
    BY <2>1
  <2> QED BY <2>1, <2>2 DEF AttributesInv
<1>3. ASSUME NEW c \in Calls, Call(c) PROVE AttributesInv'
  <2>1. Calling /\ index' = index
    BY <1>3, AnyCall DEF Calling
  <2>2. ASSUME NEW layer, NEW area, Layer(layer, area) PROVE AttributesInv'
    <3>1. Emitted
      BY <2>1, <2>2, LayerKeeps
    <3> QED BY <1>1, <2>1, <3>1, EmittedAttributes
  <2>3. ASSUME NEW layer, NEW algorithm, NEW role, LayerAsCentroid(layer, algorithm, role) PROVE AttributesInv'
    <3>1. Emitted
      BY <2>1, <2>3, CentroidKeeps
    <3> QED BY <1>1, <2>1, <3>1, EmittedAttributes
  <2>4. ASSUME NEW key, NEW value, Attribute(key, value) PROVE AttributesInv'
    BY <1>1, <2>1, <2>4, AttributeCall
  <2>5. ASSUME NEW field, NEW z, SetZoom(field, z) PROVE AttributesInv'
    BY <1>1, <2>1, <2>5, ZoomAttributes
  <2>6. ASSUME NEW query, Query(query) PROVE AttributesInv'
    BY <2>1, <2>6, SameAttributes DEF Query, written
  <2>7. CASE UNCHANGED <<crashed, geometry, written>>
    BY <2>1, <2>7, SameAttributes DEF written
  <2> QED BY <1>3, <2>2, <2>3, <2>4, <2>5, <2>6, <2>7, AnyCall
<1>4. CASE FunctionReturns
  BY <1>4, ReturnAttributes
<1>5. CASE UNCHANGED luaVars
  BY <1>5, SameAttributes DEF luaVars, written, kept
<1> QED BY <1>2, <1>3, <1>4, <1>5 DEF LuaNext

(* What a sequence without repetitions counts. *)
LEMMA CountsItsRange ==
  ASSUME NEW s, IsSeq(s), IsInjective(s)
  PROVE  Len(s) = Cardinality(Range(s))
<1>1. PICK n : n = Len(s)
  OBVIOUS
<1>2. n \in Nat /\ DOMAIN s = 1..n
  BY <1>1, SeqFacts
<1>3. s \in [1..n -> Range(s)]
  BY <1>1 DEF IsSeq
<1>4. \A x \in Range(s) : \E i \in 1..n : s[i] = x
  BY <1>2 DEF Range
<1>5. s \in Bijection(1..n, Range(s))
  BY <1>3, <1>4 DEF Bijection, Injection, Surjection
<1>6. Cardinality(Range(s)) = n
  BY <1>2, <1>5, FS_CountingElements DEF ExistsBijection
<1> QED BY <1>1, <1>6

(* Whatever calls a script makes, an output has for each key the value set *)
(* last, once, and nothing else, unless a Layer call that wrote nothing    *)
(* came between (AttributesAsAsked; removeAttributeIfNeeded, outputKeys).  *)
THEOREM AttributesAreLast ==
  ASSUME LuaAssumption
  PROVE  SpecLua => []AttributesAsAsked
<1>1. LuaInit => AttributesInv
  <2>1. SUFFICES ASSUME LuaInit PROVE AttributesInv
    OBVIOUS
  <2>2. outputs = <<>> /\ index = {}
    BY <2>1 DEF LuaInit
  <2>3. DOMAIN outputs = {}
    BY <2>2
  <2> QED BY <2>2, <2>3 DEF AttributesInv
<1>2. GeometryInv /\ AttributesInv /\ [LuaNext]_luaVars => AttributesInv'
  BY AttributesStep
<1>3. AttributesInv => AttributesAsAsked
  <2>1. SUFFICES ASSUME AttributesInv, NEW e \in index
                 PROVE  /\ LastAsked(e.output.asked) \subseteq Range(e.output.attributes)
                        /\ ~e.skipped => /\ Range(e.output.attributes) = LastAsked(e.output.asked)
                                         /\ Len(e.output.attributes) = Cardinality(LastAsked(e.output.asked))
    BY DEF AttributesAsAsked
  <2>2. AttributesKept(e.output, e.skipped)
    BY <2>1 DEF AttributesInv
  <2>3. PICK a : a = e.output.attributes
    OBVIOUS
  <2>4. IsSeq(a) /\ (~e.skipped => IsInjective(a))
    BY <2>2, <2>3 DEF AttributesKept
  <2>5. ~e.skipped => Len(a) = Cardinality(Range(a))
    BY <2>4, CountsItsRange
  <2> QED BY <2>2, <2>3, <2>5 DEF AttributesKept
<1> QED BY <1>1, <1>2, <1>3, GeometryInvariance, PTL DEF SpecLua
=============================================================================
