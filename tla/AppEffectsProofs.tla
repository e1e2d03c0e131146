-------------------------- MODULE AppEffectsProofs --------------------------
(***************************************************************************)
(* What the queue of effects holds, when it is flushed, and how App uses   *)
(* the set of its observers: for every number of entities, windows,        *)
(* observers, pending effects and nested updates.                          *)
(***************************************************************************)
EXTENDS AppEffects, FiniteSetTheorems, SequenceTheorems, TLAPS

Label == UserFrame \cup FlushFrame \cup {"pass"}
Counted == {"update", "flush"}

-----------------------------------------------------------------------------
(* The stack *)

LEMMA FramesFinite ==
  ASSUME stack \in Seq(Label), NEW L
  PROVE  IsFiniteSet(FramesIn(L)) /\ FramesIn(L) \subseteq 1..Len(stack)
<1>1. FramesIn(L) \subseteq 1..Len(stack) /\ Len(stack) \in Nat
  BY DEF FramesIn
<1>2. IsFiniteSet(1..Len(stack))
  BY <1>1, FS_Interval
<1> QED BY <1>1, <1>2, FS_Subset

LEMMA FrameOnTop ==
  ASSUME stack \in Seq(Label), NEW L, "none" \notin L
  PROVE  /\ Frame \in L <=> Len(stack) \in FramesIn(L)
         /\ Frame \in L => stack # << >>
<1>1. CASE stack = << >>
  BY <1>1 DEF Frame, FramesIn
<1>2. CASE stack # << >>
  BY <1>2 DEF Frame, FramesIn
<1> QED BY <1>1, <1>2

LEMMA Entered ==
  ASSUME stack \in Seq(Label), NEW l \in Label, Enter(l)
  PROVE  /\ stack' \in Seq(Label) /\ stack' # << >>
         /\ Len(stack') = Len(stack) + 1
         /\ \A L : FramesIn(L)' = IF l \in L THEN FramesIn(L) \cup {Len(stack) + 1} ELSE FramesIn(L)
<1>1. /\ stack' \in Seq(Label) /\ Len(stack') = Len(stack) + 1
      /\ DOMAIN stack' = DOMAIN stack \cup {Len(stack) + 1}
      /\ \A p \in DOMAIN stack : stack'[p] = stack[p]
      /\ stack'[Len(stack) + 1] = l
      /\ Len(stack) + 1 \notin DOMAIN stack /\ stack' # << >>
  BY DEF Enter
<1> QED BY <1>1 DEF FramesIn

LEMMA FrontIsSeq ==
  ASSUME NEW S, NEW s \in Seq(S), s # << >>
  PROVE  /\ SubSeq(s, 1, Len(s) - 1) \in Seq(S)
         /\ Len(SubSeq(s, 1, Len(s) - 1)) = Len(s) - 1
         /\ \A p \in 1..Len(s) - 1 : SubSeq(s, 1, Len(s) - 1)[p] = s[p]
<1>1. Len(s) - 1 \in Nat /\ \A p \in 1..Len(s) - 1 : s[p] \in S
  OBVIOUS
<1> DEFINE n == Len(s) - 1
<1>2. /\ SubSeq(s, 1, n) \in Seq(S)
      /\ Len(SubSeq(s, 1, n)) = IF 1 <= n THEN n - 1 + 1 ELSE 0
      /\ \A p \in 1..n - 1 + 1 : SubSeq(s, 1, n)[p] = s[1 + p - 1]
  <2> HIDE DEF n
  <2> QED BY <1>1, SubSeqProperties DEF n
<1>3. n \in Nat
  BY <1>1
<1> HIDE DEF n
<1>4. Len(SubSeq(s, 1, n)) = n /\ n - 1 + 1 = n
  BY <1>2, <1>3
<1>5. ASSUME NEW p \in 1..n PROVE SubSeq(s, 1, n)[p] = s[p]
  <2>1. 1 + p - 1 = p /\ p \in 1..n - 1 + 1
    BY <1>3
  <2>2. SubSeq(s, 1, n)[p] = s[1 + p - 1]
    BY <1>2, <2>1
  <2> QED BY <2>1, <2>2
<1> QED BY <1>2, <1>4, <1>5 DEF n

LEMMA Left ==
  ASSUME stack \in Seq(Label), stack # << >>, Leave
  PROVE  /\ stack' \in Seq(Label)
         /\ Len(stack') = Len(stack) - 1
         /\ \A L : FramesIn(L)' = FramesIn(L) \ {Len(stack)}
<1>1. Len(stack) \in Nat \ {0}
  OBVIOUS
<1>2. stack' \in Seq(Label) /\ Len(stack') = Len(stack) - 1
  BY FrontIsSeq DEF Leave
<1>3. \A p \in 1..Len(stack) - 1 : stack'[p] = stack[p]
  BY FrontIsSeq DEF Leave
<1>4. DOMAIN stack = 1..Len(stack) /\ DOMAIN stack' = 1..Len(stack) - 1
  BY <1>2
<1>5. DOMAIN stack' = DOMAIN stack \ {Len(stack)}
  BY <1>1, <1>4
<1> QED BY <1>2, <1>3, <1>4, <1>5 DEF FramesIn

LEMMA WentOn ==
  ASSUME stack \in Seq(Label), stack # << >>, NEW l \in Label, GoOnAs(l)
  PROVE  /\ stack' \in Seq(Label) /\ stack' # << >>
         /\ Len(stack') = Len(stack)
         /\ \A L : FramesIn(L)' = (FramesIn(L) \ {Len(stack)}) \cup (IF l \in L THEN {Len(stack)} ELSE {})
<1>1. /\ stack' \in Seq(Label) /\ Len(stack') = Len(stack)
      /\ DOMAIN stack' = DOMAIN stack /\ Len(stack) \in DOMAIN stack
      /\ \A p \in DOMAIN stack : p # Len(stack) => stack'[p] = stack[p]
      /\ stack'[Len(stack)] = l
      /\ stack' # << >>
  BY DEF GoOnAs
<1> QED BY <1>1 DEF FramesIn

-----------------------------------------------------------------------------
(* The operations of the set keep its types, whoever calls them *)

SetTyped == Observers!TypeOK

LEMMA SetMembersTyped ==
  ASSUME SetTyped, NEW k \in Entity, NEW ids \in SUBSET Id, Observers!SetMembers(k, ids)
  PROVE  /\ entry' \in [Entity -> {"absent", "taken", "map"}]
         /\ members' \in [Entity -> SUBSET Id]
         /\ \A j \in Entity : entry'[j] = "map" <=> members'[j] # {}
         /\ \A j \in Entity : j # k => members'[j] = members[j] /\ entry'[j] = entry[j]
         /\ members'[k] = ids
         /\ entry'[k] = IF ids = {} THEN "absent" ELSE "map"
  BY DEF SetTyped, Observers!TypeOK, Observers!SetMembers, Observers!Id, Id

LEMMA PassTyped ==
  ASSUME SetTyped, passes # << >>
  PROVE  /\ Len(passes) \in DOMAIN passes
         /\ Running \in Observers!Pass
         /\ Running.key \in Entity /\ Running.todo \subseteq Id /\ Running.kept \subseteq Id
         /\ Running.current \in Id \cup {None}
<1>1. passes \in Seq(Observers!Pass)
  BY DEF SetTyped, Observers!TypeOK
<1>2. Len(passes) \in DOMAIN passes /\ Running \in Observers!Pass
  BY <1>1 DEF Running
<1> QED BY <1>2 DEF Observers!Pass, Observers!Id, Id

LEMMA InsertTyped == ASSUME SetTyped, Observers!Insert PROVE SetTyped'
<1> DEFINE k == emitterOf[nextId]
<1>1. nextId \in Id /\ k \in Entity
  BY BoundAssumption DEF SetTyped, Observers!TypeOK, Observers!Insert, Observers!Id, Id
<1>2. members[k] \cup {nextId} \in SUBSET Id
  BY <1>1 DEF SetTyped, Observers!TypeOK, Observers!Id, Id
<1>3. Observers!SetMembers(k, members[k] \cup {nextId})
  BY DEF Observers!Insert
<1> HIDE DEF k
<1>4. /\ entry' \in [Entity -> {"absent", "taken", "map"}]
      /\ members' \in [Entity -> SUBSET Id]
      /\ \A j \in Entity : entry'[j] = "map" <=> members'[j] # {}
  BY <1>1, <1>2, <1>3, SetMembersTyped
<1>5. /\ held' \subseteq Id /\ fate' \in [Id -> Observers!Fate] /\ nextId' \in 0..MaxId + 1
      /\ UNCHANGED <<dropped, active, passes, emitterOf>>
  BY <1>1, BoundAssumption DEF SetTyped, Observers!TypeOK, Observers!Insert, Observers!Id, Id, Observers!Fate
<1> QED BY <1>4, <1>5 DEF SetTyped, Observers!TypeOK, Observers!Id, Id

LEMMA ActivateTyped == ASSUME SetTyped, NEW i \in Id, Observers!Activate(i) PROVE SetTyped'
  BY DEF SetTyped, Observers!TypeOK, Observers!Activate, Observers!Id, Id

LEMMA DropTyped == ASSUME SetTyped, NEW i \in Id, Observers!DropSubscription(i) PROVE SetTyped'
<1> DEFINE k == emitterOf[i]
<1>1. k \in Entity
  BY DEF SetTyped, Observers!TypeOK, Observers!Id, Id
<1>2. /\ entry' \in [Entity -> {"absent", "taken", "map"}]
      /\ members' \in [Entity -> SUBSET Id]
      /\ \A j \in Entity : entry'[j] = "map" <=> members'[j] # {}
      /\ dropped' \subseteq Entity \X Id
  <2>1. CASE entry[k] = "absent" /\ UNCHANGED <<entry, members, dropped>>
    BY <2>1 DEF SetTyped, Observers!TypeOK, Observers!Id, Id
  <2>2. CASE Observers!SetMembers(k, members[k] \ {i}) /\ UNCHANGED dropped
    <3>1. members[k] \ {i} \in SUBSET Id /\ dropped \subseteq Entity \X Id
      BY <1>1 DEF SetTyped, Observers!TypeOK, Observers!Id, Id
    <3> HIDE DEF k
    <3> QED BY <1>1, <2>2, <3>1, SetMembersTyped
  <2>3. CASE dropped' = dropped \cup {<<k, i>>} /\ UNCHANGED <<entry, members>>
    BY <1>1, <2>3 DEF SetTyped, Observers!TypeOK, Observers!Id, Id
  <2> QED BY <2>1, <2>2, <2>3 DEF Observers!DropSubscription, Observers!Unsubscribe
<1>3. /\ held' \subseteq Id /\ fate' \in [Id -> Observers!Fate]
      /\ UNCHANGED <<nextId, active, passes, emitterOf>>
  BY DEF SetTyped, Observers!TypeOK, Observers!DropSubscription, Observers!Id, Id, Observers!Fate
<1> QED BY <1>2, <1>3 DEF SetTyped, Observers!TypeOK, Observers!Id, Id

LEMMA RemoveTyped == ASSUME SetTyped, NEW e \in Entity, Observers!RemoveEntry(e) PROVE SetTyped'
<1>1. {} \in SUBSET Id /\ Observers!SetMembers(e, {})
  BY DEF Observers!RemoveEntry
<1>2. /\ entry' \in [Entity -> {"absent", "taken", "map"}]
      /\ members' \in [Entity -> SUBSET Id]
      /\ \A j \in Entity : entry'[j] = "map" <=> members'[j] # {}
  BY <1>1, SetMembersTyped
<1>3. /\ fate' \in [Id -> Observers!Fate]
      /\ UNCHANGED <<dropped, nextId, active, held, passes, emitterOf>>
  BY DEF SetTyped, Observers!TypeOK, Observers!RemoveEntry, Observers!Id, Id, Observers!Fate
<1> QED BY <1>2, <1>3 DEF SetTyped, Observers!TypeOK, Observers!Id, Id

LEMMA TakeTyped ==
  ASSUME SetTyped, NEW e \in Entity, Observers!TakeMap(e)
  PROVE  /\ SetTyped'
         /\ passes' # << >> /\ Len(passes') = Len(passes) + 1
         /\ passes'[Len(passes')] = [key |-> e, todo |-> members[e], kept |-> {}, current |-> None]
         /\ \A p \in DOMAIN passes : passes'[p] = passes[p]
         /\ \A j \in Entity : j # e => entry'[j] = entry[j] /\ members'[j] = members[j]
         /\ entry'[e] = "taken" /\ members'[e] = {}
<1> DEFINE new == [key |-> e, todo |-> members[e], kept |-> {}, current |-> None]
<1>1. /\ passes \in Seq(Observers!Pass) /\ new \in Observers!Pass
      /\ passes' = Append(passes, new)
  BY DEF SetTyped, Observers!TypeOK, Observers!TakeMap, Observers!Pass
<1>2. /\ entry' \in [Entity -> {"absent", "taken", "map"}]
      /\ members' \in [Entity -> SUBSET Id]
      /\ \A j \in Entity : entry'[j] = "map" <=> members'[j] # {}
      /\ \A j \in Entity : j # e => entry'[j] = entry[j] /\ members'[j] = members[j]
      /\ entry'[e] = "taken" /\ members'[e] = {}
      /\ UNCHANGED <<dropped, nextId, active, held, emitterOf, fate>>
  BY DEF SetTyped, Observers!TypeOK, Observers!TakeMap, Observers!Id, Id
<1> HIDE DEF new
<1>3. /\ passes' \in Seq(Observers!Pass) /\ passes' # << >> /\ Len(passes') = Len(passes) + 1
      /\ passes'[Len(passes')] = new
      /\ \A p \in DOMAIN passes : passes'[p] = passes[p]
  BY <1>1
<1>4. SetTyped'
  BY <1>2, <1>3 DEF SetTyped, Observers!TypeOK, Observers!Id, Id
<1> QED BY <1>2, <1>3, <1>4 DEF new

\* In a pass, a subscriber leaves its place or keeps it; one that leaves the innermost
\* pass for the set does so at its end.
LEMMA VisitTyped ==
  ASSUME SetTyped, Observers!Visit
  PROVE  /\ SetTyped'
         /\ passes # << >> /\ passes' # << >> /\ Len(passes') = Len(passes)
         /\ \A p \in DOMAIN passes : passes'[p].key = passes[p].key
         /\ \A p \in DOMAIN passes, i \in Id : Observers!HeldByPass(p, i)' <=> Observers!HeldByPass(p, i)
         /\ \A p \in DOMAIN passes : \/ passes'[p].current \in active \cup {None}
                                     \/ passes'[p] = passes[p]
         /\ \A p \in DOMAIN passes : \A i \in passes[p].todo :
              i \in passes'[p].todo \/ i = Running'.current \/ i \notin active
<1>1. PICK i \in Running.todo :
        passes' = [passes EXCEPT ![Len(passes)] =
                     [Running EXCEPT !.todo = @ \ {i},
                                     !.current = IF i \in active THEN i ELSE None,
                                     !.kept = IF i \in active THEN @ ELSE @ \cup {i}]]
  BY DEF Observers!Visit, Observers!SetTop, Observers!Top, Observers!Depth, Running
<1> DEFINE x == [Running EXCEPT !.todo = @ \ {i},
                                !.current = IF i \in active THEN i ELSE None,
                                !.kept = IF i \in active THEN @ ELSE @ \cup {i}]
<1>2. /\ passes # << >> /\ Len(passes) \in DOMAIN passes
      /\ Running \in Observers!Pass /\ i \in Id /\ passes \in Seq(Observers!Pass)
  BY PassTyped DEF Observers!Visit, SetTyped, Observers!TypeOK
<1>3. /\ x \in Observers!Pass /\ x.key = Running.key /\ x.todo = Running.todo \ {i}
      /\ x.current = IF i \in active THEN i ELSE None
      /\ x.kept = IF i \in active THEN Running.kept ELSE Running.kept \cup {i}
  BY <1>2 DEF Observers!Pass, Observers!Id, Id
<1>4. passes' = [passes EXCEPT ![Len(passes)] = x]
  BY <1>1
<1> HIDE DEF x
<1>5. /\ passes' \in Seq(Observers!Pass) /\ passes' # << >> /\ Len(passes') = Len(passes)
      /\ DOMAIN passes' = DOMAIN passes
      /\ \A p \in DOMAIN passes : p # Len(passes) => passes'[p] = passes[p]
      /\ passes'[Len(passes)] = x
  BY <1>2, <1>3, <1>4
<1>6. SetTyped'
  BY <1>5 DEF SetTyped, Observers!TypeOK, Observers!Visit
<1>7. \A p \in DOMAIN passes : passes'[p].key = passes[p].key
  BY <1>3, <1>5 DEF Running
<1>8. ASSUME NEW p \in DOMAIN passes, NEW j \in Id
      PROVE  Observers!HeldByPass(p, j)' <=> Observers!HeldByPass(p, j)
  <2>1. CASE p # Len(passes)
    BY <1>5, <2>1 DEF Observers!HeldByPass
  <2>2. CASE p = Len(passes)
    <3>1. Observers!HeldByPass(p, j)' <=> j \in x.todo \cup x.kept \cup {x.current}
      BY <1>5, <2>2 DEF Observers!HeldByPass
    <3>2. Observers!HeldByPass(p, j) <=> j \in Running.todo \cup Running.kept \cup {Running.current}
      BY <2>2 DEF Observers!HeldByPass, Running
    <3>3. Running.current = None /\ i \in Running.todo /\ j # None
      BY <1>1, NoneAssumption DEF Observers!Visit, Observers!Top, Observers!Depth, Running, Id
    <3> QED BY <1>3, <3>1, <3>2, <3>3
  <2> QED BY <2>1, <2>2
<1>9. Running'.current = x.current
  BY <1>5 DEF Running
<1>10. \A p \in DOMAIN passes : passes'[p].current \in active \cup {None} \/ passes'[p] = passes[p]
  BY <1>3, <1>5
<1>11. ASSUME NEW p \in DOMAIN passes, NEW j \in passes[p].todo
       PROVE  j \in passes'[p].todo \/ j = Running'.current \/ j \notin active
  BY <1>3, <1>5, <1>9 DEF Running
<1> QED BY <1>2, <1>5, <1>6, <1>7, <1>8, <1>10, <1>11

LEMMA ReturnTyped ==
  ASSUME SetTyped, NEW keep \in BOOLEAN, Observers!Return(keep)
  PROVE  /\ SetTyped'
         /\ passes # << >> /\ passes' # << >> /\ Len(passes') = Len(passes)
         /\ \A p \in DOMAIN passes : passes'[p].key = passes[p].key
         /\ \A p \in DOMAIN passes, i \in Id :
              /\ Observers!HeldByPass(p, i)' => Observers!HeldByPass(p, i)
              /\ Observers!HeldByPass(p, i) => Observers!HeldByPass(p, i)' \/ fate'[i] # "live"
         /\ \A p \in DOMAIN passes : /\ passes'[p].current = None \/ passes'[p] = passes[p]
                                     /\ passes'[p].todo = passes[p].todo
         /\ \A i \in Id : fate'[i] = "live" => fate[i] = "live"
<1> DEFINE x == [Running EXCEPT !.current = None, !.kept = IF keep THEN @ \cup {Running.current} ELSE @]
<1>1. /\ passes' = [passes EXCEPT ![Len(passes)] = x]
      /\ passes # << >> /\ Running.current # None
  BY DEF Observers!Return, Observers!SetTop, Observers!Top, Observers!Depth, Running
<1>2. /\ Len(passes) \in DOMAIN passes /\ Running \in Observers!Pass /\ Running.current \in Id
      /\ passes \in Seq(Observers!Pass)
  BY <1>1, PassTyped DEF SetTyped, Observers!TypeOK
<1>3. /\ x \in Observers!Pass /\ x.key = Running.key /\ x.todo = Running.todo /\ x.current = None
      /\ x.kept = IF keep THEN Running.kept \cup {Running.current} ELSE Running.kept
  BY <1>2 DEF Observers!Pass, Observers!Id, Id
<1> HIDE DEF x
<1>4. /\ passes' \in Seq(Observers!Pass) /\ passes' # << >> /\ Len(passes') = Len(passes)
      /\ DOMAIN passes' = DOMAIN passes
      /\ \A p \in DOMAIN passes : p # Len(passes) => passes'[p] = passes[p]
      /\ passes'[Len(passes)] = x
  BY <1>1, <1>2, <1>3
<1>5. SetTyped'
  <2>1. fate' \in [Id -> Observers!Fate]
    BY DEF SetTyped, Observers!TypeOK, Observers!Return, Observers!Id, Id, Observers!Fate
  <2> QED BY <1>4, <2>1 DEF SetTyped, Observers!TypeOK, Observers!Return, Observers!Id, Id
<1>6. \A p \in DOMAIN passes : passes'[p].key = passes[p].key
  BY <1>3, <1>4 DEF Running
<1>7. ASSUME NEW p \in DOMAIN passes, NEW j \in Id, Observers!HeldByPass(p, j)'
      PROVE  Observers!HeldByPass(p, j)
  <2>1. CASE p # Len(passes)
    BY <1>4, <1>7, <2>1 DEF Observers!HeldByPass
  <2>2. CASE p = Len(passes)
    <3>1. j \in x.todo \cup x.kept \cup {x.current}
      BY <1>4, <1>7, <2>2 DEF Observers!HeldByPass
    <3>2. j \in Running.todo \cup Running.kept \cup {Running.current}
      BY <1>3, <3>1, NoneAssumption DEF Id
    <3> QED BY <2>2, <3>2 DEF Observers!HeldByPass, Running
  <2> QED BY <2>1, <2>2
<1>8. /\ \A j \in Id : fate'[j] = "live" => fate[j] = "live"
      /\ keep \/ fate'[Running.current] # "live"
  <2>1. fate \in [Id -> Observers!Fate]
    BY DEF SetTyped, Observers!TypeOK, Observers!Id, Id
  <2>2. fate' = IF keep \/ fate[Running.current] # "live" THEN fate
                ELSE [fate EXCEPT ![Running.current] = "refused"]
    BY DEF Observers!Return, Observers!Top, Observers!Depth, Running
  <2> QED BY <1>2, <2>1, <2>2
<1>9. ASSUME NEW p \in DOMAIN passes, NEW j \in Id, Observers!HeldByPass(p, j)
      PROVE  Observers!HeldByPass(p, j)' \/ fate'[j] # "live"
  <2>1. CASE p # Len(passes)
    BY <1>4, <1>9, <2>1 DEF Observers!HeldByPass
  <2>2. CASE p = Len(passes)
    <3>1. j \in Running.todo \cup Running.kept \cup {Running.current}
      BY <1>9, <2>2 DEF Observers!HeldByPass, Running
    <3>2. j \in x.todo \cup x.kept \/ (j = Running.current /\ ~keep)
      BY <1>3, <3>1
    <3>3. Observers!HeldByPass(p, j)' <=> j \in x.todo \cup x.kept \cup {x.current}
      BY <1>4, <2>2 DEF Observers!HeldByPass
    <3> QED BY <1>8, <3>2, <3>3
  <2> QED BY <2>1, <2>2
<1>10. \A p \in DOMAIN passes : /\ passes'[p].current = None \/ passes'[p] = passes[p]
                                /\ passes'[p].todo = passes[p].todo
  BY <1>3, <1>4 DEF Running
<1> QED BY <1>1, <1>4, <1>5, <1>6, <1>7, <1>8, <1>9, <1>10

LEMMA EndRetainTyped ==
  ASSUME SetTyped, Observers!EndRetain
  PROVE  /\ SetTyped'
         /\ passes # << >> /\ Len(passes') = Len(passes) - 1
         /\ \A p \in DOMAIN passes' : p \in DOMAIN passes /\ passes'[p] = passes[p]
         /\ \A k \in Entity : /\ entry'[k] = "taken" => entry[k] = "taken"
                              /\ k # Running.key => entry'[k] = entry[k] /\ members'[k] = members[k]
         /\ members'[Running.key] \subseteq Running.kept \cup members[Running.key]
<1>1. /\ passes # << >> /\ passes \in Seq(Observers!Pass) /\ Running.key \in Entity
      /\ Running.kept \subseteq Id
  BY PassTyped DEF Observers!EndRetain, SetTyped, Observers!TypeOK
<1>2. PICK k \in Entity : k = Running.key
  BY <1>1
<1> DEFINE put == (Running.kept \cup members[k]) \ {d[2] : d \in dropped}
<1>3. put \in SUBSET Id
  BY <1>1, <1>2 DEF SetTyped, Observers!TypeOK, Observers!Id, Id
<1>4. /\ Observers!SetMembers(k, put) /\ dropped' = {}
      /\ passes' = SubSeq(passes, 1, Len(passes) - 1)
      /\ UNCHANGED <<nextId, active, held, emitterOf, fate>>
  BY <1>2 DEF Observers!EndRetain, Observers!Top, Observers!Depth, Running
<1>5. put \subseteq Running.kept \cup members[k]
  OBVIOUS
<1> HIDE DEF put
<1>6. /\ entry' \in [Entity -> {"absent", "taken", "map"}]
      /\ members' \in [Entity -> SUBSET Id]
      /\ \A j \in Entity : entry'[j] = "map" <=> members'[j] # {}
      /\ \A j \in Entity : j # k => members'[j] = members[j] /\ entry'[j] = entry[j]
      /\ members'[k] = put
      /\ entry'[k] = IF put = {} THEN "absent" ELSE "map"
  BY <1>3, <1>4, SetMembersTyped
<1>7. /\ passes' \in Seq(Observers!Pass) /\ Len(passes') = Len(passes) - 1
      /\ \A p \in 1..Len(passes) - 1 : passes'[p] = passes[p]
  BY <1>1, <1>4, FrontIsSeq
<1>8. \A p \in DOMAIN passes' : p \in DOMAIN passes /\ passes'[p] = passes[p]
  BY <1>1, <1>7
<1>9. SetTyped'
  BY <1>4, <1>6, <1>7 DEF SetTyped, Observers!TypeOK, Observers!Id, Id
<1> QED BY <1>1, <1>2, <1>5, <1>6, <1>7, <1>8, <1>9

-----------------------------------------------------------------------------
(* The updates that are counted *)

Count == Cardinality(FramesIn(Counted))

LEMMA CountEntered ==
  ASSUME stack \in Seq(Label), NEW l \in Label, Enter(l)
  PROVE  Count \in Nat /\ Count' = IF l \in Counted THEN Count + 1 ELSE Count
<1>1. IsFiniteSet(FramesIn(Counted)) /\ Len(stack) + 1 \notin FramesIn(Counted)
  BY FramesFinite
<1>2. FramesIn(Counted)' = IF l \in Counted THEN FramesIn(Counted) \cup {Len(stack) + 1} ELSE FramesIn(Counted)
  BY Entered
<1>3. Count \in Nat
  BY <1>1, FS_CardinalityType DEF Count
<1>4. CASE l \in Counted
  BY <1>1, <1>2, <1>3, <1>4, FS_AddElement DEF Count
<1>5. CASE l \notin Counted
  BY <1>2, <1>3, <1>5 DEF Count
<1> QED BY <1>3, <1>4, <1>5

LEMMA CountLeft ==
  ASSUME stack \in Seq(Label), stack # << >>, Leave
  PROVE  Count \in Nat /\ Count' = IF Frame \in Counted THEN Count - 1 ELSE Count
<1>1. IsFiniteSet(FramesIn(Counted))
  BY FramesFinite
<1>2. FramesIn(Counted)' = FramesIn(Counted) \ {Len(stack)}
  BY Left
<1>3. Frame \in Counted <=> Len(stack) \in FramesIn(Counted)
  BY FrameOnTop DEF Counted
<1> QED BY <1>1, <1>2, <1>3, FS_RemoveElement, FS_CardinalityType DEF Count

LEMMA CountWentOn ==
  ASSUME stack \in Seq(Label), stack # << >>, NEW l \in Label, GoOnAs(l),
         l \in Counted <=> Frame \in Counted
  PROVE  Count \in Nat /\ Count' = Count
<1>1. IsFiniteSet(FramesIn(Counted))
  BY FramesFinite
<1>2. FramesIn(Counted)' = (FramesIn(Counted) \ {Len(stack)}) \cup (IF l \in Counted THEN {Len(stack)} ELSE {})
  BY WentOn
<1>3. Frame \in Counted <=> Len(stack) \in FramesIn(Counted)
  BY FrameOnTop DEF Counted
<1>4. FramesIn(Counted)' = FramesIn(Counted)
  BY <1>2, <1>3
<1> QED BY <1>1, <1>4, FS_CardinalityType DEF Count

LEMMA CountSame == UNCHANGED stack => Count' = Count
  BY DEF Count, FramesIn

\* The counter of updates goes with the stack.
StackTyped ==
  /\ stack \in Seq(Label) /\ flushing \in BOOLEAN
  /\ pendingUpdates = Count

OtherTyped ==
  /\ life \in [Entity -> {"alive", "dead", "released"}]
  /\ pendingEffects \in Seq(Effect)
  /\ pendingNotifications \subseteq Entity
  /\ tracked \in [Window -> SUBSET Entity]
  /\ drawing \in Window \cup {None}
  /\ quit \in {"no", "quitting", "ended"}
  /\ owed \subseteq Id /\ news \subseteq Id
  /\ bare \in BOOLEAN

LEMMA TypeParts == TypeOK <=> SetTyped /\ StackTyped /\ OtherTyped
  BY DEF TypeOK, SetTyped, StackTyped, OtherTyped, Label, Count, Counted

LEMMA InitTyped == Init => TypeOK
<1> SUFFICES ASSUME Init PROVE TypeOK
  OBVIOUS
<1>1. SetTyped
  BY BoundAssumption DEF Init, Observers!Init, SetTyped, Observers!TypeOK, Observers!Id, Observers!Fate
<1>2. FramesIn(Counted) = {}
  BY DEF Init, FramesIn
<1>3. StackTyped
  <2>1. Count = 0
    BY <1>2, FS_EmptySet DEF Count
  <2>2. stack \in Seq(Label)
    BY DEF Init
  <2>3. flushing \in BOOLEAN /\ pendingUpdates = 0
    BY DEF Init
  <2> QED BY <2>1, <2>2, <2>3 DEF StackTyped
<1>4. OtherTyped
  <2>1. pendingEffects \in Seq(Effect) /\ pendingNotifications \subseteq Entity
    BY DEF Init
  <2>2. tracked \in [Window -> SUBSET Entity] /\ drawing \in Window \cup {None}
    BY DEF Init
  <2>3. /\ life \in [Entity -> {"alive", "dead", "released"}] /\ quit \in {"no", "quitting", "ended"}
        /\ owed \subseteq Id /\ news \subseteq Id /\ bare \in BOOLEAN
    BY DEF Init
  <2> QED BY <2>1, <2>2, <2>3 DEF OtherTyped
<1> QED BY <1>1, <1>3, <1>4, TypeParts

LEMMA StackTypedStep == StackTyped /\ [Next]_vars => StackTyped'
<1> SUFFICES ASSUME StackTyped, [Next]_vars PROVE StackTyped'
  OBVIOUS
<1> USE DEF StackTyped
<1>1. CASE UNCHANGED <<stack, flushVars>>
  BY <1>1, CountSame DEF flushVars
<1>2. ASSUME NEW l \in {"bare", "draw", "release", "pass"}, Enter(l), UNCHANGED flushVars
      PROVE  StackTyped'
  BY <1>2, CountEntered, Entered DEF flushVars, Label, UserFrame, Counted
<1>3. CASE StartUpdate
  BY <1>3, CountEntered, Entered DEF StartUpdate, Label, UserFrame, Counted
<1>4. ASSUME Frame \in {"bare", "draw", "release", "pass", "lastflush"}, Leave, UNCHANGED flushVars
      PROVE  StackTyped'
  <2>1. stack # << >> /\ Frame \notin Counted
    BY <1>4, FrameOnTop DEF Counted
  <2> QED BY <1>4, <2>1, CountLeft, Left DEF flushVars
<1>5. CASE FinishUpdate
  <2>1. stack # << >> /\ Frame \in Counted
    BY <1>5, FrameOnTop DEF FinishUpdate, Counted
  <2>2. CASE ~flushing /\ pendingUpdates = 1
    <3>1. flushing' = TRUE /\ GoOnAs("flush") /\ UNCHANGED pendingUpdates
      BY <1>5, <2>2 DEF FinishUpdate
    <3>2. "flush" \in Label /\ "flush" \in Counted
      BY DEF Label, FlushFrame, Counted
    <3> QED BY <2>1, <3>1, <3>2, CountWentOn, WentOn
  <2>3. CASE ~(~flushing /\ pendingUpdates = 1)
    <3>1. Leave /\ pendingUpdates' = pendingUpdates - 1 /\ UNCHANGED flushing
      BY <1>5, <2>3 DEF FinishUpdate
    <3> QED BY <2>1, <3>1, CountLeft, Left
  <2> QED BY <2>2, <2>3
<1>6. CASE EndFlush
  <2>1. CASE Frame = "flush"
    <3>1. Leave /\ flushing' = FALSE /\ pendingUpdates' = pendingUpdates - 1
      BY <1>6, <2>1 DEF EndFlush
    <3>2. stack # << >> /\ Frame \in Counted
      BY <2>1, FrameOnTop DEF Counted
    <3> QED BY <3>1, <3>2, CountLeft, Left
  <2>2. CASE Frame = "lastflush"
    BY <1>4, <1>6, <2>2 DEF EndFlush
  <2> QED BY <1>6, <2>1, <2>2 DEF EndFlush, FlushFrame
<1>7. CASE ShutdownFlush
  <2>1. GoOnAs("lastflush") /\ UNCHANGED flushVars /\ Frame = "bare" /\ stack # << >>
    BY <1>7 DEF ShutdownFlush, Frame
  <2>2. "lastflush" \in Label /\ "lastflush" \notin Counted /\ Frame \notin Counted
    BY <2>1 DEF Label, FlushFrame, Counted
  <2> QED BY <2>1, <2>2, CountWentOn, WentOn DEF flushVars
<1>8. CASE User
  BY <1>1, <1>8 DEF User, Notify, DropLast, Observe, DropSubscription
<1>9. CASE EnterBare \/ (\E w \in Window : BeginDraw(w)) \/ (\E e \in Entity : Release(e)) \/ BeginShutdown
  BY <1>2, <1>9 DEF EnterBare, BeginDraw, Release, BeginShutdown
<1>10. CASE LeaveBare \/ (\E accessed \in SUBSET Entity : EndDraw(accessed)) \/ Returned \/ EndRetain
  BY <1>4, <1>10 DEF LeaveBare, EndDraw, Returned, EndRetain
<1>11. CASE ApplyNotify
  <2>1. (Enter("pass") \/ UNCHANGED stack) /\ UNCHANGED flushVars
    BY <1>11 DEF ApplyNotify
  <2> QED BY <1>1, <1>2, <2>1
<1>12. CASE ApplyActivate \/ Visit \/ (\E keep \in BOOLEAN : HandlerReturns(keep)) \/ UNCHANGED vars
  BY <1>1, <1>12 DEF ApplyActivate, Visit, HandlerReturns, vars
<1> QED BY <1>3, <1>5, <1>6, <1>7, <1>8, <1>9, <1>10, <1>11, <1>12 DEF Next, Update, Flush

LEMMA EffectHead ==
  ASSUME pendingEffects \in Seq(Effect), pendingEffects # << >>
  PROVE  /\ Tail(pendingEffects) \in Seq(Effect)
         /\ Head(pendingEffects) \in Effect
         /\ Head(pendingEffects).kind = "notify" => Head(pendingEffects).entity \in Entity
         /\ Head(pendingEffects).kind = "activate" => Head(pendingEffects).id \in Id
<1>1. Tail(pendingEffects) \in Seq(Effect) /\ Head(pendingEffects) \in Effect
  OBVIOUS
<1> QED BY <1>1 DEF Effect

LEMMA SetTypedStep == TypeOK /\ [Next]_vars => SetTyped'
<1> SUFFICES ASSUME TypeOK, [Next]_vars PROVE SetTyped'
  OBVIOUS
<1>0. SetTyped /\ OtherTyped
  BY TypeParts
<1>1. CASE UNCHANGED setVars
  BY <1>0, <1>1 DEF setVars, SetTyped, Observers!TypeOK, Observers!Id, Observers!Pass, Observers!Fate
<1>2. CASE Observe
  BY <1>0, <1>2, InsertTyped DEF Observe
<1>3. CASE \E i \in Id : DropSubscription(i)
  BY <1>0, <1>3, DropTyped DEF DropSubscription
<1>4. CASE \E e \in Entity : Release(e)
  BY <1>0, <1>1, <1>4, RemoveTyped DEF Release
<1>5. CASE ApplyNotify
  <2> DEFINE e == Head(pendingEffects).entity
  <2>1. e \in Entity
    BY <1>0, <1>5, EffectHead DEF ApplyNotify, NextIs, OtherTyped
  <2>2. Observers!TakeMap(e) \/ UNCHANGED setVars
    BY <1>5 DEF ApplyNotify
  <2> HIDE DEF e
  <2> QED BY <1>0, <1>1, <2>1, <2>2, TakeTyped
<1>6. CASE ApplyActivate
  <2> DEFINE i == Head(pendingEffects).id
  <2>1. i \in Id
    BY <1>0, <1>6, EffectHead DEF ApplyActivate, NextIs, OtherTyped
  <2>2. Observers!Activate(i)
    BY <1>6 DEF ApplyActivate
  <2> HIDE DEF i
  <2> QED BY <1>0, <2>1, <2>2, ActivateTyped
<1>7. CASE Visit
  BY <1>0, <1>7, VisitTyped DEF Visit
<1>8. CASE \E keep \in BOOLEAN : HandlerReturns(keep)
  BY <1>0, <1>8, ReturnTyped DEF HandlerReturns
<1>9. CASE EndRetain
  BY <1>0, <1>9, EndRetainTyped DEF EndRetain
<1>10. CASE (\E e \in Entity : Notify(e) \/ DropLast(e)) \/ Update
  BY <1>1, <1>10 DEF Notify, DropLast, Update, EnterBare, LeaveBare, StartUpdate, FinishUpdate,
       BeginDraw, EndDraw
<1>11. CASE Returned \/ EndFlush \/ BeginShutdown \/ ShutdownFlush \/ UNCHANGED vars
  BY <1>1, <1>11 DEF Returned, EndFlush, BeginShutdown, ShutdownFlush, vars
<1> QED BY <1>2, <1>3, <1>4, <1>5, <1>6, <1>7, <1>8, <1>9, <1>10, <1>11 DEF Next, User, Flush

LEMMA QueueTyped ==
  ASSUME OtherTyped, NEW effect \in Effect, Queue(effect)
  PROVE  pendingEffects' \in Seq(Effect) /\ bare' \in BOOLEAN
<1>1. pendingEffects' \in Seq(Effect)
  BY DEF Queue, OtherTyped
<1>2. bare' \in BOOLEAN
  BY DEF Queue
<1> QED BY <1>1, <1>2

LEMMA OtherTypedStep == TypeOK /\ [Next]_vars => OtherTyped'
<1> SUFFICES ASSUME TypeOK, [Next]_vars PROVE OtherTyped'
  OBVIOUS
<1>0. SetTyped /\ OtherTyped
  BY TypeParts
<1>1. CASE UNCHANGED <<life, queueVars, drawVars, quit, history>>
  BY <1>0, <1>1 DEF OtherTyped, queueVars, drawVars, history
<1>2. ASSUME NEW e \in Entity, Notify(e) PROVE OtherTyped'
  <2>1. UNCHANGED <<life, drawVars, quit>>
    BY <1>2 DEF Notify
  <2>2. CASE UNCHANGED <<queueVars, history>>
    BY <1>1, <2>1, <2>2
  <2>3. CASE QueueNotify(e) /\ owed' = owed \cup (ObserversOf(e) \cap active)
             /\ news' = news \cup {i \in Id : i < nextId /\ emitterOf[i] = e}
    <3>1. owed' \subseteq Id /\ news' \subseteq Id
      BY <1>0, <2>3 DEF OtherTyped, ObserversOf
    <3>2. pendingEffects' \in Seq(Effect) /\ bare' \in BOOLEAN /\ pendingNotifications' \subseteq Entity
      <4>1. CASE UNCHANGED <<queueVars, bare>>
        BY <1>0, <4>1 DEF OtherTyped, queueVars
      <4>2. CASE Queue([kind |-> "notify", entity |-> e]) /\ pendingNotifications' = pendingNotifications \cup {e}
        <5>1. [kind |-> "notify", entity |-> e] \in Effect
          BY DEF Effect
        <5> QED BY <1>0, <4>2, <5>1, QueueTyped DEF OtherTyped
      <4> QED BY <2>3, <4>1, <4>2 DEF QueueNotify
    <3> QED BY <1>0, <2>1, <3>1, <3>2 DEF OtherTyped, drawVars
  <2> QED BY <1>2, <2>2, <2>3 DEF Notify
<1>3. CASE Observe
  <2> DEFINE effect == [kind |-> "activate", id |-> nextId]
  <2>1. effect \in Effect /\ Queue(effect)
    BY <1>3 DEF Observe, Effect
  <2>2. UNCHANGED <<life, pendingNotifications, drawVars, quit, owed, news>>
    BY <1>3 DEF Observe
  <2> HIDE DEF effect
  <2>3. pendingEffects' \in Seq(Effect) /\ bare' \in BOOLEAN
    BY <1>0, <2>1, QueueTyped
  <2> QED BY <1>0, <2>2, <2>3 DEF OtherTyped, drawVars
<1>4. ASSUME NEW e \in Entity, DropLast(e) \/ Release(e) PROVE OtherTyped'
  BY <1>0, <1>4 DEF OtherTyped, DropLast, Release, queueVars, drawVars, history
<1>5. CASE \E w \in Window : BeginDraw(w)
  BY <1>0, <1>5 DEF OtherTyped, BeginDraw, queueVars, history
<1>6. CASE \E accessed \in SUBSET Entity : EndDraw(accessed)
  BY <1>0, <1>6 DEF OtherTyped, EndDraw, queueVars, history
<1>7. CASE ApplyNotify \/ ApplyActivate
  <2>1. pendingEffects' \in Seq(Effect)
    BY <1>0, <1>7, EffectHead DEF ApplyNotify, ApplyActivate, NextIs, OtherTyped
  <2>2. pendingNotifications' \subseteq Entity /\ UNCHANGED <<life, drawVars, quit, history>>
    BY <1>0, <1>7 DEF ApplyNotify, ApplyActivate, OtherTyped
  <2> QED BY <1>0, <2>1, <2>2 DEF OtherTyped, drawVars, history
<1>8. CASE Visit
  BY <1>0, <1>8 DEF OtherTyped, Visit, queueVars, drawVars
<1>9. CASE EndFlush
  BY <1>0, <1>9 DEF OtherTyped, EndFlush, queueVars, drawVars
<1>10. CASE BeginShutdown
  BY <1>0, <1>10 DEF OtherTyped, BeginShutdown, queueVars, drawVars, history
<1>11. CASE (\E i \in Id : DropSubscription(i)) \/ EnterBare \/ LeaveBare \/ StartUpdate \/ FinishUpdate
  BY <1>1, <1>11 DEF DropSubscription, EnterBare, LeaveBare, StartUpdate, FinishUpdate
<1>12. CASE Returned \/ (\E keep \in BOOLEAN : HandlerReturns(keep)) \/ EndRetain
  BY <1>1, <1>12 DEF Returned, HandlerReturns, EndRetain
<1>13. CASE ShutdownFlush \/ UNCHANGED vars
  BY <1>1, <1>13 DEF ShutdownFlush, vars
<1> QED BY <1>2, <1>3, <1>4, <1>5, <1>6, <1>7, <1>8, <1>9, <1>10, <1>11, <1>12, <1>13
     DEF Next, User, Update, Flush

LEMMA TypeStep == TypeOK /\ [Next]_vars => TypeOK'
<1> SUFFICES ASSUME TypeOK, [Next]_vars PROVE TypeOK'
  OBVIOUS
<1>1. StackTyped
  BY TypeParts
<1>2. SetTyped' /\ StackTyped' /\ OtherTyped'
  BY <1>1, StackTypedStep, SetTypedStep, OtherTypedStep
<1>3. TypeOK' <=> SetTyped' /\ StackTyped' /\ OtherTyped'
  BY DEF TypeOK, SetTyped, StackTyped, OtherTyped, Label, Count, Counted
<1> QED BY <1>2, <1>3

-----------------------------------------------------------------------------
(* The queue *)

LEMMA Queued ==
  ASSUME pendingEffects \in Seq(Effect), NEW effect \in Effect, Queue(effect)
  PROVE  /\ Len(pendingEffects') = Len(pendingEffects) + 1
         /\ DOMAIN pendingEffects' = DOMAIN pendingEffects \cup {Len(pendingEffects) + 1}
         /\ pendingEffects'[Len(pendingEffects) + 1] = effect
         /\ \A p \in DOMAIN pendingEffects : pendingEffects'[p] = pendingEffects[p]
         /\ Len(pendingEffects) + 1 \notin DOMAIN pendingEffects
  BY DEF Queue

LEMMA Applied ==
  ASSUME pendingEffects \in Seq(Effect), pendingEffects # << >>,
         pendingEffects' = Tail(pendingEffects)
  PROVE  /\ 1 \in DOMAIN pendingEffects /\ pendingEffects[1] = Head(pendingEffects)
         /\ \A p \in DOMAIN pendingEffects' :
              /\ p + 1 \in DOMAIN pendingEffects /\ p + 1 # 1
              /\ pendingEffects'[p] = pendingEffects[p + 1]
         /\ \A p \in DOMAIN pendingEffects :
              p # 1 => \E q \in DOMAIN pendingEffects' : p = q + 1
         /\ \A p, q \in DOMAIN pendingEffects' : p + 1 = q + 1 => p = q
<1>1. /\ Len(pendingEffects) \in Nat \ {0}
      /\ DOMAIN pendingEffects = 1..Len(pendingEffects)
      /\ DOMAIN pendingEffects' = 1..Len(pendingEffects) - 1
      /\ pendingEffects[1] = Head(pendingEffects)
      /\ \A p \in 1..Len(pendingEffects) - 1 : pendingEffects'[p] = pendingEffects[p + 1]
  OBVIOUS
<1>2. ASSUME NEW p \in 1..Len(pendingEffects), p # 1
      PROVE  \E q \in 1..Len(pendingEffects) - 1 : p = q + 1
  <2>1. p - 1 \in 1..Len(pendingEffects) - 1 /\ p = (p - 1) + 1
    BY <1>1, <1>2
  <2> QED BY <2>1
<1>3. \A p, q \in 1..Len(pendingEffects) - 1 : p + 1 = q + 1 => p = q
  BY <1>1
<1>4. \A p \in 1..Len(pendingEffects) - 1 : p + 1 \in 1..Len(pendingEffects) /\ p + 1 # 1
  BY <1>1
<1>5. 1 \in DOMAIN pendingEffects
  BY <1>1
<1>6. \A p \in DOMAIN pendingEffects : p # 1 => \E q \in DOMAIN pendingEffects' : p = q + 1
  BY <1>1, <1>2, Zenon
<1>7. \A p \in DOMAIN pendingEffects' : /\ p + 1 \in DOMAIN pendingEffects /\ p + 1 # 1
                                        /\ pendingEffects'[p] = pendingEffects[p + 1]
  BY <1>1, <1>4, Zenon
<1> QED BY <1>1, <1>3, <1>5, <1>6, <1>7, Zenon

LEMMA InitPending == Init => PendingMatches
<1> SUFFICES ASSUME Init PROVE PendingMatches
  OBVIOUS
<1>1. DOMAIN pendingEffects = {} /\ pendingNotifications = {}
  BY DEF Init
<1> QED BY <1>1 DEF PendingMatches

LEMMA PendingStep == TypeOK /\ PendingMatches /\ [Next]_vars => PendingMatches'
<1> SUFFICES ASSUME TypeOK, PendingMatches, [Next]_vars PROVE PendingMatches'
  OBVIOUS
<1>0. pendingEffects \in Seq(Effect)
  BY DEF TypeOK
<1>1. CASE UNCHANGED queueVars
  BY <1>1 DEF PendingMatches, queueVars, NotifyAt
<1>2. ASSUME NEW e \in Entity, Notify(e) PROVE PendingMatches'
  <2>1. CASE UNCHANGED queueVars
    BY <1>1, <2>1
  <2>2. CASE /\ e \notin pendingNotifications
             /\ Queue([kind |-> "notify", entity |-> e])
             /\ pendingNotifications' = pendingNotifications \cup {e}
    <3>1. [kind |-> "notify", entity |-> e] \in Effect
      BY DEF Effect
    <3>2. PICK n :
          /\ DOMAIN pendingEffects' = DOMAIN pendingEffects \cup {n} /\ n \notin DOMAIN pendingEffects
          /\ pendingEffects'[n] = [kind |-> "notify", entity |-> e]
          /\ \A p \in DOMAIN pendingEffects : pendingEffects'[p] = pendingEffects[p]
      BY <1>0, <2>2, <3>1, Queued
    <3>3. \A f \in Entity : NotifyAt(n, f)' <=> f = e
      BY <3>2 DEF NotifyAt
    <3>4. \A p \in DOMAIN pendingEffects, f \in Entity : NotifyAt(p, f)' <=> NotifyAt(p, f)
      BY <3>2 DEF NotifyAt
    <3>5. \A p \in DOMAIN pendingEffects : ~NotifyAt(p, e)
      BY <2>2 DEF PendingMatches
    <3>6. ASSUME NEW f \in Entity
          PROVE  f \in pendingNotifications' <=> \E p \in DOMAIN pendingEffects' : NotifyAt(p, f)'
      BY <2>2, <3>2, <3>3, <3>4 DEF PendingMatches
    <3>7. ASSUME NEW p \in DOMAIN pendingEffects', NEW q \in DOMAIN pendingEffects', NEW f \in Entity,
                 NotifyAt(p, f)', NotifyAt(q, f)'
          PROVE  p = q
      BY <3>2, <3>3, <3>4, <3>5, <3>7 DEF PendingMatches
    <3> QED BY <3>6, <3>7 DEF PendingMatches
  <2> QED BY <1>2, <2>1, <2>2 DEF Notify, QueueNotify, queueVars
<1>3. CASE Observe
  <2> DEFINE effect == [kind |-> "activate", id |-> nextId]
  <2>1. effect \in Effect /\ Queue(effect) /\ UNCHANGED pendingNotifications
    BY <1>3 DEF Effect, Observe
  <2>2. \A f \in Entity : effect # [kind |-> "notify", entity |-> f]
    <3>1. effect.kind = "activate" /\ \A f \in Entity : [kind |-> "notify", entity |-> f].kind = "notify"
      OBVIOUS
    <3> QED BY <3>1
  <2> HIDE DEF effect
  <2>3. PICK n :
        /\ DOMAIN pendingEffects' = DOMAIN pendingEffects \cup {n} /\ n \notin DOMAIN pendingEffects
        /\ pendingEffects'[n] = effect
        /\ \A p \in DOMAIN pendingEffects : pendingEffects'[p] = pendingEffects[p]
    BY <1>0, <2>1, Queued
  <2>4. \A f \in Entity : ~NotifyAt(n, f)'
    BY <2>2, <2>3 DEF NotifyAt
  <2>5. \A p \in DOMAIN pendingEffects, f \in Entity : NotifyAt(p, f)' <=> NotifyAt(p, f)
    BY <2>3 DEF NotifyAt
  <2> QED BY <2>1, <2>3, <2>4, <2>5 DEF PendingMatches
<1>4. CASE ApplyNotify \/ ApplyActivate
  <2> DEFINE head == Head(pendingEffects)
  <2>1. /\ pendingEffects # << >> /\ pendingEffects' = Tail(pendingEffects)
        /\ \/ head.kind = "notify" /\ pendingNotifications' = pendingNotifications \ {head.entity}
           \/ head.kind = "activate" /\ UNCHANGED pendingNotifications
    BY <1>4 DEF ApplyNotify, ApplyActivate, NextIs
  <2>2. /\ 1 \in DOMAIN pendingEffects /\ pendingEffects[1] = head
        /\ \A p \in DOMAIN pendingEffects' :
             /\ p + 1 \in DOMAIN pendingEffects /\ p + 1 # 1
             /\ pendingEffects'[p] = pendingEffects[p + 1]
        /\ \A p \in DOMAIN pendingEffects : p # 1 => \E q \in DOMAIN pendingEffects' : p = q + 1
        /\ \A p, q \in DOMAIN pendingEffects' : p + 1 = q + 1 => p = q
    BY <1>0, <2>1, Applied
  <2>3. /\ head.kind = "notify" => head.entity \in Entity
        /\ \A f \in Entity : NotifyAt(1, f) <=> head.kind = "notify" /\ f = head.entity
    <3>1. head \in Effect
      BY <1>0, <2>1, EffectHead
    <3> HIDE DEF head
    <3> QED BY <2>2, <3>1 DEF NotifyAt, Effect
  <2> HIDE DEF head
  <2>4. \A p \in DOMAIN pendingEffects', f \in Entity : NotifyAt(p, f)' <=> NotifyAt(p + 1, f)
    BY <2>2 DEF NotifyAt
  <2>5. ASSUME NEW f \in Entity
        PROVE  f \in pendingNotifications' <=> \E p \in DOMAIN pendingEffects' : NotifyAt(p, f)'
    <3>1. f \in pendingNotifications' <=> \E p \in DOMAIN pendingEffects : p # 1 /\ NotifyAt(p, f)
      BY <2>1, <2>2, <2>3 DEF PendingMatches
    <3> QED BY <2>2, <2>4, <3>1
  <2>6. ASSUME NEW p \in DOMAIN pendingEffects', NEW q \in DOMAIN pendingEffects', NEW f \in Entity,
               NotifyAt(p, f)', NotifyAt(q, f)'
        PROVE  p = q
    BY <2>2, <2>4, <2>6 DEF PendingMatches
  <2> QED BY <2>5, <2>6 DEF PendingMatches
<1>5. CASE (\E e \in Entity : DropLast(e)) \/ (\E i \in Id : DropSubscription(i)) \/ Update
  BY <1>1, <1>5 DEF DropLast, DropSubscription, Update, EnterBare, LeaveBare, StartUpdate, FinishUpdate,
       BeginDraw, EndDraw
<1>6. CASE (\E e \in Entity : Release(e)) \/ Returned \/ Visit \/ EndRetain \/ EndFlush
           \/ \E keep \in BOOLEAN : HandlerReturns(keep)
  BY <1>1, <1>6 DEF Release, Returned, Visit, EndRetain, EndFlush, HandlerReturns, queueVars
<1>7. CASE BeginShutdown \/ ShutdownFlush \/ UNCHANGED vars
  BY <1>1, <1>7 DEF BeginShutdown, ShutdownFlush, vars
<1> QED BY <1>2, <1>3, <1>4, <1>5, <1>6, <1>7 DEF Next, User, Flush

-----------------------------------------------------------------------------
(* When it is flushed *)

\* flushing_effects is up while an update flushes only, and what an update
\* queued waits for an update that is still counted.
FlushIsDue ==
  /\ flushing => FramesIn({"flush"}) # {}
  /\ pendingEffects # << >> => bare \/ pendingUpdates > 0

LEMMA InitDue == Init => FlushIsDue
  BY DEF Init, FlushIsDue

LEMMA FlushIsDueStep == TypeOK /\ FlushIsDue /\ [Next]_vars => FlushIsDue'
<1> SUFFICES ASSUME TypeOK, FlushIsDue, [Next]_vars PROVE FlushIsDue'
  OBVIOUS
<1>0. /\ stack \in Seq(Label) /\ pendingUpdates = Count /\ Count \in Nat
      /\ pendingEffects \in Seq(Effect)
  <2>1. StackTyped /\ OtherTyped
    BY TypeParts
  <2>2. Count \in Nat
    BY <2>1, FramesFinite, FS_CardinalityType DEF StackTyped, Count
  <2> QED BY <2>1, <2>2 DEF StackTyped, OtherTyped
<1>1. ASSUME flushing' => flushing, FramesIn({"flush"}) \subseteq FramesIn({"flush"})'
      PROVE  flushing' => FramesIn({"flush"})' # {}
  BY <1>1 DEF FlushIsDue
<1>2. ASSUME pendingEffects' # << >> => pendingEffects # << >>, bare => bare', UNCHANGED pendingUpdates
      PROVE  pendingEffects' # << >> => bare' \/ pendingUpdates' > 0
  BY <1>2 DEF FlushIsDue
<1>3. UNCHANGED stack => FramesIn({"flush"})' = FramesIn({"flush"})
  BY DEF FramesIn
<1>4. ASSUME NEW l \in Label, Enter(l) PROVE FramesIn({"flush"}) \subseteq FramesIn({"flush"})'
  BY <1>0, <1>4, Entered
<1>5. ASSUME Leave, Frame # "flush", stack # << >> PROVE FramesIn({"flush"}) \subseteq FramesIn({"flush"})'
  BY <1>0, <1>5, Left, FrameOnTop
<1>6. CASE UNCHANGED <<queueVars, flushVars, stack, bare>>
  BY <1>1, <1>2, <1>3, <1>6 DEF FlushIsDue, queueVars, flushVars
<1>7. ASSUME NEW effect, Queue(effect), UNCHANGED <<flushVars, stack>> PROVE FlushIsDue'
  <2>1. bare' \/ pendingUpdates' > 0
    <3>1. CASE pendingUpdates = 0
      BY <1>7, <3>1 DEF Queue
    <3>2. CASE pendingUpdates # 0
      <4>1. pendingUpdates > 0
        BY <1>0, <3>2
      <4> QED BY <1>7, <4>1 DEF flushVars
    <3> QED BY <3>1, <3>2
  <2> QED BY <1>1, <1>3, <1>7, <2>1 DEF FlushIsDue, flushVars
<1>8. ASSUME NEW l \in {"bare", "draw", "release", "pass"}, Enter(l), UNCHANGED flushVars,
             pendingEffects' # << >> => pendingEffects # << >>, UNCHANGED bare
      PROVE  FlushIsDue'
  <2>1. l \in Label
    BY DEF Label, UserFrame
  <2> QED BY <1>1, <1>2, <1>4, <1>8, <2>1 DEF FlushIsDue, flushVars
<1>9. ASSUME Frame \in {"bare", "draw", "release", "pass"}, Leave, UNCHANGED <<queueVars, flushVars, bare>>
      PROVE  FlushIsDue'
  <2>1. stack # << >> /\ Frame # "flush"
    BY <1>0, <1>9, FrameOnTop
  <2> QED BY <1>1, <1>2, <1>5, <1>9, <2>1 DEF FlushIsDue, flushVars, queueVars
<1>10. CASE StartUpdate
  <2>1. FramesIn({"flush"}) \subseteq FramesIn({"flush"})'
    BY <1>4, <1>10 DEF StartUpdate, Label, UserFrame
  <2>2. pendingUpdates' > 0 /\ UNCHANGED flushing
    BY <1>0, <1>10 DEF StartUpdate
  <2> QED BY <1>1, <2>1, <2>2 DEF FlushIsDue
<1>11. CASE FinishUpdate
  <2>1. stack # << >> /\ Len(stack) \in FramesIn({"update"}) /\ UNCHANGED <<queueVars, bare>>
    BY <1>0, <1>11, FrameOnTop DEF FinishUpdate, history
  <2>2. CASE ~flushing /\ pendingUpdates = 1
    <3>1. FramesIn({"flush"})' # {}
      <4>1. GoOnAs("flush") /\ "flush" \in Label
        BY <1>11, <2>2 DEF FinishUpdate, Label, FlushFrame
      <4>2. Len(stack) \in FramesIn({"flush"})'
        BY <1>0, <2>1, <4>1, WentOn
      <4> QED BY <4>2
    <3>2. pendingUpdates' = 1
      BY <1>11, <2>2 DEF FinishUpdate
    <3> QED BY <3>1, <3>2 DEF FlushIsDue
  <2>3. CASE ~(~flushing /\ pendingUpdates = 1)
    <3>1. Leave /\ pendingUpdates' = pendingUpdates - 1 /\ UNCHANGED flushing
      BY <1>11, <2>3 DEF FinishUpdate
    <3>2. FramesIn({"flush"}) \subseteq FramesIn({"flush"})'
      BY <1>5, <1>11, <2>1, <3>1 DEF FinishUpdate
    <3>3. Count > 1
      <4>1. IsFiniteSet(FramesIn(Counted)) /\ Len(stack) \in FramesIn(Counted)
        BY <1>0, <2>1, FramesFinite DEF FramesIn, Counted
      <4>2. Cardinality(FramesIn(Counted)) = Cardinality(FramesIn(Counted) \ {Len(stack)}) + 1
            /\ Cardinality(FramesIn(Counted) \ {Len(stack)}) \in Nat
        <5>1. /\ IsFiniteSet(FramesIn(Counted) \ {Len(stack)})
              /\ Cardinality(FramesIn(Counted) \ {Len(stack)}) = Cardinality(FramesIn(Counted)) - 1
          BY <4>1, FS_RemoveElement
        <5>2. Cardinality(FramesIn(Counted) \ {Len(stack)}) \in Nat /\ Cardinality(FramesIn(Counted)) \in Nat
          BY <4>1, <5>1, FS_CardinalityType
        <5> QED BY <5>1, <5>2
      <4>3. CASE flushing
        <5>1. PICK p \in FramesIn({"flush"}) : TRUE
          BY <4>3 DEF FlushIsDue
        <5>2. p \in FramesIn(Counted) \ {Len(stack)}
          BY <2>1, <5>1 DEF FramesIn, Counted
        <5>3. Cardinality(FramesIn(Counted) \ {Len(stack)}) # 0
          BY <4>1, <5>2, FS_EmptySet, FS_RemoveElement
        <5> QED BY <4>2, <5>3 DEF Count
      <4>4. CASE pendingUpdates # 1
        BY <1>0, <4>2, <4>4 DEF Count
      <4> QED BY <2>3, <4>3, <4>4
    <3> QED BY <1>0, <1>1, <3>1, <3>2, <3>3 DEF FlushIsDue
  <2> QED BY <2>2, <2>3
<1>12. CASE EndFlush
  <2>1. pendingEffects' = << >> /\ stack # << >>
    BY <1>0, <1>12, FrameOnTop DEF EndFlush, queueVars, FlushFrame
  <2>2. flushing' => flushing /\ Frame # "flush"
    BY <1>12 DEF EndFlush, flushVars
  <2> QED BY <1>1, <1>5, <1>12, <2>1, <2>2 DEF FlushIsDue, EndFlush
<1>13. CASE ShutdownFlush
  <2>1. /\ GoOnAs("lastflush") /\ stack # << >> /\ Frame = "bare" /\ "lastflush" \in Label
        /\ UNCHANGED <<queueVars, flushVars, bare>>
    BY <1>13 DEF ShutdownFlush, Frame, history, Label, FlushFrame
  <2>2. FramesIn({"flush"}) \subseteq FramesIn({"flush"})'
    BY <1>0, <2>1, WentOn, FrameOnTop
  <2> QED BY <1>1, <1>2, <2>1, <2>2 DEF FlushIsDue, queueVars, flushVars
<1>14. CASE User
  BY <1>6, <1>7, <1>14 DEF User, Notify, QueueNotify, DropLast, Observe, DropSubscription, history
<1>15. CASE EnterBare \/ (\E w \in Window : BeginDraw(w)) \/ (\E e \in Entity : Release(e)) \/ BeginShutdown
  BY <1>8, <1>15 DEF EnterBare, BeginDraw, Release, BeginShutdown, queueVars, history
<1>16. CASE LeaveBare \/ (\E accessed \in SUBSET Entity : EndDraw(accessed)) \/ Returned \/ EndRetain
  BY <1>9, <1>16 DEF LeaveBare, EndDraw, Returned, EndRetain, history
<1>17. CASE ApplyNotify \/ ApplyActivate
  <2>1. pendingEffects # << >> /\ UNCHANGED <<flushVars, bare>> /\ (Enter("pass") \/ UNCHANGED stack)
    BY <1>17 DEF ApplyNotify, ApplyActivate, NextIs, history
  <2> QED BY <1>1, <1>2, <1>3, <1>8, <2>1 DEF FlushIsDue, flushVars
<1>18. CASE Visit \/ (\E keep \in BOOLEAN : HandlerReturns(keep)) \/ UNCHANGED vars
  BY <1>6, <1>18 DEF Visit, HandlerReturns, vars, history
<1> QED BY <1>10, <1>11, <1>12, <1>13, <1>14, <1>15, <1>16, <1>17, <1>18 DEF Next, Update, Flush

LEMMA DueGivesFlushed == TypeOK /\ FlushIsDue => IdleIsFlushed
<1> SUFFICES ASSUME TypeOK, FlushIsDue, stack = << >>, pendingEffects # << >> PROVE bare
  BY DEF IdleIsFlushed
<1>1. FramesIn({"update", "flush"}) = {}
  BY DEF FramesIn
<1>2. pendingUpdates = 0
  BY <1>1, FS_EmptySet DEF TypeOK
<1> QED BY <1>2 DEF FlushIsDue

-----------------------------------------------------------------------------
(* How passes and flushes nest until shutdown *)

\* There is one flush, under the only pass; the flush of shutdown is another one,
\* with flushing_effects down.
Nested ==
  quit = "no" =>
    /\ FramesIn({"lastflush"}) = {}
    /\ \A p, q \in FramesIn({"flush"}) : p = q
    /\ FramesIn({"flush"}) # {} => flushing
    /\ \A p \in FramesIn({"pass"}) : \E q \in FramesIn({"flush"}) : q < p
    /\ \A p, q \in FramesIn({"pass"}) : p = q
    /\ Len(passes) <= 1
    /\ passes # << >> <=> FramesIn({"pass"}) # {}

LEMMA InitNested == Init => Nested
<1> SUFFICES ASSUME Init PROVE Nested
  OBVIOUS
<1>1. passes = << >> /\ Len(passes) = 0
  BY DEF Init, Observers!Init
<1>2. \A L : FramesIn(L) = {}
  BY DEF Init, FramesIn
<1> QED BY <1>1, <1>2 DEF Nested

\* Between two effects no pass is under way.
LEMMA NoPassInFlush ==
  ASSUME TypeOK, Nested, quit = "no", Frame \in FlushFrame
  PROVE  Frame = "flush" /\ FramesIn({"pass"}) = {} /\ passes = << >>
<1>0. stack \in Seq(Label)
  BY TypeParts DEF StackTyped
<1>1. Frame = "flush"
  <2>1. Frame # "lastflush"
    BY <1>0, FrameOnTop DEF Nested
  <2> QED BY <2>1 DEF FlushFrame
<1>2. Len(stack) \in FramesIn({"flush"})
  BY <1>0, <1>1, FrameOnTop
<1>3. ASSUME NEW p \in FramesIn({"pass"}) PROVE FALSE
  <2>1. PICK q \in FramesIn({"flush"}) : q < p
    BY DEF Nested
  <2>2. q = Len(stack)
    BY <1>2, <2>1 DEF Nested
  <2>3. p \in 1..Len(stack) /\ Len(stack) \in Nat
    BY <1>0, FramesFinite
  <2> QED BY <2>1, <2>2, <2>3
<1> QED BY <1>1, <1>3 DEF Nested

LEMMA NestedStep == TypeOK /\ Nested /\ [Next]_vars => Nested'
<1> SUFFICES ASSUME TypeOK, Nested, [Next]_vars, quit' = "no" PROVE Nested'
  BY DEF Nested
<1>0. stack \in Seq(Label) /\ SetTyped /\ passes \in Seq(Observers!Pass)
  BY TypeParts DEF StackTyped, SetTyped, Observers!TypeOK
<1>1. ASSUME \A L \in {{"lastflush"}, {"flush"}, {"pass"}} : FramesIn(L)' = FramesIn(L),
             quit = "no", UNCHANGED flushing, Len(passes') = Len(passes), passes' # << >> <=> passes # << >>
      PROVE  Nested'
  BY <1>1 DEF Nested
<1>2. (UNCHANGED stack) => \A L : FramesIn(L)' = FramesIn(L)
  BY DEF FramesIn
<1>3. CASE UNCHANGED <<stack, flushing, passes, quit>>
  BY <1>1, <1>2, <1>3
<1>4. ASSUME NEW l \in UserFrame, Enter(l), UNCHANGED <<flushing, passes>>, quit = "no" PROVE Nested'
  <2>1. \A L \in {{"lastflush"}, {"flush"}, {"pass"}} : FramesIn(L)' = FramesIn(L)
    BY <1>0, <1>4, Entered DEF Label, UserFrame
  <2> QED BY <1>1, <1>4, <2>1
<1>5. ASSUME Frame \in UserFrame, Leave, UNCHANGED <<flushing, passes>>, quit = "no" PROVE Nested'
  <2>1. stack # << >> /\ \A L \in {{"lastflush"}, {"flush"}, {"pass"}} : Len(stack) \notin FramesIn(L)
    BY <1>0, <1>5, FrameOnTop DEF UserFrame
  <2>2. \A L \in {{"lastflush"}, {"flush"}, {"pass"}} : FramesIn(L)' = FramesIn(L)
    <3>1. \A L : FramesIn(L)' = FramesIn(L) \ {Len(stack)}
      BY <1>0, <1>5, <2>1, Left
    <3> QED BY <2>1, <3>1
  <2> QED BY <1>1, <1>5, <2>2
<1>6. CASE FinishUpdate
  <2>1. Frame = "update" /\ stack # << >> /\ UNCHANGED passes /\ quit = "no"
    BY <1>0, <1>6, FrameOnTop DEF FinishUpdate, setVars
  <2>2. CASE ~flushing /\ pendingUpdates = 1
    <3>1. flushing' = TRUE /\ GoOnAs("flush") /\ "flush" \in Label
      BY <1>6, <2>2 DEF FinishUpdate, Label, FlushFrame
    <3>2. \A L : Len(stack) \in FramesIn(L) <=> Frame \in L
      BY <2>1 DEF Frame, FramesIn
    <3>3. FramesIn({"flush"}) = {} /\ FramesIn({"pass"}) = {} /\ FramesIn({"lastflush"}) = {}
      BY <2>1, <2>2 DEF Nested
    <3>4. /\ FramesIn({"flush"})' = {Len(stack)} /\ FramesIn({"pass"})' = {}
          /\ FramesIn({"lastflush"})' = {}
      BY <1>0, <2>1, <3>1, <3>3, WentOn
    <3>5. passes' = << >>
      BY <2>1, <3>3 DEF Nested
    <3> QED BY <3>1, <3>4, <3>5 DEF Nested
  <2>3. CASE Leave /\ UNCHANGED flushing
    BY <1>5, <2>1, <2>3 DEF UserFrame
  <2> QED BY <1>6, <2>2, <2>3 DEF FinishUpdate
<1>7. CASE ApplyNotify
  <2>1. Frame \in FlushFrame /\ quit = "no" /\ UNCHANGED flushing
    BY <1>7 DEF ApplyNotify, NextIs, flushVars
  <2>2. Frame = "flush" /\ FramesIn({"pass"}) = {} /\ passes = << >>
    BY <2>1, NoPassInFlush
  <2>3. CASE UNCHANGED <<setVars, stack>>
    BY <1>3, <1>7, <2>3 DEF ApplyNotify, flushVars, setVars
  <2>4. ASSUME NEW e \in Entity, Observers!TakeMap(e), Enter("pass") PROVE Nested'
    <3>1. Len(passes') = 1 /\ passes' # << >>
      <4>1. Len(passes') = Len(passes) + 1 /\ passes' # << >>
        BY <1>0, <2>4, TakeTyped
      <4> QED BY <2>2, <4>1
    <3>2. "pass" \in Label /\ Len(stack) \in FramesIn({"flush"})
      BY <1>0, <2>2, FrameOnTop DEF Label
    <3>3. /\ FramesIn({"flush"})' = FramesIn({"flush"}) /\ FramesIn({"lastflush"})' = FramesIn({"lastflush"})
          /\ FramesIn({"pass"})' = {Len(stack) + 1}
      BY <1>0, <2>2, <2>4, <3>2, Entered
    <3>4. Len(stack) < Len(stack) + 1
      BY <1>0
    <3> QED BY <2>1, <3>1, <3>2, <3>3, <3>4 DEF Nested
  <2>5. Head(pendingEffects).entity \in Entity
    BY <1>7, EffectHead DEF TypeOK, ApplyNotify, NextIs
  <2> QED BY <1>7, <2>3, <2>4, <2>5 DEF ApplyNotify
<1>8. CASE EndRetain
  <2>1. Frame = "pass" /\ Leave /\ Observers!EndRetain /\ UNCHANGED flushing /\ quit = "no"
    BY <1>8 DEF EndRetain, flushVars
  <2>2. passes' = << >> /\ Len(passes') = 0
    <3>1. Len(passes') = Len(passes) - 1 /\ Len(passes) <= 1 /\ passes # << >>
      BY <1>0, <2>1, EndRetainTyped DEF Nested
    <3>2. Len(passes) = 1
      BY <1>0, <3>1
    <3>3. passes' \in Seq(Observers!Pass)
      BY <1>0, <2>1, EndRetainTyped DEF SetTyped, Observers!TypeOK
    <3> QED BY <3>1, <3>2, <3>3
  <2>3. stack # << >> /\ Len(stack) \in FramesIn({"pass"})
    BY <1>0, <2>1, FrameOnTop
  <2>4. Len(stack) \notin FramesIn({"flush"}) /\ Len(stack) \notin FramesIn({"lastflush"})
    BY <1>0, <2>1, FrameOnTop
  <2>5. /\ FramesIn({"flush"})' = FramesIn({"flush"}) /\ FramesIn({"lastflush"})' = FramesIn({"lastflush"})
        /\ FramesIn({"pass"})' = {}
    BY <1>0, <2>1, <2>3, <2>4, Left DEF Nested
  <2> QED BY <2>1, <2>2, <2>5 DEF Nested
<1>9. CASE EndFlush
  <2>1. Frame \in FlushFrame /\ Leave /\ UNCHANGED passes
    BY <1>9 DEF EndFlush, setVars
  <2>2. quit = "no"
    BY <1>9 DEF EndFlush
  <2>3. Frame = "flush" /\ FramesIn({"pass"}) = {} /\ passes = << >>
    BY <2>1, <2>2, NoPassInFlush
  <2>4. stack # << >> /\ Len(stack) \in FramesIn({"flush"})
    BY <1>0, <2>3, FrameOnTop
  <2>5. FramesIn({"flush"})' = {} /\ FramesIn({"pass"})' = {} /\ FramesIn({"lastflush"})' = {}
    BY <1>0, <2>1, <2>2, <2>3, <2>4, Left DEF Nested
  <2> QED BY <2>1, <2>3, <2>5 DEF Nested
<1>10. CASE Visit \/ \E keep \in BOOLEAN : HandlerReturns(keep)
  <2>1. UNCHANGED <<stack, flushing, quit>> /\ Len(passes') = Len(passes) /\ passes # << >> /\ passes' # << >>
    BY <1>0, <1>10, VisitTyped, ReturnTyped DEF Visit, HandlerReturns, flushVars
  <2> QED BY <1>1, <1>2, <2>1
<1>11. CASE User
  BY <1>3, <1>11 DEF User, Notify, DropLast, Observe, DropSubscription, flushVars, setVars,
       Observers!Insert, Observers!DropSubscription
<1>12. CASE EnterBare \/ StartUpdate \/ \E w \in Window : BeginDraw(w)
  BY <1>4, <1>12 DEF EnterBare, StartUpdate, BeginDraw, UserFrame, flushVars, setVars
<1>13. CASE \E e \in Entity : Release(e)
  BY <1>4, <1>13 DEF Release, UserFrame, flushVars, setVars, Observers!RemoveEntry
<1>14. CASE LeaveBare \/ Returned \/ \E accessed \in SUBSET Entity : EndDraw(accessed)
  BY <1>5, <1>14 DEF LeaveBare, Returned, EndDraw, UserFrame, flushVars, setVars
<1>15. CASE ApplyActivate \/ UNCHANGED vars
  BY <1>3, <1>15 DEF ApplyActivate, Observers!Activate, vars, setVars, flushVars
<1>16. CASE BeginShutdown \/ ShutdownFlush
  BY <1>16 DEF BeginShutdown, ShutdownFlush
<1> QED BY <1>6, <1>7, <1>8, <1>9, <1>10, <1>11, <1>12, <1>13, <1>14, <1>15, <1>16
     DEF Next, Update, Flush

\* Every use App makes of the set is a step SubscriberSet has.
LEMMA SetUse == TypeOK /\ Nested /\ [Next]_vars => [quit # "no" \/ Observers!Next]_setVars
<1> SUFFICES ASSUME TypeOK, Nested, [Next]_vars, quit = "no", ~UNCHANGED setVars
             PROVE  Observers!Next
  OBVIOUS
<1>1. CASE Observe
  BY <1>1 DEF Observe, Observers!Next
<1>2. CASE \E i \in Id : DropSubscription(i)
  BY <1>2 DEF DropSubscription, Observers!Next, Observers!Id, Id
<1>3. CASE \E e \in Entity : Release(e)
  <2>1. PICK e \in Entity : Release(e)
    BY <1>3
  <2>2. passes = << >> /\ Observers!RemoveEntry(e)
    BY <2>1, NoPassInFlush DEF Release
  <2> QED BY <2>2 DEF Observers!Next, Observers!Remove
<1>4. CASE ApplyNotify
  <2>1. passes = << >>
    BY <1>4, NoPassInFlush DEF ApplyNotify, NextIs
  <2>2. PICK e \in Entity : Observers!TakeMap(e)
    BY <1>4, EffectHead DEF ApplyNotify, NextIs, TypeOK
  <2>3. Observers!BeginRetain(e)
    BY <2>1, <2>2 DEF Observers!BeginRetain, Observers!UserCode, Observers!Depth
  <2> QED BY <2>3 DEF Observers!Next
<1>5. CASE ApplyActivate
  <2>1. PICK i \in Id : Observers!Activate(i)
    BY <1>5, EffectHead DEF ApplyActivate, NextIs, TypeOK
  <2> QED BY <2>1 DEF Observers!Next, Observers!Id, Id
<1>6. CASE Visit \/ EndRetain \/ \E keep \in BOOLEAN : HandlerReturns(keep)
  BY <1>6 DEF Visit, EndRetain, HandlerReturns, Observers!Next
<1>7. CASE (\E e \in Entity : Notify(e) \/ DropLast(e)) \/ Update
  BY <1>7 DEF Notify, DropLast, Update, EnterBare, LeaveBare, StartUpdate, FinishUpdate,
       BeginDraw, EndDraw
<1>8. CASE Returned \/ EndFlush \/ BeginShutdown \/ ShutdownFlush \/ UNCHANGED vars
  BY <1>8 DEF Returned, EndFlush, BeginShutdown, ShutdownFlush, vars
<1> QED BY <1>1, <1>2, <1>3, <1>4, <1>5, <1>6, <1>7, <1>8 DEF Next, User, Flush

-----------------------------------------------------------------------------
(* What is released *)

ReleasedIsGone ==
  /\ ReleasedHasNoObservers
  /\ quit = "no" => \A p \in DOMAIN passes : life[passes[p].key] # "released"

LEMMA InitGone == Init => ReleasedIsGone
<1> SUFFICES ASSUME Init PROVE ReleasedIsGone
  OBVIOUS
<1>1. DOMAIN passes = {} /\ \A e \in Entity : life[e] = "alive"
  BY DEF Init, Observers!Init
<1> QED BY <1>1 DEF ReleasedIsGone, ReleasedHasNoObservers

LEMMA GoneStep ==
  TypeOK /\ Nested /\ ReleasedIsGone /\ [Next]_vars => ReleasedIsGone'
<1> SUFFICES ASSUME TypeOK, Nested, ReleasedIsGone, [Next]_vars, quit' = "no"
             PROVE  /\ \A e \in Entity : life'[e] = "released" => entry'[e] = "absent"
                    /\ \A p \in DOMAIN passes' : life'[passes'[p].key] # "released"
  BY DEF ReleasedIsGone, ReleasedHasNoObservers
<1> DEFINE Goal == /\ \A e \in Entity : life'[e] = "released" => entry'[e] = "absent"
                   /\ \A p \in DOMAIN passes' : life'[passes'[p].key] # "released"
<1>0. /\ SetTyped /\ passes \in Seq(Observers!Pass)
      /\ entry \in [Entity -> {"absent", "taken", "map"}] /\ members \in [Entity -> SUBSET Id]
      /\ life \in [Entity -> {"alive", "dead", "released"}]
      /\ \A p \in DOMAIN passes : passes[p].key \in Entity
  <2>1. SetTyped /\ OtherTyped
    BY TypeParts
  <2>2. passes \in Seq(Observers!Pass)
    BY <2>1 DEF SetTyped, Observers!TypeOK
  <2>3. \A p \in DOMAIN passes : passes[p] \in Observers!Pass
    BY <2>2
  <2> QED BY <2>1, <2>2, <2>3 DEF SetTyped, OtherTyped, Observers!TypeOK, Observers!Pass, Observers!Id, Id
<1>1. quit = "no"
  BY DEF Next, User, Update, Flush, Notify, DropLast, Observe, DropSubscription, EnterBare, LeaveBare,
       StartUpdate, FinishUpdate, BeginDraw, EndDraw, Release, ApplyNotify, ApplyActivate, Returned,
       Visit, HandlerReturns, EndRetain, EndFlush, BeginShutdown, ShutdownFlush, vars
<1>2. /\ \A e \in Entity : life[e] = "released" => entry[e] = "absent"
      /\ \A p \in DOMAIN passes : life[passes[p].key] # "released"
  BY <1>1 DEF ReleasedIsGone, ReleasedHasNoObservers
<1>3. CASE UNCHANGED <<life, entry, passes>>
  BY <1>2, <1>3
<1>4. CASE \E e \in Entity : Notify(e)
  BY <1>3, <1>4 DEF Notify, setVars
<1>5. CASE \E e \in Entity : DropLast(e)
  <2>1. PICK e \in Entity : DropLast(e)
    BY <1>5
  <2>2. /\ life' = [life EXCEPT ![e] = "dead"] /\ UNCHANGED <<entry, passes>>
    BY <2>1 DEF DropLast, setVars
  <2>3. \A f \in Entity : life'[f] = "released" => life[f] = "released"
    BY <1>0, <2>2
  <2>4. \A p \in DOMAIN passes : life'[passes[p].key] # "released"
    BY <1>0, <1>2, <2>3
  <2> QED BY <1>2, <2>2, <2>3, <2>4
<1>6. CASE Observe
  <2> DEFINE k == emitterOf[nextId]
  <2>1. life[k] = "alive" /\ UNCHANGED <<life, passes>> /\ Observers!SetMembers(k, members[k] \cup {nextId})
    BY <1>6 DEF Observe, Observers!Insert
  <2>2. k \in Entity
    BY <1>0, <1>6 DEF Observe, SetTyped, Observers!TypeOK, Observers!Id, Id
  <2> HIDE DEF k
  <2>3. \A f \in Entity : f # k => entry'[f] = entry[f]
    BY <1>0, <2>1, <2>2 DEF Observers!SetMembers
  <2> QED BY <1>2, <2>1, <2>3
<1>7. CASE \E i \in Id : DropSubscription(i)
  <2>1. PICK i \in Id : Observers!DropSubscription(i) /\ UNCHANGED life
    BY <1>7 DEF DropSubscription
  <2>2. UNCHANGED passes /\ Observers!Unsubscribe(i)
    BY <2>1 DEF Observers!DropSubscription
  <2>3. PICK k : k = emitterOf[i]
    OBVIOUS
  <2>4. UNCHANGED entry \/ (entry[k] = "map" /\ Observers!SetMembers(k, members[k] \ {i}))
    BY <2>2, <2>3 DEF Observers!Unsubscribe
  <2>5. \A f \in Entity : entry[f] = "absent" => entry'[f] = "absent"
    BY <1>0, <2>4 DEF Observers!SetMembers
  <2> QED BY <1>2, <2>1, <2>2, <2>5
<1>8. CASE \E e \in Entity : Release(e)
  <2>1. PICK e \in Entity : Release(e)
    BY <1>8
  <2>2. passes = << >> /\ life' = [life EXCEPT ![e] = "released"]
    BY <1>1, <2>1, NoPassInFlush DEF Release
  <2>3. entry'[e] = "absent" /\ UNCHANGED passes /\ \A f \in Entity : f # e => entry'[f] = entry[f]
    <3>1. CASE entry[e] = "absent" /\ UNCHANGED setVars
      BY <3>1 DEF setVars
    <3>2. CASE Observers!RemoveEntry(e)
      BY <1>0, <3>2 DEF Observers!RemoveEntry, Observers!SetMembers
    <3> QED BY <2>1, <3>1, <3>2 DEF Release
  <2>4. \A f \in Entity : f # e => life'[f] = life[f]
    BY <1>0, <2>2
  <2>5. DOMAIN passes' = {}
    BY <2>2, <2>3
  <2> QED BY <1>2, <2>3, <2>4, <2>5
<1>9. CASE ApplyNotify
  <2>1. passes = << >> /\ UNCHANGED life
    BY <1>1, <1>9, NoPassInFlush DEF ApplyNotify, NextIs
  <2>2. CASE UNCHANGED setVars
    BY <1>3, <2>1, <2>2 DEF setVars
  <2>3. ASSUME NEW e \in Entity, Observers!TakeMap(e) PROVE Goal
    <3>1. entry[e] = "map"
      BY <2>3 DEF Observers!TakeMap
    <3>2. life[e] # "released"
      BY <1>2, <3>1
    <3>3. \A f \in Entity : f # e => entry'[f] = entry[f]
      BY <1>0, <2>3, TakeTyped
    <3>4. passes' = << [key |-> e, todo |-> members[e], kept |-> {}, current |-> None] >>
      BY <2>1, <2>3 DEF Observers!TakeMap
    <3>5. DOMAIN passes' = {1} /\ passes'[1].key = e
      BY <3>4
    <3> QED BY <1>2, <2>1, <3>2, <3>3, <3>5
  <2>4. Head(pendingEffects).entity \in Entity
    BY <1>9, EffectHead DEF TypeOK, ApplyNotify, NextIs
  <2> QED BY <1>9, <2>2, <2>3, <2>4 DEF ApplyNotify
<1>10. CASE Visit \/ \E keep \in BOOLEAN : HandlerReturns(keep)
  <2>1. /\ UNCHANGED <<life, entry>>
        /\ SetTyped' /\ Len(passes') = Len(passes)
        /\ \A p \in DOMAIN passes : passes'[p].key = passes[p].key
    BY <1>0, <1>10, VisitTyped, ReturnTyped
       DEF Visit, HandlerReturns, Observers!Visit, Observers!Return
  <2>2. passes' \in Seq(Observers!Pass)
    BY <2>1 DEF SetTyped, Observers!TypeOK
  <2>3. DOMAIN passes' = DOMAIN passes
    BY <1>0, <2>1, <2>2
  <2> QED BY <1>2, <2>1, <2>3
<1>11. CASE EndRetain
  <2>1. Observers!EndRetain /\ UNCHANGED life
    BY <1>11 DEF EndRetain
  <2>2. /\ \A p \in DOMAIN passes' : p \in DOMAIN passes /\ passes'[p] = passes[p]
        /\ \A k \in Entity : k # Running.key => entry'[k] = entry[k]
        /\ passes # << >>
    BY <1>0, <2>1, EndRetainTyped
  <2>3. life[Running.key] # "released"
    BY <1>0, <1>2, <2>2, PassTyped DEF Running
  <2> QED BY <1>2, <2>1, <2>2, <2>3
<1>12. CASE Update
  BY <1>3, <1>12 DEF Update, EnterBare, LeaveBare, StartUpdate, FinishUpdate, BeginDraw, EndDraw, setVars
<1>13. CASE ApplyActivate \/ Returned \/ EndFlush \/ UNCHANGED vars
  BY <1>3, <1>13 DEF ApplyActivate, Returned, EndFlush, Observers!Activate, vars, setVars
<1>14. CASE BeginShutdown \/ ShutdownFlush
  BY <1>3, <1>14 DEF BeginShutdown, ShutdownFlush, setVars
<1> QED BY <1>4, <1>5, <1>6, <1>7, <1>8, <1>9, <1>10, <1>11, <1>12, <1>13, <1>14 DEF Next, User, Flush

-----------------------------------------------------------------------------
(* Where the observers are *)

Place(i) == i \in members[emitterOf[i]] \/ \E p \in DOMAIN passes : Observers!HeldByPass(p, i)

\* An observer is in the map of its emitter or in a pass over it, is invoked only
\* when active, and as long as it is live has its place and no mark.
SetWhole ==
  /\ \A k \in Entity : \A i \in members[k] : emitterOf[i] = k /\ i < nextId
  /\ \A p \in DOMAIN passes, i \in Id :
       Observers!HeldByPass(p, i) => emitterOf[i] = passes[p].key /\ i < nextId
  /\ \A p \in DOMAIN passes : passes[p].current # None => passes[p].current \in active
  /\ \A i \in active \cup held : i < nextId
  /\ \A i \in Id : fate[i] = "live" => Place(i)
  /\ \A d \in dropped : fate[d[2]] # "live" /\ d[2] < nextId

LEMMA InitWhole == Init => SetWhole
<1> SUFFICES ASSUME Init PROVE SetWhole
  OBVIOUS
<1>1. /\ \A k \in Entity : members[k] = {}
      /\ DOMAIN passes = {} /\ active \cup held = {} /\ dropped = {}
      /\ \A i \in Id : fate[i] # "live"
  BY DEF Init, Observers!Init, Observers!Id, Id
<1> QED BY <1>1 DEF SetWhole

\* What SetWhole reads of the types.
LEMMA SetParts ==
  ASSUME SetTyped
  PROVE  /\ members \in [Entity -> SUBSET Id] /\ fate \in [Id -> Observers!Fate]
         /\ emitterOf \in [Id -> Entity] /\ passes \in Seq(Observers!Pass)
         /\ active \cup held \subseteq Id /\ dropped \subseteq Entity \X Id
         /\ nextId \in 0..MaxId + 1 /\ nextId \in Int /\ \A i \in Id : i \in Int
         /\ entry \in [Entity -> {"absent", "taken", "map"}]
         /\ \A k \in Entity : entry[k] = "map" <=> members[k] # {}
         /\ \A p \in DOMAIN passes : passes[p] \in Observers!Pass
<1>1. /\ members \in [Entity -> SUBSET Id] /\ fate \in [Id -> Observers!Fate]
      /\ emitterOf \in [Id -> Entity] /\ passes \in Seq(Observers!Pass)
      /\ active \cup held \subseteq Id /\ dropped \subseteq Entity \X Id
      /\ nextId \in 0..MaxId + 1
      /\ entry \in [Entity -> {"absent", "taken", "map"}]
      /\ \A k \in Entity : entry[k] = "map" <=> members[k] # {}
  BY DEF SetTyped, Observers!TypeOK, Observers!Id, Id
<1>2. nextId \in Int /\ \A i \in Id : i \in Int
  BY <1>1, BoundAssumption DEF Id
<1>3. \A p \in DOMAIN passes : passes[p] \in Observers!Pass
  BY <1>1
<1> QED BY <1>1, <1>2, <1>3

LEMMA InsertWhole == ASSUME SetTyped, SetWhole, nextId \in Id, Observers!Insert PROVE SetWhole'
<1>1. PICK k \in Entity : k = emitterOf[nextId]
  BY SetParts
<1>2. /\ \A j \in Entity : members'[j] = IF j = k THEN members[k] \cup {nextId} ELSE members[j]
      /\ fate' = [fate EXCEPT ![nextId] = "live"] /\ nextId' = nextId + 1
      /\ held' = held \cup {nextId}
      /\ UNCHANGED <<dropped, active, passes, emitterOf>>
  BY <1>1, SetParts DEF Observers!Insert, Observers!SetMembers
<1>3. \A i \in Int : i < nextId => i < nextId'
  BY <1>2, SetParts
<1>4. nextId < nextId'
  BY <1>2, SetParts
<1>5. \A j \in Entity : \A i \in members'[j] : emitterOf[i] = j /\ i < nextId'
  BY <1>1, <1>2, <1>3, <1>4, SetParts DEF SetWhole
<1>6. \A p \in DOMAIN passes, i \in Id :
        Observers!HeldByPass(p, i) => emitterOf[i] = passes[p].key /\ i < nextId'
  BY <1>3, SetParts DEF SetWhole
<1>7. \A i \in active \cup held' : i < nextId'
  BY <1>2, <1>3, <1>4, SetParts DEF SetWhole
<1>8. ASSUME NEW i \in Id, fate'[i] = "live" PROVE Place(i)'
  <2>1. CASE i = nextId
    BY <1>1, <1>2, <2>1 DEF Place
  <2>2. CASE i # nextId
    <3>1. Place(i)
      BY <1>2, <1>8, <2>2, SetParts DEF SetWhole
    <3> QED BY <1>2, <3>1, SetParts DEF Place, Observers!HeldByPass
  <2> QED BY <2>1, <2>2
<1>9. ASSUME NEW d \in dropped PROVE fate'[d[2]] # "live" /\ d[2] < nextId'
  <2>1. d[2] \in Id /\ fate[d[2]] # "live" /\ d[2] < nextId
    BY SetParts DEF SetWhole
  <2>2. d[2] # nextId
    BY <2>1, SetParts
  <2> QED BY <1>2, <1>3, <2>1, <2>2, SetParts
<1> QED BY <1>2, <1>5, <1>6, <1>7, <1>8, <1>9 DEF SetWhole, Observers!HeldByPass

LEMMA ActivateWhole ==
  ASSUME SetTyped, SetWhole, NEW i \in Id, Observers!Activate(i) PROVE SetWhole'
<1>1. /\ active' = active \cup {i} /\ i < nextId
      /\ UNCHANGED <<members, dropped, nextId, held, passes, emitterOf, fate>>
  BY DEF Observers!Activate
<1> QED BY <1>1 DEF SetWhole, Place, Observers!HeldByPass

LEMMA DropWhole ==
  ASSUME SetTyped, SetWhole, NEW i \in Id, Observers!DropSubscription(i) PROVE SetWhole'
<1>1. PICK k \in Entity : k = emitterOf[i]
  BY SetParts
<1>2. /\ \A j \in Id : fate'[j] = "live" => fate[j] = "live" /\ j # i
      /\ i < nextId /\ held' \subseteq held
      /\ UNCHANGED <<nextId, active, passes, emitterOf>>
  BY SetParts DEF Observers!DropSubscription, SetWhole
<1>3. /\ \A j \in Entity : members'[j] \subseteq members[j] /\ members[j] \subseteq members'[j] \cup {i}
      /\ dropped' \subseteq dropped \cup {<<k, i>>}
  <2>1. CASE UNCHANGED <<entry, members, dropped>>
    BY <2>1
  <2>2. CASE Observers!SetMembers(k, members[k] \ {i}) /\ UNCHANGED dropped
    BY <2>2, SetParts DEF Observers!SetMembers
  <2>3. CASE dropped' = dropped \cup {<<k, i>>} /\ UNCHANGED <<entry, members>>
    BY <2>3
  <2> QED BY <1>1, <2>1, <2>2, <2>3 DEF Observers!DropSubscription, Observers!Unsubscribe
<1>4. ASSUME NEW j \in Id, fate'[j] = "live" PROVE Place(j)'
  <2>1. Place(j) /\ j # i /\ emitterOf[j] \in Entity
    BY <1>2, <1>4, SetParts DEF SetWhole
  <2> QED BY <1>2, <1>3, <2>1 DEF Place, Observers!HeldByPass
<1>5. ASSUME NEW d \in dropped' PROVE fate'[d[2]] # "live" /\ d[2] < nextId'
  <2>1. CASE d \in dropped
    <3>1. d[2] \in Id /\ fate[d[2]] # "live" /\ d[2] < nextId
      BY <2>1, SetParts DEF SetWhole
    <3> QED BY <1>2, <3>1
  <2>2. CASE d = <<k, i>>
    BY <1>2, <2>2
  <2> QED BY <1>3, <2>1, <2>2
<1>6. \A j \in Entity : \A x \in members'[j] : emitterOf[x] = j /\ x < nextId
  BY <1>3 DEF SetWhole
<1> QED BY <1>2, <1>4, <1>5, <1>6 DEF SetWhole, Observers!HeldByPass

LEMMA RemoveWhole ==
  ASSUME SetTyped, SetWhole, NEW e \in Entity, Observers!RemoveEntry(e) PROVE SetWhole'
<1>1. /\ \A j \in Entity : members'[j] = IF j = e THEN {} ELSE members[j]
      /\ \A i \in Id : fate'[i] = IF i \in members[e] THEN "removed" ELSE fate[i]
      /\ UNCHANGED <<dropped, nextId, active, held, passes, emitterOf>>
  BY SetParts DEF Observers!RemoveEntry, Observers!SetMembers, Observers!Id, Id
<1>2. ASSUME NEW i \in Id, fate'[i] = "live" PROVE Place(i)'
  <2>1. Place(i) /\ i \notin members[e] /\ emitterOf[i] \in Entity
    BY <1>1, <1>2, SetParts DEF SetWhole
  <2> QED BY <1>1, <2>1 DEF Place, Observers!HeldByPass
<1>3. \A d \in dropped : fate'[d[2]] # "live" /\ d[2] < nextId
  <2>1. \A d \in dropped : d[2] \in Id /\ fate[d[2]] # "live" /\ d[2] < nextId
    BY SetParts DEF SetWhole
  <2> QED BY <1>1, <2>1
<1>4. \A j \in Entity : \A i \in members'[j] : emitterOf[i] = j /\ i < nextId
  BY <1>1 DEF SetWhole
<1> QED BY <1>1, <1>2, <1>3, <1>4 DEF SetWhole, Observers!HeldByPass

LEMMA TakeWhole ==
  ASSUME SetTyped, SetWhole, NEW e \in Entity, Observers!TakeMap(e)
  PROVE  /\ SetWhole'
         /\ \A p \in DOMAIN passes', i \in Id :
              Observers!HeldByPass(p, i)' => \/ p \in DOMAIN passes /\ Observers!HeldByPass(p, i)
                                             \/ i \in members[e]
         /\ \E p \in DOMAIN passes' : passes'[p].todo = members[e]
<1> DEFINE new == [key |-> e, todo |-> members[e], kept |-> {}, current |-> None]
<1>1. /\ passes' = Append(passes, new)
      /\ \A j \in Entity : members'[j] = IF j = e THEN {} ELSE members[j]
      /\ UNCHANGED <<dropped, nextId, active, held, emitterOf, fate>>
  BY SetParts DEF Observers!TakeMap
<1>2. new.key = e /\ new.todo = members[e] /\ new.kept = {} /\ new.current = None
  OBVIOUS
<1> HIDE DEF new
<1>3. PICK n : /\ DOMAIN passes' = DOMAIN passes \cup {n}
               /\ passes'[n] = new
               /\ \A p \in DOMAIN passes : passes'[p] = passes[p]
               /\ n \notin DOMAIN passes
  <2>1. passes \in Seq(Observers!Pass)
    BY SetParts
  <2>2. /\ DOMAIN passes' = DOMAIN passes \cup {Len(passes) + 1}
        /\ passes'[Len(passes) + 1] = new
        /\ \A p \in DOMAIN passes : passes'[p] = passes[p]
        /\ Len(passes) + 1 \notin DOMAIN passes
    BY <1>1, <2>1
  <2> QED BY <2>2
<1>4. \A p \in DOMAIN passes, i \in Id : Observers!HeldByPass(p, i)' <=> Observers!HeldByPass(p, i)
  BY <1>3 DEF Observers!HeldByPass
<1>5. \A i \in Id : Observers!HeldByPass(n, i)' <=> i \in members[e]
  <2>1. \A i \in Id : i # None
    BY NoneAssumption DEF Id
  <2>2. \A i \in Id : Observers!HeldByPass(n, i)' <=> i \in passes'[n].todo \cup passes'[n].kept \cup {passes'[n].current}
    BY DEF Observers!HeldByPass
  <2> QED BY <1>2, <1>3, <2>1, <2>2
<1>6. ASSUME NEW i \in Id, fate'[i] = "live" PROVE Place(i)'
  <2>1. Place(i) /\ emitterOf[i] \in Entity
    BY <1>1, <1>6, SetParts DEF SetWhole
  <2>2. CASE i \in members[emitterOf[i]]
    BY <1>1, <1>3, <1>5, <2>1, <2>2 DEF Place
  <2>3. CASE \E p \in DOMAIN passes : Observers!HeldByPass(p, i)
    BY <1>3, <1>4, <2>3 DEF Place
  <2> QED BY <2>1, <2>2, <2>3 DEF Place
<1>7. \A p \in DOMAIN passes', i \in Id :
        Observers!HeldByPass(p, i)' => emitterOf'[i] = passes'[p].key /\ i < nextId'
  BY <1>1, <1>2, <1>3, <1>4, <1>5 DEF SetWhole
<1>8. \A p \in DOMAIN passes' : passes'[p].current # None => passes'[p].current \in active
  BY <1>2, <1>3 DEF SetWhole
<1>9. \A j \in Entity : \A i \in members'[j] : emitterOf[i] = j /\ i < nextId
  BY <1>1 DEF SetWhole
<1>10. SetWhole'
  BY <1>1, <1>6, <1>7, <1>8, <1>9 DEF SetWhole
<1> QED BY <1>2, <1>3, <1>4, <1>5, <1>10

LEMMA InPassWhole ==
  ASSUME SetTyped, SetWhole,
         NEW keep \in BOOLEAN, Observers!Visit \/ Observers!Return(keep)
  PROVE  SetWhole'
<1>1. /\ UNCHANGED <<members, dropped, nextId, active, held, emitterOf>>
      /\ \A i \in Id : fate'[i] = "live" => fate[i] = "live"
      /\ \A p \in DOMAIN passes : passes'[p].key = passes[p].key
      /\ \A p \in DOMAIN passes, i \in Id : Observers!HeldByPass(p, i)' => Observers!HeldByPass(p, i)
      /\ \A p \in DOMAIN passes, i \in Id : Observers!HeldByPass(p, i) => Observers!HeldByPass(p, i)' \/ fate'[i] # "live"
      /\ \A p \in DOMAIN passes : passes'[p].current \in active \cup {None} \/ passes'[p] = passes[p]
  <2>1. CASE Observers!Visit
    BY <2>1, VisitTyped DEF Observers!Visit
  <2>2. CASE Observers!Return(keep)
    BY <2>2, ReturnTyped DEF Observers!Return
  <2> QED BY <2>1, <2>2
<1>2. DOMAIN passes' = DOMAIN passes
  <2>1. SetTyped' /\ Len(passes') = Len(passes)
    BY VisitTyped, ReturnTyped
  <2>2. passes' \in Seq(Observers!Pass) /\ passes \in Seq(Observers!Pass)
    BY <2>1 DEF SetTyped, Observers!TypeOK
  <2> QED BY <2>1, <2>2
<1>3. ASSUME NEW i \in Id, fate'[i] = "live" PROVE Place(i)'
  <2>1. Place(i)
    BY <1>1, <1>3 DEF SetWhole
  <2>2. CASE i \in members[emitterOf[i]]
    BY <1>1, <2>2 DEF Place
  <2>3. CASE \E p \in DOMAIN passes : Observers!HeldByPass(p, i)
    BY <1>1, <1>2, <1>3, <2>3 DEF Place
  <2> QED BY <2>1, <2>2, <2>3 DEF Place
<1>4. \A d \in dropped : fate'[d[2]] # "live" /\ d[2] < nextId
  <2>1. \A d \in dropped : d[2] \in Id /\ fate[d[2]] # "live" /\ d[2] < nextId
    BY SetParts DEF SetWhole
  <2> QED BY <1>1, <2>1
<1>5. \A p \in DOMAIN passes' : passes'[p].current # None => passes'[p].current \in active'
  BY <1>1, <1>2 DEF SetWhole
<1>6. \A p \in DOMAIN passes', i \in Id :
        Observers!HeldByPass(p, i)' => emitterOf'[i] = passes'[p].key /\ i < nextId'
  BY <1>1, <1>2 DEF SetWhole
<1> QED BY <1>1, <1>3, <1>4, <1>5, <1>6 DEF SetWhole

LEMMA EndRetainWhole == ASSUME SetTyped, SetWhole, Observers!EndRetain PROVE SetWhole'
<1>1. /\ passes # << >> /\ Running.current = None /\ Running.todo = {}
      /\ dropped' = {} /\ passes' = SubSeq(passes, 1, Len(passes) - 1)
      /\ UNCHANGED <<nextId, active, held, emitterOf, fate>>
  BY DEF Observers!EndRetain, Observers!Top, Observers!Depth, Running
<1>2. PICK n \in DOMAIN passes : n = Len(passes)
  BY <1>1, PassTyped
<1>3. PICK k \in Entity : k = Running.key
  BY <1>1, PassTyped
<1> DEFINE put == (Running.kept \cup members[k]) \ {d[2] : d \in dropped}
<1>4. \A j \in Entity : members'[j] = IF j = k THEN put ELSE members[j]
  BY <1>3, SetParts DEF Observers!EndRetain, Observers!SetMembers, Observers!Top, Observers!Depth, Running
<1>5. \A i \in Id : Observers!HeldByPass(n, i) <=> i \in Running.kept
  <2>1. \A i \in Id : i # None
    BY NoneAssumption DEF Id
  <2> QED BY <1>1, <1>2, <2>1 DEF Observers!HeldByPass, Running
<1>6. Running.kept \subseteq Id
  BY <1>1, PassTyped
<1>7. \A i \in put : emitterOf[i] = k /\ i < nextId
  BY <1>2, <1>3, <1>5, <1>6 DEF SetWhole, Running
<1>8. /\ DOMAIN passes' = DOMAIN passes \ {n}
      /\ \A p \in DOMAIN passes' : passes'[p] = passes[p]
  <2>1. /\ passes' \in Seq(Observers!Pass) /\ Len(passes') = Len(passes) - 1
        /\ \A p \in 1..Len(passes) - 1 : passes'[p] = passes[p]
    BY <1>1, FrontIsSeq, SetParts
  <2>2. DOMAIN passes' = 1..Len(passes) - 1 /\ DOMAIN passes = 1..Len(passes) /\ Len(passes) \in Nat \ {0}
    BY <1>1, <2>1, SetParts
  <2> QED BY <1>2, <2>1, <2>2
<1>9. ASSUME NEW i \in Id, fate[i] = "live" PROVE Place(i)'
  <2>1. Place(i) /\ emitterOf[i] \in Entity
    BY <1>9, SetParts DEF SetWhole
  <2>2. i \notin {d[2] : d \in dropped}
    BY <1>9 DEF SetWhole
  <2>3. CASE i \in members[emitterOf[i]]
    BY <1>1, <1>4, <2>1, <2>2, <2>3 DEF Place
  <2>4. ASSUME NEW p \in DOMAIN passes, Observers!HeldByPass(p, i) PROVE Place(i)'
    <3>1. CASE p = n
      <4>1. i \in Running.kept /\ emitterOf[i] = k
        BY <1>2, <1>3, <1>5, <2>4, <3>1 DEF SetWhole, Running
      <4> QED BY <1>1, <1>4, <2>2, <4>1 DEF Place
    <3>2. CASE p # n
      <4>1. p \in DOMAIN passes' /\ Observers!HeldByPass(p, i)'
        BY <1>8, <2>4, <3>2 DEF Observers!HeldByPass
      <4> QED BY <4>1 DEF Place
    <3> QED BY <3>1, <3>2
  <2> QED BY <2>1, <2>3, <2>4 DEF Place
<1> HIDE DEF put
<1>10. \A j \in Entity : \A i \in members'[j] : emitterOf[i] = j /\ i < nextId
  BY <1>4, <1>7 DEF SetWhole
<1>11. \A p \in DOMAIN passes', i \in Id :
         Observers!HeldByPass(p, i)' => emitterOf[i] = passes'[p].key /\ i < nextId
  BY <1>8 DEF SetWhole, Observers!HeldByPass
<1>12. \A p \in DOMAIN passes' : passes'[p].current # None => passes'[p].current \in active
  BY <1>8 DEF SetWhole
<1> QED BY <1>1, <1>9, <1>10, <1>11, <1>12 DEF SetWhole

LEMMA WholeStep == TypeOK /\ SetWhole /\ [Next]_vars => SetWhole'
<1> SUFFICES ASSUME TypeOK, SetWhole, [Next]_vars PROVE SetWhole'
  OBVIOUS
<1>0. SetTyped
  BY TypeParts
<1>1. CASE UNCHANGED setVars
  BY <1>1 DEF SetWhole, Place, Observers!HeldByPass, setVars
<1>2. CASE Observe
  BY <1>0, <1>2, InsertWhole DEF Observe
<1>3. CASE \E i \in Id : DropSubscription(i)
  BY <1>0, <1>3, DropWhole DEF DropSubscription
<1>4. CASE \E e \in Entity : Release(e)
  BY <1>0, <1>1, <1>4, RemoveWhole DEF Release
<1>5. CASE ApplyNotify
  <2>1. PICK e \in Entity : Observers!TakeMap(e) \/ UNCHANGED setVars
    BY <1>5, EffectHead DEF ApplyNotify, NextIs, TypeOK
  <2> QED BY <1>0, <1>1, <2>1, TakeWhole
<1>6. CASE ApplyActivate
  <2>1. PICK i \in Id : Observers!Activate(i)
    BY <1>6, EffectHead DEF ApplyActivate, NextIs, TypeOK
  <2> QED BY <1>0, <2>1, ActivateWhole
<1>7. CASE Visit
  BY <1>0, <1>7, InPassWhole DEF Visit
<1>8. CASE \E keep \in BOOLEAN : HandlerReturns(keep)
  BY <1>0, <1>8, InPassWhole DEF HandlerReturns
<1>9. CASE EndRetain
  BY <1>0, <1>9, EndRetainWhole DEF EndRetain
<1>10. CASE (\E e \in Entity : Notify(e) \/ DropLast(e)) \/ Update
  BY <1>1, <1>10 DEF Notify, DropLast, Update, EnterBare, LeaveBare, StartUpdate, FinishUpdate,
       BeginDraw, EndDraw
<1>11. CASE Returned \/ EndFlush \/ BeginShutdown \/ ShutdownFlush \/ UNCHANGED vars
  BY <1>1, <1>11 DEF Returned, EndFlush, BeginShutdown, ShutdownFlush, vars
<1> QED BY <1>2, <1>3, <1>4, <1>5, <1>6, <1>7, <1>8, <1>9, <1>10, <1>11 DEF Next, User, Flush

-----------------------------------------------------------------------------
(* Which notifications an observer is told of *)

ActivateAt(p, i) == pendingEffects[p] = [kind |-> "activate", id |-> i]

\* An observer that is active, or that will be before the notification at p is
\* applied, was there when the notification was made; and so was one that a
\* pass invokes.
Told ==
  /\ \A p \in DOMAIN pendingEffects, i \in Id : ActivateAt(p, i) => i < nextId
  /\ \A p \in DOMAIN pendingEffects, i \in Id :
       /\ NotifyAt(p, emitterOf[i])
       /\ i \in active \/ \E q \in DOMAIN pendingEffects : q < p /\ ActivateAt(q, i)
       => i \in news
  /\ quit = "no" => \A p \in DOMAIN passes, i \in active : Observers!HeldByPass(p, i) => i \in news

LEMMA InitTold == Init => Told
<1> SUFFICES ASSUME Init PROVE Told
  OBVIOUS
<1>1. DOMAIN passes = {} /\ DOMAIN pendingEffects = {}
  BY DEF Init, Observers!Init
<1> QED BY <1>1 DEF Told

\* Where the effects and the set stay as they are, or only lose something.
LEMMA ToldKept ==
  ASSUME Told,
         pendingEffects' = pendingEffects, UNCHANGED <<nextId, active, emitterOf>>,
         quit' = "no" => quit = "no",
         DOMAIN passes' \subseteq DOMAIN passes, active \subseteq Id,
         \A p \in DOMAIN passes', i \in Id : Observers!HeldByPass(p, i)' => Observers!HeldByPass(p, i),
         news \subseteq news'
  PROVE  Told'
<1>1. \A p \in DOMAIN pendingEffects, i \in Id : ActivateAt(p, i)' <=> ActivateAt(p, i)
  BY DEF ActivateAt
<1>2. \A p \in DOMAIN pendingEffects, i \in Id : NotifyAt(p, emitterOf[i])' <=> NotifyAt(p, emitterOf[i])
  BY DEF NotifyAt
<1>3. \A p \in DOMAIN pendingEffects', i \in Id : ActivateAt(p, i)' => i < nextId'
  BY <1>1 DEF Told
<1>4. \A p \in DOMAIN pendingEffects', i \in Id :
        /\ NotifyAt(p, emitterOf[i])'
        /\ i \in active' \/ \E q \in DOMAIN pendingEffects' : q < p /\ ActivateAt(q, i)'
        => i \in news'
  BY <1>1, <1>2 DEF Told
<1>5. quit' = "no" => \A p \in DOMAIN passes', i \in active' : Observers!HeldByPass(p, i)' => i \in news'
  BY DEF Told
<1> QED BY <1>3, <1>4, <1>5 DEF Told

\* An effect joins the queue.
LEMMA ToldQueued ==
  ASSUME TypeOK, Told, SetWhole, NEW effect \in Effect, Queue(effect),
         effect.kind = "activate" => effect.id < nextId' /\ effect.id \in Id,
         effect.kind = "notify" => \A i \in Id : i < nextId /\ emitterOf[i] = effect.entity => i \in news',
         \A i \in Int : i < nextId => i < nextId',
         UNCHANGED <<active, passes, emitterOf, quit>>, news \subseteq news'
  PROVE  Told'
<1>0. SetTyped /\ pendingEffects \in Seq(Effect) /\ (\A i \in Id : i \in Int) /\ active \subseteq Id
  BY TypeParts, SetParts DEF TypeOK
<1> DEFINE n == Len(pendingEffects) + 1
<1>1. /\ DOMAIN pendingEffects' = DOMAIN pendingEffects \cup {n}
      /\ pendingEffects'[n] = effect
      /\ \A p \in DOMAIN pendingEffects : pendingEffects'[p] = pendingEffects[p] /\ p < n /\ p \in Int
      /\ n \in Int
  <2>1. (\A p \in DOMAIN pendingEffects : p < n /\ p \in Int) /\ n \in Int
    BY <1>0
  <2>2. /\ DOMAIN pendingEffects' = DOMAIN pendingEffects \cup {n}
        /\ pendingEffects'[n] = effect
        /\ \A p \in DOMAIN pendingEffects : pendingEffects'[p] = pendingEffects[p]
    BY <1>0, Queued
  <2> HIDE DEF n
  <2> QED BY <2>1, <2>2
<1>2. PICK m : m = n
  OBVIOUS
<1> HIDE DEF n
<1>3. /\ DOMAIN pendingEffects' = DOMAIN pendingEffects \cup {m}
      /\ pendingEffects'[m] = effect
      /\ \A p \in DOMAIN pendingEffects : pendingEffects'[p] = pendingEffects[p] /\ p < m /\ p \in Int
      /\ m \in Int
  BY <1>1, <1>2
<1>4. \A p \in DOMAIN pendingEffects, i \in Id : ActivateAt(p, i)' <=> ActivateAt(p, i)
  BY <1>3 DEF ActivateAt
<1>5. \A p \in DOMAIN pendingEffects, i \in Id : NotifyAt(p, emitterOf[i])' <=> NotifyAt(p, emitterOf[i])
  BY <1>3 DEF NotifyAt
<1>6. \A i \in Id : ActivateAt(m, i)' => i < nextId'
  BY <1>3 DEF ActivateAt
<1>7. \A i \in Id : NotifyAt(m, emitterOf[i])' /\ i < nextId => i \in news'
  BY <1>3 DEF NotifyAt
<1>8. \A p \in DOMAIN pendingEffects', i \in Id : ActivateAt(p, i)' => i < nextId'
  BY <1>0, <1>3, <1>4, <1>6 DEF Told
<1>9. ASSUME NEW p \in DOMAIN pendingEffects', NEW i \in Id, NotifyAt(p, emitterOf[i])',
             i \in active \/ \E q \in DOMAIN pendingEffects' : q < p /\ ActivateAt(q, i)'
      PROVE  i \in news'
  <2>1. ~(m < m) /\ \A q \in DOMAIN pendingEffects : ~(m < q)
    BY <1>3
  <2>2. i \in active \/ \E q \in DOMAIN pendingEffects : q < p /\ ActivateAt(q, i)
    BY <1>3, <1>4, <1>9, <2>1
  <2>3. i < nextId
    BY <2>2 DEF Told, SetWhole
  <2> QED BY <1>3, <1>5, <1>7, <1>9, <2>2, <2>3 DEF Told
<1>10. quit' = "no" => \A p \in DOMAIN passes', i \in active' : Observers!HeldByPass(p, i)' => i \in news'
  BY DEF Told, Observers!HeldByPass
<1> QED BY <1>8, <1>9, <1>10 DEF Told

\* The next effect leaves the queue; active' are those it activates too.
LEMMA ToldApplied ==
  ASSUME TypeOK, Told, SetWhole, pendingEffects # << >>, pendingEffects' = Tail(pendingEffects),
         \A i \in active' : i \in active \/ (i \in Id /\ ActivateAt(1, i)),
         UNCHANGED <<nextId, emitterOf, quit, news>>,
         quit = "no" => \A p \in DOMAIN passes', i \in active' : Observers!HeldByPass(p, i)' => i \in news
  PROVE  Told'
<1>0. pendingEffects \in Seq(Effect)
  BY DEF TypeOK
<1>1. /\ 1 \in DOMAIN pendingEffects
      /\ \A p \in DOMAIN pendingEffects' : /\ p + 1 \in DOMAIN pendingEffects
                                           /\ pendingEffects'[p] = pendingEffects[p + 1]
  BY <1>0, Applied
<1>2. /\ \A p \in DOMAIN pendingEffects' : 1 < p + 1
      /\ \A p, q \in DOMAIN pendingEffects' : q < p => q + 1 < p + 1
  <2>1. \A p \in DOMAIN pendingEffects' : p \in Nat \ {0}
    <3>1. pendingEffects' \in Seq(Effect)
      BY <1>0, EffectHead
    <3> QED BY <3>1
  <2> QED BY <2>1
<1>3. \A p \in DOMAIN pendingEffects', i \in Id : ActivateAt(p, i)' <=> ActivateAt(p + 1, i)
  BY <1>1 DEF ActivateAt
<1>4. \A p \in DOMAIN pendingEffects', i \in Id : NotifyAt(p, emitterOf[i])' <=> NotifyAt(p + 1, emitterOf[i])
  BY <1>1 DEF NotifyAt
<1>5. \A p \in DOMAIN pendingEffects', i \in Id : ActivateAt(p, i)' => i < nextId'
  BY <1>1, <1>3 DEF Told
<1>6. ASSUME NEW p \in DOMAIN pendingEffects', NEW i \in Id, NotifyAt(p, emitterOf[i])',
             i \in active' \/ \E q \in DOMAIN pendingEffects' : q < p /\ ActivateAt(q, i)'
      PROVE  i \in news'
  <2>1. i \in active \/ \E q \in DOMAIN pendingEffects : q < p + 1 /\ ActivateAt(q, i)
    BY <1>1, <1>2, <1>3, <1>6
  <2> QED BY <1>1, <1>4, <1>6, <2>1 DEF Told
<1> QED BY <1>5, <1>6 DEF Told

LEMMA ToldStep ==
  TypeOK /\ Nested /\ SetWhole /\ Told /\ [Next]_vars => Told'
<1> SUFFICES ASSUME TypeOK, Nested, SetWhole, Told, [Next]_vars PROVE Told'
  OBVIOUS
<1>0. SetTyped /\ pendingEffects \in Seq(Effect) /\ active \subseteq Id /\ emitterOf \in [Id -> Entity]
  BY TypeParts, SetParts DEF TypeOK
<1>1. CASE UNCHANGED <<setVars, pendingEffects, news>> /\ (quit' = "no" => quit = "no")
  BY <1>0, <1>1, ToldKept DEF setVars, Observers!HeldByPass
<1>2. ASSUME NEW e \in Entity, Notify(e) PROVE Told'
  <2>1. UNCHANGED <<setVars, quit>>
    BY <1>2 DEF Notify
  <2>2. CASE UNCHANGED <<queueVars, history>>
    BY <1>1, <2>1, <2>2 DEF queueVars, history
  <2>3. CASE QueueNotify(e) /\ news' = news \cup {i \in Id : i < nextId /\ emitterOf[i] = e}
    <3>1. CASE UNCHANGED queueVars
      BY <1>0, <2>1, <2>3, <3>1, ToldKept DEF setVars, queueVars, Observers!HeldByPass
    <3>2. CASE Queue([kind |-> "notify", entity |-> e])
      <4>1. PICK effect \in Effect : effect = [kind |-> "notify", entity |-> e]
        BY DEF Effect
      <4>2. effect.kind = "notify" /\ effect.entity = e
        BY <4>1
      <4> QED BY <2>1, <2>3, <3>2, <4>1, <4>2, ToldQueued DEF setVars
    <3> QED BY <2>3, <3>1, <3>2 DEF QueueNotify
  <2> QED BY <1>2, <2>2, <2>3 DEF Notify
<1>3. CASE Observe
  <2>1. PICK effect \in Effect : effect = [kind |-> "activate", id |-> nextId]
    BY <1>3 DEF Effect, Observe
  <2>2. effect.kind = "activate" /\ effect.id = nextId
    BY <2>1
  <2>3. /\ Queue(effect) /\ nextId \in Id /\ nextId' = nextId + 1
        /\ UNCHANGED <<active, passes, emitterOf, quit, news>>
    BY <1>3, <2>1 DEF Observe, Observers!Insert
  <2>4. nextId \in Int
    BY <1>0, SetParts
  <2>5. nextId < nextId' /\ \A i \in Int : i < nextId => i < nextId'
    BY <2>3, <2>4
  <2> QED BY <2>2, <2>3, <2>5, ToldQueued
<1>4. CASE \E i \in Id : DropSubscription(i)
  <2>1. UNCHANGED <<pendingEffects, nextId, active, passes, emitterOf, quit, news>>
    BY <1>4 DEF DropSubscription, Observers!DropSubscription, queueVars, history
  <2> QED BY <1>0, <2>1, ToldKept DEF Observers!HeldByPass
<1>5. CASE \E e \in Entity : Release(e)
  <2>1. UNCHANGED <<pendingEffects, nextId, active, passes, emitterOf, quit, news>>
    BY <1>5 DEF Release, Observers!RemoveEntry, queueVars, history, setVars
  <2> QED BY <1>0, <2>1, ToldKept DEF Observers!HeldByPass
<1>6. CASE ApplyNotify
  <2>1. /\ pendingEffects # << >> /\ pendingEffects' = Tail(pendingEffects)
        /\ Head(pendingEffects).kind = "notify" /\ Frame \in FlushFrame
        /\ UNCHANGED <<nextId, active, emitterOf, quit, news>>
    BY <1>6 DEF ApplyNotify, NextIs, Observers!TakeMap, setVars, history
  <2>2. PICK e \in Entity : /\ e = Head(pendingEffects).entity
                            /\ Observers!TakeMap(e) \/ UNCHANGED setVars
    BY <1>0, <1>6, <2>1, EffectHead DEF ApplyNotify
  <2>3. 1 \in DOMAIN pendingEffects /\ NotifyAt(1, e)
    <3>1. pendingEffects[1] = Head(pendingEffects) /\ 1 \in DOMAIN pendingEffects
      BY <1>0, <2>1
    <3>2. Head(pendingEffects) \in Effect
      BY <1>0, <2>1, EffectHead
    <3> QED BY <2>1, <2>2, <3>1, <3>2 DEF NotifyAt, Effect
  <2>4. ASSUME quit = "no", NEW p \in DOMAIN passes', NEW i \in active', Observers!HeldByPass(p, i)'
        PROVE  i \in news
    <3>1. i \in Id /\ i \in active
      BY <1>0, <2>1
    <3>2. CASE p \in DOMAIN passes /\ Observers!HeldByPass(p, i)
      BY <2>4, <3>1, <3>2 DEF Told
    <3>3. CASE i \in members[e]
      <4>1. emitterOf[i] = e
        BY <3>3 DEF SetWhole
      <4> QED BY <2>3, <3>1, <4>1 DEF Told
    <3>4. CASE UNCHANGED setVars
      BY <2>4, <3>1, <3>4 DEF Told, setVars, Observers!HeldByPass
    <3>5. CASE Observers!TakeMap(e)
      BY <1>0, <2>4, <3>1, <3>2, <3>3, <3>5, TakeWhole
    <3> QED BY <2>2, <3>4, <3>5
  <2> QED BY <2>1, <2>4, ToldApplied
<1>7. CASE ApplyActivate
  <2>1. /\ pendingEffects # << >> /\ pendingEffects' = Tail(pendingEffects)
        /\ Head(pendingEffects).kind = "activate" /\ Frame \in FlushFrame
        /\ active' = active \cup {Head(pendingEffects).id}
        /\ UNCHANGED <<nextId, passes, emitterOf, quit, news>>
    BY <1>7 DEF ApplyActivate, NextIs, Observers!Activate, history
  <2>2. PICK i \in Id : i = Head(pendingEffects).id
    BY <1>0, <2>1, EffectHead
  <2>3. ActivateAt(1, i)
    <3>1. pendingEffects[1] = Head(pendingEffects)
      BY <1>0, <2>1
    <3>2. Head(pendingEffects) \in Effect
      BY <1>0, <2>1, EffectHead
    <3> QED BY <2>1, <2>2, <3>1, <3>2 DEF ActivateAt, Effect
  <2>4. quit = "no" => DOMAIN passes' = {}
    BY <2>1, NoPassInFlush
  <2>5. \A j \in active' : j \in active \/ (j \in Id /\ ActivateAt(1, j))
    BY <2>1, <2>2, <2>3
  <2> QED BY <2>1, <2>4, <2>5, ToldApplied
<1>8. CASE Visit \/ \E keep \in BOOLEAN : HandlerReturns(keep)
  <2>1. /\ UNCHANGED <<pendingEffects, nextId, active, emitterOf, quit, news>>
        /\ SetTyped' /\ Len(passes') = Len(passes)
        /\ \A p \in DOMAIN passes, i \in Id : Observers!HeldByPass(p, i)' => Observers!HeldByPass(p, i)
    BY <1>0, <1>8, VisitTyped, ReturnTyped
       DEF Visit, HandlerReturns, Observers!Visit, Observers!Return, queueVars, history
  <2>2. DOMAIN passes' = DOMAIN passes
    <3>1. passes' \in Seq(Observers!Pass) /\ passes \in Seq(Observers!Pass)
      BY <1>0, <2>1 DEF SetTyped, Observers!TypeOK
    <3> QED BY <2>1, <3>1
  <2> QED BY <1>0, <2>1, <2>2, ToldKept
<1>9. CASE EndRetain
  <2>1. /\ UNCHANGED <<pendingEffects, nextId, active, emitterOf, quit, news>>
        /\ \A p \in DOMAIN passes' : p \in DOMAIN passes /\ passes'[p] = passes[p]
    BY <1>0, <1>9, EndRetainTyped DEF EndRetain, Observers!EndRetain, queueVars, history
  <2>2. \A p \in DOMAIN passes', i \in Id : Observers!HeldByPass(p, i)' => Observers!HeldByPass(p, i)
    BY <2>1 DEF Observers!HeldByPass
  <2> QED BY <1>0, <2>1, <2>2, ToldKept
<1>10. CASE (\E e \in Entity : DropLast(e)) \/ Update
  BY <1>1, <1>10 DEF DropLast, Update, EnterBare, LeaveBare, StartUpdate, FinishUpdate,
       BeginDraw, EndDraw, queueVars, history
<1>11. CASE Returned \/ EndFlush \/ BeginShutdown \/ ShutdownFlush \/ UNCHANGED vars
  BY <1>1, <1>11 DEF Returned, EndFlush, BeginShutdown, ShutdownFlush, vars, queueVars, history
<1> QED BY <1>2, <1>3, <1>4, <1>5, <1>6, <1>7, <1>8, <1>9, <1>10, <1>11 DEF Next, User, Flush

LEMMA ToldGivesNews == TypeOK /\ Nested /\ SetWhole /\ Told => NoOldNews
<1> SUFFICES ASSUME TypeOK, Nested, SetWhole, Told, quit = "no", InHandler
             PROVE  Running.current \in news
  BY DEF NoOldNews
<1>0. SetTyped /\ stack \in Seq(Label)
  BY TypeParts DEF StackTyped
<1>1. FramesIn({"pass"}) # {}
  BY <1>0, FrameOnTop DEF InHandler
<1>2. passes # << >>
  BY <1>1 DEF Nested
<1>3. PICK p \in DOMAIN passes : p = Len(passes) /\ Running = passes[p]
  BY <1>0, <1>2, PassTyped DEF Running
<1>4. Running.current \in active
  BY <1>3 DEF InHandler, SetWhole
<1> QED BY <1>3, <1>4 DEF Told, Observers!HeldByPass

-----------------------------------------------------------------------------
(* No notification is lost *)

OwedDue == owed \subseteq active /\ OwedIsPending

LEMMA InitOwed == Init => OwedDue
  BY DEF Init, OwedDue, OwedIsPending

\* Where no notification leaves the queue and no observer its place in a pass.
LEMMA OwedKept ==
  ASSUME OwedDue, UNCHANGED emitterOf, quit' = "no" => quit = "no",
         owed' \subseteq owed, active \subseteq active',
         \A i \in owed' : /\ fate'[i] = "live" => fate[i] = "live"
                          /\ life'[emitterOf[i]] = "alive" => life[emitterOf[i]] = "alive",
         \A p \in DOMAIN pendingEffects :
           p \in DOMAIN pendingEffects' /\ pendingEffects'[p] = pendingEffects[p],
         \A p \in DOMAIN passes : \A i \in passes[p].todo :
           i \in owed' => \E q \in DOMAIN passes' : i \in passes'[q].todo
  PROVE  OwedDue'
<1>1. \A p \in DOMAIN pendingEffects : \A e : NotifyAt(p, e) => NotifyAt(p, e)'
  BY DEF NotifyAt
<1>2. ASSUME quit' = "no", NEW i \in owed', fate'[i] = "live", life'[emitterOf'[i]] = "alive"
      PROVE  \/ \E p \in DOMAIN pendingEffects' : NotifyAt(p, emitterOf[i])'
             \/ \E p \in DOMAIN passes' : i \in passes'[p].todo
  <2>1. \/ \E p \in DOMAIN pendingEffects : NotifyAt(p, emitterOf[i])
        \/ \E p \in DOMAIN passes : i \in passes[p].todo
    BY <1>2 DEF OwedDue, OwedIsPending
  <2>2. CASE \E p \in DOMAIN pendingEffects : NotifyAt(p, emitterOf[i])
    <3>1. PICK p \in DOMAIN pendingEffects : NotifyAt(p, emitterOf[i])
      BY <2>2
    <3>2. p \in DOMAIN pendingEffects' /\ pendingEffects'[p] = [kind |-> "notify", entity |-> emitterOf'[i]]
      BY <3>1 DEF NotifyAt
    <3> QED BY <3>2 DEF NotifyAt
  <2>3. CASE \E p \in DOMAIN passes : i \in passes[p].todo
    BY <1>2, <2>3
  <2> QED BY <2>1, <2>2, <2>3
<1> QED BY <1>2 DEF OwedDue, OwedIsPending

LEMMA OwedStep ==
  TypeOK /\ PendingMatches /\ Nested /\ SetWhole /\ OwedDue /\ [Next]_vars => OwedDue'
<1> SUFFICES ASSUME TypeOK, PendingMatches, Nested, SetWhole, OwedDue, [Next]_vars PROVE OwedDue'
  OBVIOUS
<1>0. /\ SetTyped /\ pendingEffects \in Seq(Effect) /\ active \subseteq Id
      /\ emitterOf \in [Id -> Entity] /\ owed \subseteq active
  BY TypeParts, SetParts DEF TypeOK, OwedDue
<1>1. CASE UNCHANGED <<setVars, life, pendingEffects, owed>> /\ (quit' = "no" => quit = "no")
  BY <1>1, OwedKept DEF setVars
<1>2. ASSUME NEW e \in Entity, Notify(e) PROVE OwedDue'
  <2>1. UNCHANGED <<setVars, life, quit>>
    BY <1>2 DEF Notify
  <2>2. CASE UNCHANGED <<queueVars, history>>
    BY <1>1, <2>1, <2>2 DEF queueVars, history
  <2>3. CASE QueueNotify(e) /\ owed' = owed \cup (ObserversOf(e) \cap active)
    <3>1. \A p \in DOMAIN pendingEffects :
            p \in DOMAIN pendingEffects' /\ pendingEffects'[p] = pendingEffects[p]
      <4>1. CASE UNCHANGED queueVars
        BY <4>1 DEF queueVars
      <4>2. CASE Queue([kind |-> "notify", entity |-> e])
        <5>1. [kind |-> "notify", entity |-> e] \in Effect
          BY DEF Effect
        <5> QED BY <1>0, <4>2, <5>1, Queued
      <4> QED BY <2>3, <4>1, <4>2 DEF QueueNotify
    <3>2. \E p \in DOMAIN pendingEffects' : pendingEffects'[p] = [kind |-> "notify", entity |-> e]
      <4>1. CASE e \in pendingNotifications
        BY <3>1, <4>1 DEF PendingMatches, NotifyAt
      <4>2. CASE Queue([kind |-> "notify", entity |-> e])
        <5>1. [kind |-> "notify", entity |-> e] \in Effect
          BY DEF Effect
        <5> QED BY <1>0, <4>2, <5>1, Queued
      <4> QED BY <2>3, <4>1, <4>2 DEF QueueNotify
    <3>3. ASSUME quit = "no", NEW i \in owed', fate[i] = "live", life[emitterOf[i]] = "alive"
          PROVE  \/ \E p \in DOMAIN pendingEffects' : pendingEffects'[p] = [kind |-> "notify", entity |-> emitterOf[i]]
                 \/ \E p \in DOMAIN passes : i \in passes[p].todo
      <4>1. CASE i \in owed
        BY <3>1, <3>3, <4>1 DEF OwedDue, OwedIsPending, NotifyAt
      <4>2. CASE i \in ObserversOf(e)
        BY <3>2, <4>2 DEF ObserversOf
      <4> QED BY <2>3, <4>1, <4>2
    <3>4. owed' \subseteq active'
      BY <1>0, <2>1, <2>3 DEF setVars
    <3> QED BY <2>1, <3>3, <3>4 DEF OwedDue, OwedIsPending, NotifyAt, setVars
  <2> QED BY <1>2, <2>2, <2>3 DEF Notify
<1>3. CASE Observe
  <2>1. PICK effect \in Effect : effect = [kind |-> "activate", id |-> nextId]
    BY <1>3 DEF Effect, Observe
  <2>2. /\ Queue(effect) /\ fate' = [fate EXCEPT ![nextId] = "live"]
        /\ UNCHANGED <<active, passes, emitterOf, quit, owed, life>>
    BY <1>3, <2>1 DEF Observe, Observers!Insert
  <2>3. \A p \in DOMAIN pendingEffects :
          p \in DOMAIN pendingEffects' /\ pendingEffects'[p] = pendingEffects[p]
    BY <1>0, <2>2, Queued
  <2>4. \A i \in owed : i # nextId
    BY <1>0, SetParts DEF SetWhole
  <2>5. \A i \in owed : fate'[i] = fate[i]
    BY <1>0, <2>2, <2>4, SetParts
  <2> QED BY <2>2, <2>3, <2>5, OwedKept
<1>4. CASE \E i \in Id : DropSubscription(i)
  <2>1. /\ UNCHANGED <<pendingEffects, active, passes, emitterOf, quit, owed, life>>
        /\ \A i \in Id : fate'[i] = "live" => fate[i] = "live"
    BY <1>0, <1>4, SetParts DEF DropSubscription, Observers!DropSubscription, queueVars, history
  <2> QED BY <1>0, <2>1, OwedKept
<1>5. ASSUME NEW e \in Entity, DropLast(e) \/ Release(e) PROVE OwedDue'
  <2>1. UNCHANGED <<pendingEffects, active, passes, emitterOf, quit, owed>>
    BY <1>5 DEF DropLast, Release, Observers!RemoveEntry, queueVars, history, setVars
  <2>2. \A f \in Entity : life'[f] = "alive" => life[f] = "alive"
    BY <1>5 DEF DropLast, Release, TypeOK
  <2>3. \A i \in Id : fate'[i] = "live" => fate[i] = "live"
    BY <1>5 DEF DropLast, Release, Observers!RemoveEntry, Observers!Id, Id, setVars
  <2> QED BY <1>0, <2>1, <2>2, <2>3, OwedKept
<1>6. CASE ApplyNotify
  <2>1. /\ pendingEffects # << >> /\ pendingEffects' = Tail(pendingEffects)
        /\ Head(pendingEffects).kind = "notify" /\ Frame \in FlushFrame
        /\ UNCHANGED <<active, emitterOf, quit, owed, fate, life>>
    BY <1>6 DEF ApplyNotify, NextIs, Observers!TakeMap, setVars, history
  <2>2. PICK e \in Entity : /\ e = Head(pendingEffects).entity
                            /\ entry[e] = "map" => Observers!TakeMap(e)
                            /\ entry[e] # "map" => UNCHANGED setVars
    BY <1>0, <1>6, <2>1, EffectHead DEF ApplyNotify
  <2>3. ASSUME quit = "no", NEW i \in owed, fate[i] = "live", life[emitterOf[i]] = "alive"
        PROVE  \/ \E p \in DOMAIN pendingEffects' : pendingEffects'[p] = [kind |-> "notify", entity |-> emitterOf[i]]
               \/ \E p \in DOMAIN passes' : i \in passes'[p].todo
    <3>1. passes = << >> /\ i \in Id
      BY <1>0, <2>1, <2>3, NoPassInFlush
    <3>2. PICK p \in DOMAIN pendingEffects : pendingEffects[p] = [kind |-> "notify", entity |-> emitterOf[i]]
      BY <2>3, <3>1 DEF OwedDue, OwedIsPending, NotifyAt
    <3>3. CASE p # 1
      <4>1. PICK q \in DOMAIN pendingEffects' : p = q + 1 /\ pendingEffects'[q] = pendingEffects[p]
        BY <1>0, <2>1, <3>3, Applied
      <4> QED BY <3>2, <4>1
    <3>4. CASE p = 1
      <4>1. emitterOf[i] = e
        BY <1>0, <2>1, <2>2, <3>2, <3>4, Applied
      <4>2. i \in members[e]
        BY <2>3, <3>1, <4>1 DEF SetWhole, Place
      <4>3. Observers!TakeMap(e)
        BY <1>0, <2>2, <4>2, SetParts
      <4> QED BY <1>0, <4>2, <4>3, TakeWhole
    <3> QED BY <3>3, <3>4
  <2> QED BY <1>0, <2>1, <2>3 DEF OwedDue, OwedIsPending, NotifyAt
<1>7. CASE ApplyActivate
  <2>1. /\ pendingEffects # << >> /\ pendingEffects' = Tail(pendingEffects)
        /\ Head(pendingEffects).kind = "activate" /\ active \subseteq active'
        /\ UNCHANGED <<passes, emitterOf, quit, owed, fate, life>>
    BY <1>7 DEF ApplyActivate, NextIs, Observers!Activate, history
  <2>2. ASSUME NEW e, NEW p \in DOMAIN pendingEffects, pendingEffects[p] = [kind |-> "notify", entity |-> e]
        PROVE  \E q \in DOMAIN pendingEffects' : pendingEffects'[q] = [kind |-> "notify", entity |-> e]
    <3>1. pendingEffects[p].kind = "notify"
      BY <2>2
    <3>2. p # 1
      BY <1>0, <2>1, <3>1, Applied
    <3>3. PICK q \in DOMAIN pendingEffects' : p = q + 1 /\ pendingEffects'[q] = pendingEffects[p]
      BY <1>0, <2>1, <3>2, Applied
    <3> QED BY <2>2, <3>3
  <2> QED BY <1>0, <2>1, <2>2 DEF OwedDue, OwedIsPending, NotifyAt
<1>8. CASE Visit
  <2>1. /\ UNCHANGED <<pendingEffects, active, emitterOf, quit, fate, life>>
        /\ owed' = owed \ {Running'.current}
        /\ SetTyped' /\ Len(passes') = Len(passes)
        /\ \A p \in DOMAIN passes : \A i \in passes[p].todo :
             i \in passes'[p].todo \/ i = Running'.current \/ i \notin active
    BY <1>0, <1>8, VisitTyped DEF Visit, Observers!Visit, queueVars
  <2>2. DOMAIN passes' = DOMAIN passes
    <3>1. passes' \in Seq(Observers!Pass) /\ passes \in Seq(Observers!Pass)
      BY <1>0, <2>1 DEF SetTyped, Observers!TypeOK
    <3> QED BY <2>1, <3>1
  <2>3. \A p \in DOMAIN passes : \A i \in passes[p].todo :
          i \in owed' => \E q \in DOMAIN passes' : i \in passes'[q].todo
    BY <1>0, <2>1, <2>2
  <2> QED BY <2>1, <2>3, OwedKept
<1>9. CASE \E keep \in BOOLEAN : HandlerReturns(keep)
  <2>1. /\ UNCHANGED <<pendingEffects, active, emitterOf, quit, owed, life>>
        /\ SetTyped' /\ Len(passes') = Len(passes)
        /\ \A p \in DOMAIN passes : passes'[p].todo = passes[p].todo
        /\ \A i \in Id : fate'[i] = "live" => fate[i] = "live"
    BY <1>0, <1>9, ReturnTyped DEF HandlerReturns, Observers!Return, queueVars, history
  <2>2. DOMAIN passes' = DOMAIN passes
    <3>1. passes' \in Seq(Observers!Pass) /\ passes \in Seq(Observers!Pass)
      BY <1>0, <2>1 DEF SetTyped, Observers!TypeOK
    <3> QED BY <2>1, <3>1
  <2> QED BY <1>0, <2>1, <2>2, OwedKept
<1>10. CASE EndRetain
  <2>1. /\ UNCHANGED <<pendingEffects, active, emitterOf, quit, owed, fate, life>>
        /\ Running.todo = {} /\ passes # << >>
        /\ passes' = SubSeq(passes, 1, Len(passes) - 1)
    BY <1>10 DEF EndRetain, Observers!EndRetain, Observers!Top, Observers!Depth, Running, queueVars, history
  <2>2. ASSUME NEW p \in DOMAIN passes, NEW i \in passes[p].todo
        PROVE  \E q \in DOMAIN passes' : i \in passes'[q].todo
    <3>1. passes \in Seq(Observers!Pass)
      BY <1>0, SetParts
    <3>2. p # Len(passes) /\ p \in 1..Len(passes) /\ Len(passes) \in Nat
      BY <2>1, <2>2, <3>1 DEF Running
    <3>3. p \in 1..Len(passes) - 1
      BY <3>2
    <3>4. Len(passes') = Len(passes) - 1 /\ passes'[p] = passes[p] /\ passes' \in Seq(Observers!Pass)
      BY <2>1, <3>1, <3>3, FrontIsSeq
    <3>5. p \in DOMAIN passes'
      BY <3>3, <3>4
    <3> QED BY <2>2, <3>4, <3>5
  <2> QED BY <2>1, <2>2, OwedKept
<1>11. CASE Update
  BY <1>1, <1>11 DEF Update, EnterBare, LeaveBare, StartUpdate, FinishUpdate,
       BeginDraw, EndDraw, queueVars, history
<1>12. CASE Returned \/ EndFlush \/ BeginShutdown \/ ShutdownFlush \/ UNCHANGED vars
  BY <1>1, <1>12 DEF Returned, EndFlush, BeginShutdown, ShutdownFlush, vars, queueVars, history
<1> QED BY <1>2, <1>3, <1>4, <1>5, <1>6, <1>7, <1>8, <1>9, <1>10, <1>11, <1>12 DEF Next, User, Flush

-----------------------------------------------------------------------------
(* Theorems *)

\* The counter of updates is the number of updates on the stack, so every
\* finish_update and end of a flush matches its start_update.
THEOREM TypeCorrect == Spec => []TypeOK
<1> QED BY InitTyped, TypeStep, PTL DEF Spec

\* push_effect's filter and notify drop no notification that is not queued,
\* and queue none twice.
THEOREM PendingIsTheQueue == Spec => []PendingMatches
<1>1. TypeOK /\ PendingMatches /\ [Next]_vars => (TypeOK /\ PendingMatches)'
  BY TypeStep, PendingStep
<1> QED BY <1>1, InitTyped, InitPending, PTL DEF Spec

\* No update leaves the effects behind that it queued: the outermost one flushes
\* them, whatever was nested in it.
THEOREM NothingIsLeft == Spec => []IdleIsFlushed
<1>1. TypeOK /\ FlushIsDue /\ [Next]_vars => (TypeOK /\ FlushIsDue)'
  BY TypeStep, FlushIsDueStep
<1> QED BY <1>1, InitTyped, InitDue, DueGivesFlushed, PTL DEF Spec

\* App uses the set of its observers as retain takes for granted: it removes an
\* entity's observers and starts a pass only when no pass is under way.
THEOREM SetIsUsedAsAssumed == Spec => UsesSetAsAssumed
<1>1. TypeOK /\ Nested /\ [Next]_vars => (TypeOK /\ Nested)'
  BY TypeStep, NestedStep
<1>2. TypeOK /\ Nested /\ [Next]_vars => [quit # "no" \/ Observers!Next]_setVars
  BY SetUse
<1> QED BY <1>1, <1>2, InitTyped, InitNested, PTL DEF Spec, UsesSetAsAssumed

\* The observers of a released entity are gone with it, those included that
\* joined while a pass had the others.
THEOREM ReleasedLeavesNoObservers == Spec => []ReleasedHasNoObservers
<1> DEFINE I == TypeOK /\ Nested /\ ReleasedIsGone
<1>1. Init => I
  BY InitTyped, InitNested, InitGone
<1>2. I /\ [Next]_vars => I'
  BY TypeStep, NestedStep, GoneStep
<1>3. I => ReleasedHasNoObservers
  BY DEF ReleasedIsGone
<1> HIDE DEF I
<1> QED BY <1>1, <1>2, <1>3, PTL DEF Spec

\* The deferred activation does what it is for: whatever was queued before an
\* observer joined (observe), in whatever update or handler, its handler is not
\* called for it.
THEOREM NoneIsToldOldNews == Spec => []NoOldNews
<1> DEFINE I == TypeOK /\ Nested /\ SetWhole /\ Told
<1>1. Init => I
  BY InitTyped, InitNested, InitWhole, InitTold
<1>2. I /\ [Next]_vars => I'
  BY TypeStep, NestedStep, WholeStep, ToldStep
<1>3. I => NoOldNews
  BY ToldGivesNews
<1> HIDE DEF I
<1> QED BY <1>1, <1>2, <1>3, PTL DEF Spec

\* What becomes of a notification that notify queued, and no window being drawn
\* swallowed: each observer that was active then is told, whatever handlers
\* notify, observe, cancel or release before its turn, unless it left.
THEOREM NoQueuedNotificationIsLost == Spec => []OwedIsPending
<1> DEFINE I == TypeOK /\ PendingMatches /\ Nested /\ SetWhole /\ OwedDue
<1>1. Init => I
  BY InitTyped, InitPending, InitNested, InitWhole, InitOwed
<1>2. I /\ [Next]_vars => I'
  BY TypeStep, PendingStep, NestedStep, WholeStep, OwedStep
<1>3. I => OwedIsPending
  BY DEF OwedDue
<1> HIDE DEF I
<1> QED BY <1>1, <1>2, <1>3, PTL DEF Spec
=============================================================================
