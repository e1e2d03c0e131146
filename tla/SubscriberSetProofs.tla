------------------------ MODULE SubscriberSetProofs ------------------------
(***************************************************************************)
(* No subscriber is lost, invoked twice at once or kept after it was       *)
(* cancelled between passes, for every number of emitters, subscribers and *)
(* nested passes.                                                          *)
(***************************************************************************)
EXTENDS SubscriberSet, TLAPS

\* Passes inside one another are over the same emitter.
OneKey == \A p, q \in DOMAIN passes : passes[p].key = passes[q].key

\* An id that was not given out is nowhere.
Born ==
  \A i \in Id :
    /\ i >= nextId <=> fate[i] = "unborn"
    /\ i >= nextId => /\ \A k \in Emitter : i \notin members[k]
                      /\ \A p \in DOMAIN passes : ~HeldByPass(p, i)
                      /\ i \notin held

\* Callbacks are kept under their emitter.
Owned ==
  \A i \in Id :
    /\ \A k \in Emitter : i \in members[k] => emitterOf[i] = k
    /\ \A p \in DOMAIN passes : HeldByPass(p, i) => emitterOf[i] = passes[p].key

\* Only a pass leaves None in the place of a map.
TakenByPass == \A k \in Emitter : entry[k] = "taken" => PassedOver(k)

\* A mark is of a subscriber that was cancelled, or had ended before.
MarksAreDead == \A d \in dropped : fate[d[2]] \notin {"live", "unborn"}

IInv ==
  /\ TypeOK
  /\ OneKey
  /\ Born
  /\ Owned
  /\ TakenByPass
  /\ MarksAreDead
  /\ MarksOfThePass
  /\ LiveIsKept
  /\ InOnePlace
  /\ CancelledIsGone

LEMMA InitIInv == Init => IInv
<1> SUFFICES ASSUME Init PROVE IInv
  OBVIOUS
<1> USE DEF Init
<1>1. TypeOK
  BY BoundAssumption DEF TypeOK, Fate, Id
<1>2. OneKey /\ TakenByPass /\ MarksAreDead /\ MarksOfThePass
  BY DEF OneKey, TakenByPass, MarksAreDead, MarksOfThePass
<1>3. Born /\ Owned
  BY DEF Born, Owned, Id
<1>4. LiveIsKept /\ InOnePlace /\ CancelledIsGone
  BY DEF LiveIsKept, InOnePlace, CancelledIsGone
<1> QED BY <1>1, <1>2, <1>3, <1>4 DEF IInv

-----------------------------------------------------------------------------
(* The stack of passes *)

LEMMA TopIsPass ==
  ASSUME TypeOK, passes # << >>
  PROVE  /\ Depth \in DOMAIN passes /\ Top \in Pass
         /\ Top.todo \subseteq Id /\ Top.kept \subseteq Id /\ Top.current \in Id \cup {None}
         /\ Top.key \in Emitter
<1>1. passes \in Seq(Pass)
  BY DEF TypeOK
<1>2. Depth \in DOMAIN passes /\ Top \in Pass
  BY <1>1 DEF Depth, Top
<1> QED BY <1>2 DEF Pass

LEMMA KeysAreEmitters ==
  ASSUME TypeOK
  PROVE  \A p \in DOMAIN passes : passes[p].key \in Emitter
<1>1. passes \in Seq(Pass)
  BY DEF TypeOK
<1>2. \A p \in DOMAIN passes : passes[p] \in Pass
  BY <1>1
<1> QED BY <1>2 DEF Pass

LEMMA PushedPass ==
  ASSUME TypeOK, NEW x \in Pass, passes' = Append(passes, x)
  PROVE  /\ passes' \in Seq(Pass) /\ passes' # << >>
         /\ Depth + 1 \notin DOMAIN passes
         /\ DOMAIN passes' = DOMAIN passes \cup {Depth + 1}
         /\ \A p \in DOMAIN passes : passes'[p] = passes[p]
         /\ passes'[Depth + 1] = x
         /\ Depth' = Depth + 1
  BY DEF TypeOK, Depth

LEMMA PoppedPass ==
  ASSUME TypeOK, passes # << >>, passes' = SubSeq(passes, 1, Depth - 1)
  PROVE  /\ passes' \in Seq(Pass)
         /\ DOMAIN passes' = DOMAIN passes \ {Depth}
         /\ \A p \in DOMAIN passes' : passes'[p] = passes[p]
  BY DEF TypeOK, Depth

LEMMA ChangedTop ==
  ASSUME TypeOK, passes # << >>, NEW x \in Pass, SetTop(x)
  PROVE  /\ passes' \in Seq(Pass) /\ passes' # << >>
         /\ DOMAIN passes' = DOMAIN passes
         /\ \A p \in DOMAIN passes : p # Depth => passes'[p] = passes[p]
         /\ passes'[Depth] = x
         /\ Depth' = Depth
  BY DEF TypeOK, Depth, SetTop

LEMMA MembersSet ==
  ASSUME TypeOK, NEW k \in Emitter, NEW ids \in SUBSET Id, SetMembers(k, ids)
  PROVE  /\ entry' \in [Emitter -> {"absent", "taken", "map"}]
         /\ members' \in [Emitter -> SUBSET Id]
         /\ \A j \in Emitter : entry'[j] = "map" <=> members'[j] # {}
         /\ members'[k] = ids /\ entry'[k] # "taken"
         /\ \A j \in Emitter : j # k => members'[j] = members[j] /\ entry'[j] = entry[j]
  BY DEF TypeOK, SetMembers

\* Nothing of the passes changes.
LEMMA PassesSame ==
  ASSUME UNCHANGED passes
  PROVE  /\ \A k : PassedOver(k)' = PassedOver(k)
         /\ \A p, i : HeldByPass(p, i)' = HeldByPass(p, i)
         /\ Top' = Top
  BY DEF PassedOver, HeldByPass, Top, Depth

-----------------------------------------------------------------------------
(* The steps of user code *)

LEMMA InsertStep == IInv /\ Insert => IInv'
<1> SUFFICES ASSUME IInv, Insert PROVE IInv'
  OBVIOUS
<1> DEFINE k == emitterOf[nextId]
<1> USE DEF IInv, Insert
<1>1. nextId \in Id /\ k \in Emitter /\ nextId' = nextId + 1
  BY BoundAssumption DEF TypeOK, Id
<1>2. members[k] \cup {nextId} \in SUBSET Id
  BY <1>1 DEF TypeOK
<1>3. /\ entry' \in [Emitter -> {"absent", "taken", "map"}]
      /\ members' \in [Emitter -> SUBSET Id]
      /\ \A j \in Emitter : entry'[j] = "map" <=> members'[j] # {}
      /\ members'[k] = members[k] \cup {nextId} /\ entry'[k] # "taken"
      /\ \A j \in Emitter : j # k => members'[j] = members[j] /\ entry'[j] = entry[j]
  BY <1>1, <1>2, MembersSet
<1>4. /\ \A j : PassedOver(j)' = PassedOver(j)
      /\ \A p, i : HeldByPass(p, i)' = HeldByPass(p, i)
      /\ Top' = Top
  BY PassesSame
<1>5. /\ fate'[nextId] = "live" /\ fate[nextId] = "unborn"
      /\ \A i \in Id : i # nextId => fate'[i] = fate[i]
  BY <1>1 DEF TypeOK, Born, Id
<1> HIDE DEF k
<1>6. TypeOK'
  <2>1. fate' \in [Id -> Fate] /\ held' \subseteq Id /\ nextId' \in 0..MaxId + 1
    BY <1>1, BoundAssumption DEF TypeOK, Fate, Id
  <2> QED BY <1>3, <2>1 DEF TypeOK
<1>7. OneKey'
  BY DEF OneKey
<1>8. Born'
  <2> SUFFICES ASSUME NEW i \in Id
               PROVE  /\ i >= nextId' <=> fate'[i] = "unborn"
                      /\ i >= nextId' => /\ \A j \in Emitter : i \notin members'[j]
                                         /\ \A p \in DOMAIN passes' : ~HeldByPass(p, i)'
                                         /\ i \notin held'
    BY DEF Born
  <2>1. i >= nextId' => i # nextId /\ i >= nextId
    BY <1>1 DEF Id
  <2>2. i >= nextId /\ i # nextId => i >= nextId'
    BY <1>1 DEF Id
  <2> QED BY <1>1, <1>3, <1>4, <1>5, <2>1, <2>2 DEF Born
<1>9. Owned'
  BY <1>1, <1>3, <1>4 DEF Owned, k
<1>10. TakenByPass' /\ MarksAreDead' /\ MarksOfThePass'
  BY <1>3, <1>4, <1>5 DEF TakenByPass, MarksAreDead, MarksOfThePass, TypeOK
<1>11. LiveIsKept'
  BY <1>3, <1>4, <1>5 DEF LiveIsKept, k, TypeOK
<1>12. InOnePlace'
  BY <1>1, <1>3, <1>4 DEF InOnePlace, Born, Owned, TypeOK, Pass
<1>13. CancelledIsGone'
  BY <1>3, <1>4, <1>5 DEF CancelledIsGone
<1> QED BY <1>6, <1>7, <1>8, <1>9, <1>10, <1>11, <1>12, <1>13

LEMMA ActivateStep == \A i \in Id : IInv /\ Activate(i) => IInv'
<1> SUFFICES ASSUME IInv, NEW i \in Id, Activate(i) PROVE IInv'
  OBVIOUS
<1>1. /\ \A j : PassedOver(j)' = PassedOver(j)
      /\ \A p, j : HeldByPass(p, j)' = HeldByPass(p, j)
      /\ Top' = Top
  BY PassesSame DEF Activate
<1> QED BY <1>1 DEF IInv, Activate, TypeOK, OneKey, Born, Owned, TakenByPass, MarksAreDead,
                    MarksOfThePass, LiveIsKept, InOnePlace, CancelledIsGone

LEMMA DetachStep == \A i \in Id : IInv /\ Detach(i) => IInv'
<1> SUFFICES ASSUME IInv, NEW i \in Id, Detach(i) PROVE IInv'
  OBVIOUS
<1>1. /\ \A j : PassedOver(j)' = PassedOver(j)
      /\ \A p, j : HeldByPass(p, j)' = HeldByPass(p, j)
      /\ Top' = Top
  BY PassesSame DEF Detach
<1> QED BY <1>1 DEF IInv, Detach, TypeOK, OneKey, Born, Owned, TakenByPass, MarksAreDead,
                    MarksOfThePass, LiveIsKept, InOnePlace, CancelledIsGone

LEMMA StutterStep == IInv /\ UNCHANGED vars => IInv'
<1> SUFFICES ASSUME IInv, UNCHANGED vars PROVE IInv'
  OBVIOUS
<1>1. /\ \A j : PassedOver(j)' = PassedOver(j)
      /\ \A p, j : HeldByPass(p, j)' = HeldByPass(p, j)
      /\ Top' = Top
  BY PassesSame DEF vars
<1> QED BY <1>1 DEF IInv, vars, TypeOK, OneKey, Born, Owned, TakenByPass, MarksAreDead,
                    MarksOfThePass, LiveIsKept, InOnePlace, CancelledIsGone

LEMMA DropStep == \A i \in Id : IInv /\ DropSubscription(i) => IInv'
<1> SUFFICES ASSUME IInv, NEW i \in Id, DropSubscription(i) PROVE IInv'
  OBVIOUS
<1> DEFINE k == emitterOf[i]
<1> USE DEF IInv
<1>1. k \in Emitter /\ fate[i] # "unborn" /\ i < nextId
  BY DEF DropSubscription, TypeOK, Born, Id
<1>2. /\ \A j : PassedOver(j)' = PassedOver(j)
      /\ \A p, j : HeldByPass(p, j)' = HeldByPass(p, j)
      /\ Top' = Top
  BY PassesSame DEF DropSubscription
<1>3. /\ fate' \in [Id -> Fate]
      /\ fate'[i] \notin {"live", "unborn"}
      /\ fate'[i] = "cancelled" => fate[i] = "cancelled" \/ ~PassedOver(k)
      /\ \A j \in Id : j # i => fate'[j] = fate[j]
  BY <1>1 DEF DropSubscription, TypeOK, Fate
\* What Unsubscribe does: take the callback out of the map, or mark it.
<1>4. /\ entry' \in [Emitter -> {"absent", "taken", "map"}]
      /\ members' \in [Emitter -> SUBSET Id]
      /\ \A j \in Emitter : entry'[j] = "map" <=> members'[j] # {}
      /\ \A j \in Emitter : members'[j] \subseteq members[j] /\ members[j] \subseteq members'[j] \cup {i}
      /\ \A j \in Emitter : entry'[j] = "taken" => entry[j] = "taken"
      /\ dropped' \in SUBSET (dropped \cup {<<k, i>>})
      /\ dropped' # dropped => entry[k] = "taken"
      /\ entry[k] # "taken" => i \notin members'[k]
  <2>1. CASE entry[k] = "absent" /\ UNCHANGED <<entry, members, dropped>>
    BY <1>1, <2>1 DEF TypeOK
  <2>2. CASE entry[k] = "map" /\ SetMembers(k, members[k] \ {i}) /\ UNCHANGED dropped
    <3>1. members[k] \ {i} \in SUBSET Id
      BY <1>1 DEF TypeOK
    <3> HIDE DEF k
    <3>2. /\ entry' \in [Emitter -> {"absent", "taken", "map"}]
          /\ members' \in [Emitter -> SUBSET Id]
          /\ \A j \in Emitter : entry'[j] = "map" <=> members'[j] # {}
          /\ members'[k] = members[k] \ {i} /\ entry'[k] # "taken"
          /\ \A j \in Emitter : j # k => members'[j] = members[j] /\ entry'[j] = entry[j]
      BY <1>1, <2>2, <3>1, MembersSet
    <3> QED BY <1>1, <2>2, <3>2
  <2>3. CASE entry[k] = "taken" /\ dropped' = dropped \cup {<<k, i>>} /\ UNCHANGED <<entry, members>>
    BY <1>1, <2>3 DEF TypeOK
  <2> QED BY <2>1, <2>2, <2>3 DEF DropSubscription, Unsubscribe
<1>5. UNCHANGED <<nextId, active, passes, emitterOf>> /\ held' = held \ {i}
  BY DEF DropSubscription
<1> HIDE DEF k
<1>6. TypeOK'
  BY <1>1, <1>3, <1>4, <1>5 DEF TypeOK
<1>7. OneKey'
  BY <1>5 DEF OneKey
<1>8. Born'
  BY <1>1, <1>2, <1>3, <1>4, <1>5 DEF Born, Id, TypeOK
<1>9. Owned'
  BY <1>2, <1>4, <1>5 DEF Owned
<1>10. TakenByPass'
  BY <1>2, <1>4 DEF TakenByPass
<1>11. MarksAreDead'
  BY <1>3, <1>4 DEF MarksAreDead, TypeOK
<1>12. MarksOfThePass'
  <2> SUFFICES ASSUME NEW d \in dropped'
               PROVE  passes # << >> /\ d[1] = Top.key /\ PassedOver(emitterOf[d[2]])
    BY <1>2, <1>5 DEF MarksOfThePass
  <2>1. CASE d \in dropped
    BY <2>1 DEF MarksOfThePass
  <2>2. CASE d \notin dropped
    <3>1. d = <<k, i>> /\ entry[k] = "taken"
      BY <1>4, <2>2
    <3>2. PassedOver(k)
      BY <1>1, <3>1 DEF TakenByPass
    <3>3. passes # << >>
      BY <3>2 DEF PassedOver
    <3>4. Top.key = k
      BY <3>2, <3>3, TopIsPass DEF PassedOver, OneKey, Top
    <3> QED BY <3>1, <3>2, <3>3, <3>4 DEF k
  <2> QED BY <2>1, <2>2
<1>13. LiveIsKept'
  BY <1>2, <1>3, <1>4, <1>5 DEF LiveIsKept, TypeOK
<1>14. InOnePlace'
  <2>1. \A p \in DOMAIN passes : passes[p].key \in Emitter
    BY KeysAreEmitters
  <2> QED BY <1>2, <1>4, <1>5, <2>1 DEF InOnePlace
<1>15. CancelledIsGone'
  <2> SUFFICES ASSUME NEW j \in Id, fate'[j] = "cancelled"
               PROVE  /\ \A e \in Emitter : j \notin members'[e]
                      /\ \A p \in DOMAIN passes : ~HeldByPass(p, j)
    BY <1>2, <1>5 DEF CancelledIsGone
  <2>1. CASE fate[j] = "cancelled"
    BY <1>4, <2>1 DEF CancelledIsGone
  <2>2. CASE fate[j] # "cancelled"
    <3>1. j = i /\ ~PassedOver(k)
      BY <1>3, <2>2
    <3>2. entry[k] # "taken"
      BY <1>1, <3>1 DEF TakenByPass
    <3>3. \A p \in DOMAIN passes : ~HeldByPass(p, i)
      BY <3>1 DEF Owned, PassedOver, k
    <3>4. \A e \in Emitter : e # k => i \notin members[e]
      BY DEF Owned, k
    <3> QED BY <1>4, <3>1, <3>2, <3>3, <3>4
  <2> QED BY <2>1, <2>2
<1> QED BY <1>6, <1>7, <1>8, <1>9, <1>10, <1>11, <1>12, <1>13, <1>14, <1>15

LEMMA RemoveStep == \A k \in Emitter : IInv /\ Remove(k) => IInv'
<1> SUFFICES ASSUME IInv, NEW k \in Emitter, Remove(k) PROVE IInv'
  OBVIOUS
<1> USE DEF IInv, Remove, RemoveEntry
<1>1. {} \in SUBSET Id
  OBVIOUS
<1>2. /\ entry' \in [Emitter -> {"absent", "taken", "map"}]
      /\ members' \in [Emitter -> SUBSET Id]
      /\ \A j \in Emitter : entry'[j] = "map" <=> members'[j] # {}
      /\ members'[k] = {} /\ entry'[k] # "taken"
      /\ \A j \in Emitter : j # k => members'[j] = members[j] /\ entry'[j] = entry[j]
  BY <1>1, MembersSet
<1>3. /\ \A j : PassedOver(j)' = PassedOver(j)
      /\ \A p, j : HeldByPass(p, j)' = HeldByPass(p, j)
      /\ Top' = Top
  BY PassesSame
<1>4. /\ fate' \in [Id -> Fate]
      /\ \A i \in Id : /\ i \in members[k] => fate'[i] = "removed"
                       /\ i \notin members[k] => fate'[i] = fate[i]
  BY DEF TypeOK, Fate
<1>5. passes = << >> /\ dropped = {}
  BY DEF MarksOfThePass
<1>6. TypeOK'
  BY <1>2, <1>4 DEF TypeOK
<1>7. OneKey' /\ TakenByPass' /\ MarksAreDead' /\ MarksOfThePass'
  BY <1>2, <1>3, <1>5 DEF OneKey, TakenByPass, MarksAreDead, MarksOfThePass
<1>8. Born' /\ Owned'
  BY <1>2, <1>3, <1>4 DEF Born, Owned
<1>9. LiveIsKept'
  <2> SUFFICES ASSUME NEW i \in Id, fate'[i] = "live" PROVE i \in members'[emitterOf[i]]
    BY DEF LiveIsKept
  <2>1. fate[i] = "live" /\ i \notin members[k]
    BY <1>4
  <2>2. i \in members[emitterOf[i]] /\ emitterOf[i] \in Emitter
    BY <1>5, <2>1 DEF LiveIsKept, TypeOK
  <2> QED BY <1>2, <2>1, <2>2
<1>10. InOnePlace' /\ CancelledIsGone'
  BY <1>2, <1>3, <1>4, <1>5 DEF InOnePlace, CancelledIsGone
<1> QED BY <1>6, <1>7, <1>8, <1>9, <1>10

-----------------------------------------------------------------------------
(* The steps of retain *)

LEMMA BeginRetainStep == \A k \in Emitter : IInv /\ BeginRetain(k) => IInv'
<1> SUFFICES ASSUME IInv, NEW k \in Emitter, BeginRetain(k) PROVE IInv'
  OBVIOUS
<1> DEFINE new == [key |-> k, todo |-> members[k], kept |-> {}, current |-> None]
<1> USE DEF IInv
<1>1. /\ entry[k] = "map" /\ entry' = [entry EXCEPT ![k] = "taken"]
      /\ members' = [members EXCEPT ![k] = {}]
      /\ passes' = Append(passes, new)
      /\ UNCHANGED <<dropped, nextId, active, held, emitterOf, fate>>
      /\ \A p \in DOMAIN passes : passes[p].key = k
  BY DEF BeginRetain, TakeMap
<1>2. new \in Pass
  BY DEF Pass, TypeOK
<1> HIDE DEF new
<1>n. PICK n : n = Depth + 1
  OBVIOUS
<1>3. /\ passes' \in Seq(Pass) /\ passes' # << >>
      /\ n \notin DOMAIN passes
      /\ DOMAIN passes' = DOMAIN passes \cup {n}
      /\ \A p \in DOMAIN passes : passes'[p] = passes[p]
      /\ passes'[n] = new
      /\ Depth' = n
  BY <1>1, <1>2, <1>n, PushedPass
<1>4. /\ \A p \in DOMAIN passes : \A i : HeldByPass(p, i)' = HeldByPass(p, i)
      /\ \A i \in Id : HeldByPass(n, i)' <=> i \in members[k]
  BY <1>3, NoneAssumption DEF HeldByPass, new
<1>5. \A p \in DOMAIN passes' : passes'[p].key = k
  BY <1>1, <1>3 DEF new
<1>6. /\ \A j \in Emitter : j # k => members'[j] = members[j] /\ entry'[j] = entry[j]
      /\ members'[k] = {} /\ entry'[k] = "taken"
  BY <1>1 DEF TypeOK
<1>7. TypeOK'
  BY <1>1, <1>3, <1>6 DEF TypeOK
<1>8. OneKey'
  BY <1>5 DEF OneKey
<1>9. Born'
  BY <1>1, <1>3, <1>4, <1>6 DEF Born
<1>10. Owned'
  BY <1>1, <1>3, <1>4, <1>5, <1>6 DEF Owned
<1>11. TakenByPass'
  BY <1>3, <1>5, <1>6 DEF TakenByPass, PassedOver
<1>12. MarksAreDead'
  BY <1>1 DEF MarksAreDead
<1>13. MarksOfThePass'
  <2>1. Top'.key = k /\ PassedOver(k)'
    BY <1>3, <1>5 DEF Top, PassedOver
  <2> SUFFICES ASSUME NEW d \in dropped PROVE d[1] = k /\ emitterOf[d[2]] = k
    BY <1>1, <1>3, <2>1 DEF MarksOfThePass
  <2>2. passes # << >> /\ d[1] = Top.key /\ PassedOver(emitterOf[d[2]])
    BY DEF MarksOfThePass
  <2> QED BY <1>1, <2>2, TopIsPass DEF PassedOver, Top
<1>14. LiveIsKept'
  <2> SUFFICES ASSUME NEW i \in Id, fate[i] = "live"
               PROVE  \/ i \in members'[emitterOf[i]]
                      \/ \E p \in DOMAIN passes' : passes'[p].key = emitterOf[i] /\ HeldByPass(p, i)'
    BY <1>1 DEF LiveIsKept
  <2>1. CASE i \in members[emitterOf[i]]
    BY <1>3, <1>4, <1>5, <1>6, <2>1 DEF TypeOK
  <2>2. CASE \E p \in DOMAIN passes : passes[p].key = emitterOf[i] /\ HeldByPass(p, i)
    BY <1>3, <1>4, <2>2
  <2> QED BY <2>1, <2>2 DEF LiveIsKept
<1>15. InOnePlace'
  <2>1. \A i \in Id, p \in DOMAIN passes : HeldByPass(p, i) => i \notin members[k]
    BY <1>1 DEF InOnePlace
  <2> QED BY <1>3, <1>4, <1>5, <1>6, <2>1 DEF InOnePlace
<1>16. CancelledIsGone'
  BY <1>1, <1>3, <1>4, <1>6 DEF CancelledIsGone
<1> QED BY <1>7, <1>8, <1>9, <1>10, <1>11, <1>12, <1>13, <1>14, <1>15, <1>16

\* A step in the innermost pass that neither adds to it nor changes its key: who is
\* gone from it must not be live.
LEMMA InPass ==
  ASSUME IInv, passes # << >>, NEW x \in Pass, SetTop(x), x.key = Top.key,
         UNCHANGED <<entry, members, dropped, nextId, active, held, emitterOf>>,
         fate' \in [Id -> Fate],
         \A i \in Id : fate'[i] # fate[i] => fate[i] = "live" /\ fate'[i] = "refused",
         \A i \in Id : i \in x.todo \cup x.kept \cup {x.current} => HeldByPass(Depth, i),
         \A i \in Id : HeldByPass(Depth, i) /\ fate'[i] = "live" =>
                         i \in x.todo \cup x.kept \cup {x.current}
  PROVE  IInv'
<1> USE DEF IInv
<1>1. /\ passes' \in Seq(Pass) /\ passes' # << >>
      /\ DOMAIN passes' = DOMAIN passes
      /\ \A p \in DOMAIN passes : p # Depth => passes'[p] = passes[p]
      /\ passes'[Depth] = x
      /\ Depth' = Depth
      /\ Depth \in DOMAIN passes
  BY ChangedTop, TopIsPass
<1>2. \A p \in DOMAIN passes : passes'[p].key = passes[p].key
  BY <1>1 DEF Top
<1>3. \A p \in DOMAIN passes, i \in Id : HeldByPass(p, i)' => HeldByPass(p, i)
  BY <1>1 DEF HeldByPass
<1>4. \A p \in DOMAIN passes, i \in Id : HeldByPass(p, i) /\ fate'[i] = "live" => HeldByPass(p, i)'
  BY <1>1 DEF HeldByPass
<1>5. Top'.key = Top.key /\ \A k : PassedOver(k)' = PassedOver(k)
  BY <1>1, <1>2 DEF Top, PassedOver
<1>6. TypeOK' /\ OneKey'
  BY <1>1, <1>2 DEF TypeOK, OneKey
<1>7. Born' /\ Owned'
  BY <1>1, <1>2, <1>3 DEF Born, Owned
<1>8. TakenByPass' /\ MarksOfThePass'
  BY <1>1, <1>5 DEF TakenByPass, MarksOfThePass
<1>9. MarksAreDead'
  BY DEF MarksAreDead, TypeOK
<1>10. LiveIsKept'
  BY <1>1, <1>2, <1>4 DEF LiveIsKept
<1>11. InOnePlace' /\ CancelledIsGone'
  BY <1>1, <1>2, <1>3 DEF InOnePlace, CancelledIsGone
<1> QED BY <1>6, <1>7, <1>8, <1>9, <1>10, <1>11

LEMMA VisitStep == IInv /\ Visit => IInv'
<1> SUFFICES ASSUME IInv, Visit PROVE IInv'
  OBVIOUS
<1>1. PICK i \in Top.todo :
        SetTop([Top EXCEPT !.todo = @ \ {i},
                           !.current = IF i \in active THEN i ELSE None,
                           !.kept = IF i \in active THEN @ ELSE @ \cup {i}])
  BY DEF Visit
<1> DEFINE x == [Top EXCEPT !.todo = @ \ {i},
                            !.current = IF i \in active THEN i ELSE None,
                            !.kept = IF i \in active THEN @ ELSE @ \cup {i}]
<1>2. passes # << >> /\ Top.current = None /\ TypeOK
  BY DEF Visit, IInv
<1>3. Top \in Pass /\ i \in Id
  BY <1>2, TopIsPass
<1>4. /\ x \in Pass /\ x.key = Top.key /\ x.todo = Top.todo \ {i}
      /\ x.current = IF i \in active THEN i ELSE None
      /\ x.kept = IF i \in active THEN Top.kept ELSE Top.kept \cup {i}
  BY <1>3 DEF Pass
<1>5. \A j \in Id : j \in x.todo \cup x.kept \cup {x.current} <=> HeldByPass(Depth, j)
  BY <1>2, <1>4, NoneAssumption DEF HeldByPass, Top
<1>6. fate' \in [Id -> Fate] /\ fate' = fate
  BY <1>2 DEF Visit, TypeOK
<1> HIDE DEF x
<1> QED BY <1>1, <1>2, <1>4, <1>5, <1>6, InPass DEF Visit, x

LEMMA ReturnStep == \A keep \in BOOLEAN : IInv /\ Return(keep) => IInv'
<1> SUFFICES ASSUME IInv, NEW keep \in BOOLEAN, Return(keep) PROVE IInv'
  OBVIOUS
<1> DEFINE x == [Top EXCEPT !.current = None, !.kept = IF keep THEN @ \cup {Top.current} ELSE @]
<1>1. SetTop(x) /\ passes # << >> /\ Top.current # None /\ TypeOK
  BY DEF Return, IInv
<1>2. Top \in Pass /\ Top.current \in Id
  BY <1>1, TopIsPass
<1>3. /\ x \in Pass /\ x.key = Top.key /\ x.todo = Top.todo /\ x.current = None
      /\ x.kept = IF keep THEN Top.kept \cup {Top.current} ELSE Top.kept
  BY <1>2 DEF Pass
<1>4. \A j \in Id : j \in x.todo \cup x.kept \cup {x.current} => HeldByPass(Depth, j)
  BY <1>3, NoneAssumption DEF HeldByPass, Top
<1>5. /\ fate' \in [Id -> Fate]
      /\ \A i \in Id : fate'[i] # fate[i] => fate[i] = "live" /\ fate'[i] = "refused"
      /\ ~keep => fate'[Top.current] # "live"
  BY <1>1, <1>2 DEF Return, TypeOK, Fate
<1>6. \A j \in Id : HeldByPass(Depth, j) /\ fate'[j] = "live" =>
                      j \in x.todo \cup x.kept \cup {x.current}
  BY <1>3, <1>5 DEF HeldByPass, Top
<1> HIDE DEF x
<1> QED BY <1>1, <1>3, <1>4, <1>5, <1>6, InPass DEF Return

LEMMA EndRetainStep == IInv /\ EndRetain => IInv'
<1> SUFFICES ASSUME IInv, EndRetain PROVE IInv'
  OBVIOUS
<1> USE DEF IInv
<1> DEFINE marked == {d[2] : d \in dropped}
<1>1. PICK k \in Emitter : k = Top.key
  BY TopIsPass DEF EndRetain
<1>2. PICK put \in SUBSET Id : put = (Top.kept \cup members[k]) \ marked
  BY TopIsPass, <1>1 DEF EndRetain, TypeOK
<1>3. /\ passes # << >> /\ Top.current = None /\ Top.todo = {}
      /\ SetMembers(k, put) /\ dropped' = {}
      /\ passes' = SubSeq(passes, 1, Depth - 1)
      /\ UNCHANGED <<nextId, active, held, emitterOf, fate>>
  BY <1>1, <1>2 DEF EndRetain
<1>4. \A i \in Id : i \in put <=> (i \in Top.kept \/ i \in members[k]) /\ \A d \in dropped : d[2] # i
  BY <1>2
<1> HIDE DEF marked
<1>5. /\ passes' \in Seq(Pass)
      /\ DOMAIN passes' = DOMAIN passes \ {Depth}
      /\ \A p \in DOMAIN passes' : passes'[p] = passes[p]
      /\ Depth \in DOMAIN passes
  BY <1>3, PoppedPass, TopIsPass
<1>6. /\ entry' \in [Emitter -> {"absent", "taken", "map"}]
      /\ members' \in [Emitter -> SUBSET Id]
      /\ \A j \in Emitter : entry'[j] = "map" <=> members'[j] # {}
      /\ members'[k] = put /\ entry'[k] # "taken"
      /\ \A j \in Emitter : j # k => members'[j] = members[j] /\ entry'[j] = entry[j]
  BY <1>3, MembersSet
<1>7. \A p \in DOMAIN passes : passes[p].key = k
  BY <1>1, <1>5 DEF OneKey, Top
<1>8. \A p \in DOMAIN passes' : \A i : HeldByPass(p, i)' = HeldByPass(p, i)
  BY <1>5 DEF HeldByPass
\* The pass that ends has had all its subscribers; the others have none of them.
<1>9. \A i \in Id : HeldByPass(Depth, i) <=> i \in Top.kept
  BY <1>3, NoneAssumption DEF HeldByPass, Top
<1>10. \A i \in Id, p \in DOMAIN passes' : HeldByPass(p, i) => i \notin Top.kept /\ i \notin members[k]
  BY <1>5, <1>7, <1>9 DEF InOnePlace
<1>11. TypeOK'
  BY <1>3, <1>5, <1>6 DEF TypeOK
<1>12. OneKey'
  BY <1>5 DEF OneKey
<1>13. Born'
  BY <1>3, <1>4, <1>5, <1>6, <1>8, <1>9 DEF Born
<1>14. Owned'
  BY <1>3, <1>4, <1>5, <1>6, <1>7, <1>8, <1>9 DEF Owned
<1>15. TakenByPass'
  BY <1>6, <1>7 DEF TakenByPass, PassedOver
<1>16. MarksAreDead' /\ MarksOfThePass'
  BY <1>3 DEF MarksAreDead, MarksOfThePass
<1>17. LiveIsKept'
  <2> SUFFICES ASSUME NEW i \in Id, fate[i] = "live"
               PROVE  \/ i \in members'[emitterOf[i]]
                      \/ \E p \in DOMAIN passes' : passes'[p].key = emitterOf[i] /\ HeldByPass(p, i)'
    BY <1>3 DEF LiveIsKept
  <2>1. \A d \in dropped : d[2] # i
    BY DEF MarksAreDead
  <2>2. CASE i \in members[emitterOf[i]]
    BY <1>4, <1>6, <2>1, <2>2 DEF TypeOK
  <2>3. CASE \E p \in DOMAIN passes : passes[p].key = emitterOf[i] /\ HeldByPass(p, i)
    <3>1. PICK p \in DOMAIN passes : passes[p].key = emitterOf[i] /\ HeldByPass(p, i)
      BY <2>3
    <3>2. CASE p = Depth
      BY <1>4, <1>6, <1>7, <1>9, <2>1, <3>1, <3>2
    <3>3. CASE p # Depth
      BY <1>5, <1>8, <3>1, <3>3
    <3> QED BY <3>2, <3>3
  <2> QED BY <2>2, <2>3 DEF LiveIsKept
<1>18. InOnePlace'
  BY <1>4, <1>5, <1>6, <1>7, <1>8, <1>10 DEF InOnePlace
<1>19. CancelledIsGone'
  BY <1>3, <1>4, <1>5, <1>6, <1>8, <1>9 DEF CancelledIsGone
<1> QED BY <1>11, <1>12, <1>13, <1>14, <1>15, <1>16, <1>17, <1>18, <1>19

-----------------------------------------------------------------------------
LEMMA NextKeepsIInv == IInv /\ [Next]_vars => IInv'
  BY InsertStep, ActivateStep, DropStep, DetachStep, RemoveStep, BeginRetainStep, VisitStep,
     ReturnStep, EndRetainStep, StutterStep DEF Next

\* The inductive invariant holds in every behaviour of the set.
THEOREM SetInvariant == Spec => []IInv
<1> QED BY InitIInv, NextKeepsIInv, PTL DEF Spec

\* The variables keep their types: an entry is a map just when it has a member.
THEOREM SetTypeCorrect == Spec => []TypeOK
<1>1. IInv => TypeOK
  BY DEF IInv
<1> QED BY SetInvariant, <1>1, PTL

\* retain, insert and unsubscribe lose no subscriber that is still wanted.
THEOREM NoneIsLost == Spec => []LiveIsKept
<1>1. IInv => LiveIsKept
  BY DEF IInv
<1> QED BY SetInvariant, <1>1, PTL

\* retain invokes no callback that is running or that another pass holds.
THEOREM NoneIsShared == Spec => []InOnePlace
<1>1. IInv => InOnePlace
  BY DEF IInv
<1> QED BY SetInvariant, <1>1, PTL

\* unsubscribe takes a callback out for good when no pass over its emitter runs.
THEOREM CancelledStaysGone == Spec => []CancelledIsGone
<1>1. IInv => CancelledIsGone
  BY DEF IInv
<1> QED BY SetInvariant, <1>1, PTL

\* The debug assertion at the end of retain never fails.
THEOREM MarksBelongToThePass == Spec => []MarksOfThePass
<1>1. IInv => MarksOfThePass
  BY DEF IInv
<1> QED BY SetInvariant, <1>1, PTL
=============================================================================
