--------------------------- MODULE GamePageProofs ---------------------------
(***************************************************************************)
(* What holds of the page for any number of buzzers, resets and presses:   *)
(* once the subscriber has caught up it shows the list sent last, with the *)
(* times of the last reset, although two threads share them.               *)
(***************************************************************************)
EXTENDS GamePage, SequenceTheorems, FiniteSetTheorems, WellFoundedInduction, TLAPS

-----------------------------------------------------------------------------
(* The inductive invariants.                                               *)

(* The bounds hold: every press and every reset has its time.              *)
Publishing == IF ui_reset = "publish" THEN 1 ELSE 0
CountsInv ==
  /\ round <= clock /\ clock - round <= MaxPresses
  /\ IsFiniteSet(sent) /\ Cardinality(sent) + owed["main"] <= clock - round
  /\ commands + Publishing <= round

(* A thread has copied the registry only for a list it owes.               *)
ListingsInv ==
  /\ owed["receiver"] <= 1
  /\ \A thr \in Threads : copied[thr] # None => owed[thr] > 0

TypeInv == TypeOK /\ CountsInv /\ ListingsInv

Delays(list) == [b \in Buzzers |-> Since(list[b], clicked)]

(* What the page makes of a list.                                          *)
Mapped(list) ==
  [b \in Buzzers |->
     [isPressed |-> list[b] # None, delay |-> Since(list[b], clicked),
      delayLocal |-> IF list[b] = None \/ clicked = None THEN None
                     ELSE Since(list[b], calc_smallest_timestamp(list))]]

(* The last list on its way to the page is the one sent last, and no reset *)
(* touches the times it is mapped with.                                    *)
LastList ==
  /\ lists # <<>> => lists[Len(lists)] = shown
  /\ lists = <<>> /\ mapping.at # "idle" => mapping.list = shown

LastMapped ==
  /\ mapping.at # "idle" =>
       smallest_timestamp = calc_smallest_timestamp(mapping.list)
  /\ mapping.at = "local" =>
       smallest_timestamp # None /\ mapping.delay = Delays(mapping.list)
  /\ mapping.at = "idle" /\ Parses(shown) => page = Mapped(shown)

PageInv ==
  /\ current_timestamp = clicked
  /\ LastList
  /\ lists = <<>> /\ ~ResetComing => LastMapped

-----------------------------------------------------------------------------
(* The operators of the mapping.                                           *)

LEMMA LeastTime ==
  ASSUME NEW T \in SUBSET Nat, T # {}
  PROVE  Min(T) \in T /\ \A y \in T : Min(T) <= y
<1> DEFINE R == {p \in Nat \X Nat : p[1] < p[2]}
<1>1. IsWellFoundedOn(R, Nat)
  BY NatLessThanWellFounded DEF OpToRel
<1>2. \A x, y \in Nat : <<y, x>> \in R <=> y < x
  OBVIOUS
<1> HIDE DEF R
<1>3. PICK x \in T : \A y \in T : ~ (<<y, x>> \in R)
  BY <1>1, WFMin
<1>4. ASSUME NEW y \in T PROVE x <= y
  <2>1. ~ (<<y, x>> \in R) /\ x \in Nat /\ y \in Nat
    BY <1>3
  <2>2. ~ (y < x)
    BY <1>2, <2>1
  <2> QED  BY <2>1, <2>2
<1>5. \E z \in T : \A y \in T : z <= y
  BY <1>4
<1> QED  BY <1>5 DEF Min

LEMMA TimesAre ==
  /\ Times \subseteq Nat \ {0} /\ None \notin Int /\ None \notin Times
  /\ MaxResets \in Nat /\ MaxPresses \in Nat
  /\ \A t \in Times : t <= MaxResets + MaxPresses
  /\ \A t \in Times, u \in Times : t - u \in Spans /\ t - u \in Int
BY NoneNoTime, PageBounds DEF Times, Spans

LEMMA EntryTyped ==
  ASSUME NEW list \in Lists, NEW b \in Buzzers
  PROVE  list[b] \in Times \cup {None}
BY DEF Lists

LEMMA SinceTyped ==
  ASSUME NEW t \in Times \cup {None}, NEW u \in Times \cup {None}
  PROVE  Since(t, u) \in Spans \cup {None}
BY TimesAre DEF Since

(* The first press of a list.                                              *)
LEMMA SmallestIsLeast ==
  ASSUME NEW list \in Lists
  PROVE  LET first == calc_smallest_timestamp(list)
         IN  /\ first \in Times \cup {None}
             /\ first = None <=> \A b \in Buzzers : list[b] = None
             /\ \A b \in Buzzers : list[b] # None => first # None /\ first <= list[b]
<1> DEFINE P == PressedIn(list)
           T == {list[b] : b \in P}
           first == calc_smallest_timestamp(list)
<1>1. \A b \in Buzzers : b \in P <=> list[b] # None
  BY DEF PressedIn
<1>2. P \subseteq Buzzers
  BY DEF PressedIn
<1>3. T \subseteq Times
  BY <1>1, <1>2, EntryTyped
<1>4. first = IF P = {} THEN None ELSE Min(T)
  BY DEF calc_smallest_timestamp
<1> HIDE DEF P, first
<1>5. CASE P = {}
  BY <1>1, <1>4, <1>5 DEF first
<1>6. CASE P # {}
  <2>1. \A b \in P : list[b] \in T
    OBVIOUS
  <2>2. T # {}
    BY <1>6, <2>1
  <2> HIDE DEF T
  <2>3. T \in SUBSET Nat
    BY <1>3, TimesAre
  <2>4. Min(T) \in T /\ \A y \in T : Min(T) <= y
    BY <2>2, <2>3, LeastTime
  <2>5. first \in Times /\ first # None
    <3>1. first = Min(T)
      BY <1>4, <1>6
    <3> QED  BY <1>3, <2>4, <3>1, TimesAre
  <2>6. \E b \in Buzzers : list[b] # None
    BY <1>1, <1>2, <1>6
  <2>7. \A b \in Buzzers : list[b] # None => first <= list[b]
    BY <1>1, <1>4, <1>6, <2>1, <2>4
  <2> QED  BY <2>5, <2>6, <2>7 DEF first
<1> QED  BY <1>5, <1>6

Mappings == [at : {"idle", "delays", "local"}, list : Lists,
             delay : [Buzzers -> Spans \cup {None}]]
Pages == [Buzzers -> [isPressed : BOOLEAN, delay : Spans \cup {None},
                      delayLocal : Spans \cup {None}]]

LEMMA BlankTyped == Blank \in Lists /\ Blank \in [Buzzers -> Spans \cup {None}]
BY DEF Blank, Lists

LEMMA MappingTyped ==
  ASSUME TypeOK
  PROVE  /\ mapping \in Mappings /\ page \in Pages
         /\ mapping.at \in {"idle", "delays", "local"} /\ mapping.list \in Lists
         /\ mapping.delay \in [Buzzers -> Spans \cup {None}]
BY DEF TypeOK, Mappings, Pages

LEMMA IdleTyped == Idle \in Mappings /\ Idle.at = "idle"
BY BlankTyped DEF Idle, Mappings

-----------------------------------------------------------------------------
(* Types and bounds.                                                       *)

LEMMA CountsAre ==
  ASSUME TypeInv
  PROVE  /\ clock \in Nat /\ round \in Nat /\ commands \in Nat /\ Publishing \in {0, 1}
         /\ owed["main"] \in Nat /\ owed["receiver"] \in {0, 1}
         /\ MaxResets \in Nat /\ MaxPresses \in Nat
         /\ round <= MaxResets
         /\ IsFiniteSet(sent) /\ Cardinality(sent) \in Nat
<1>1. IsFiniteSet(sent) /\ Cardinality(sent) \in Nat
  BY FS_CardinalityType DEF TypeInv, CountsInv
<1>2. "main" \in Threads /\ "receiver" \in Threads
  BY DEF Threads
<1>3. owed["main"] \in Nat /\ owed["receiver"] \in Nat /\ owed["receiver"] <= 1
  BY <1>2, PageBounds DEF TypeInv, TypeOK, ListingsInv
<1>4. owed["receiver"] \in {0, 1}
  BY <1>3
<1>5. clock \in Nat /\ round \in Nat /\ commands \in Nat /\ round <= MaxResets
  BY PageBounds DEF TypeInv, TypeOK, Times
<1> QED  BY <1>1, <1>3, <1>4, <1>5, PageBounds DEF Publishing

LEMMA PressStampedTyped ==
  ASSUME TypeInv, NEW b \in Buzzers, PressStamped(b)
  PROVE  TypeInv' /\ clock' \in Times /\ clock' = clock + 1
<1> USE DEF TypeInv
<1>1. /\ clock - round < MaxPresses /\ clock' = clock + 1
      /\ sent' = sent \cup {[buzzer |-> b, time |-> clock']}
      /\ late' \subseteq late \cup {clock'}
      /\ UNCHANGED <<hour, presses, owed, copied, shown, lists, commands, ui_reset,
                     current_timestamp, smallest_timestamp, mapping, page, round,
                     clicked>>
  BY DEF PressStamped, roundVars, history
<1>2. /\ clock \in Nat /\ round \in Nat /\ owed["main"] \in Nat
      /\ MaxResets \in Nat /\ MaxPresses \in Nat /\ round <= MaxResets
      /\ IsFiniteSet(sent) /\ Cardinality(sent) \in Nat
      /\ round <= clock /\ Cardinality(sent) + owed["main"] <= clock - round
  BY CountsAre DEF CountsInv
<1>3. clock' \in Times
  BY <1>1, <1>2 DEF Times
<1>4. /\ IsFiniteSet(sent')
      /\ Cardinality(sent') \in {Cardinality(sent), Cardinality(sent) + 1}
  BY <1>1, <1>2, FS_AddElement
<1>5. CountsInv'
  <2>1. commands + Publishing <= round /\ Publishing' = Publishing
    BY <1>1 DEF CountsInv, Publishing
  <2>2. round <= clock' /\ clock' - round <= MaxPresses
    BY <1>1, <1>2
  <2>3. Cardinality(sent') + owed["main"] <= clock' - round
    BY <1>1, <1>2, <1>4
  <2> QED  BY <1>1, <1>4, <2>1, <2>2, <2>3 DEF CountsInv
<1>6. ListingsInv'
  BY <1>1 DEF ListingsInv
<1>7. TypeOK'
  <2>1. late' \subseteq Times
    BY <1>1, <1>3 DEF TypeOK
  <2> QED  BY <1>1, <1>3, <2>1 DEF TypeOK
<1> QED  BY <1>1, <1>3, <1>5, <1>6, <1>7

(* A press leaves for the registry, or is dropped.                         *)
LEMMA SentLess ==
  ASSUME TypeInv, NEW press \in sent
  PROVE  /\ press.buzzer \in Buzzers /\ press.time \in Times
         /\ IsFiniteSet(sent \ {press})
         /\ Cardinality(sent \ {press}) = Cardinality(sent) - 1
BY FS_RemoveElement DEF TypeInv, TypeOK, CountsInv

(* The main thread owes one listing more.                                  *)
LEMMA RecordSteps ==
  ASSUME TypeInv, NEW press \in sent, PressRecorded(press)
  PROVE  /\ press.buzzer \in Buzzers /\ press.time \in Times
         /\ presses' = [presses EXCEPT ![press.buzzer] = press.time]
         /\ presses' \in Lists
         /\ sent' = sent \ {press}
         /\ owed'["main"] = owed["main"] + 1 /\ owed'["receiver"] = owed["receiver"]
         /\ owed' = [owed EXCEPT !["main"] = owed'["main"]]
         /\ UNCHANGED <<hour, clock, late, copied, shown, lists, commands, ui_reset,
                        current_timestamp, smallest_timestamp, mapping, page, round,
                        clicked>>
<1>1. press.buzzer \in Buzzers /\ press.time \in Times
  BY SentLess
<1>2. /\ presses' = [presses EXCEPT ![press.buzzer] = press.time]
      /\ sent' = sent \ {press} /\ owed' = [owed EXCEPT !["main"] = @ + 1]
      /\ UNCHANGED <<hour, clock, late, copied, shown, lists, commands, ui_reset,
                     current_timestamp, smallest_timestamp, mapping, page, round,
                     clicked>>
  BY DEF PressRecorded, S!Press, roundVars, history
<1>3. presses' \in Lists
  BY <1>1, <1>2 DEF TypeInv, TypeOK, Lists
<1>4. DOMAIN owed = Threads /\ "main" \in Threads /\ "receiver" \in Threads
  BY DEF TypeInv, TypeOK, Threads
<1> QED  BY <1>1, <1>2, <1>3, <1>4

LEMMA PressRecordedTyped ==
  ASSUME TypeInv, NEW press \in sent, PressRecorded(press)
  PROVE  TypeInv'
<1> USE DEF TypeInv
<1>1. /\ sent' = sent \ {press} /\ presses' \in Lists
      /\ owed'["main"] = owed["main"] + 1 /\ owed'["receiver"] = owed["receiver"]
      /\ owed' = [owed EXCEPT !["main"] = owed'["main"]]
      /\ UNCHANGED <<hour, clock, late, copied, shown, lists, commands, ui_reset,
                     current_timestamp, smallest_timestamp, mapping, page, round,
                     clicked>>
  BY RecordSteps
<1>2. /\ clock \in Nat /\ round \in Nat /\ owed["main"] \in Nat
      /\ MaxResets \in Nat /\ MaxPresses \in Nat /\ round <= MaxResets
      /\ Cardinality(sent) \in Nat
      /\ round <= clock /\ Cardinality(sent) + owed["main"] <= clock - round
      /\ clock - round <= MaxPresses
  BY CountsAre DEF CountsInv
<1>3. IsFiniteSet(sent') /\ Cardinality(sent') = Cardinality(sent) - 1
  BY <1>1, SentLess
<1>4. Cardinality(sent') \in Nat
  BY <1>3, FS_CardinalityType
<1>5. Cardinality(sent') + owed'["main"] <= clock - round
  BY <1>1, <1>2, <1>3, <1>4
<1>6. owed'["main"] \in 0 .. MaxResets + MaxPresses
  BY <1>1, <1>2, <1>4, <1>5
<1>7. owed' \in [Threads -> 0 .. MaxResets + MaxPresses]
  BY <1>1, <1>6 DEF TypeOK
<1>8. TypeOK'
  BY <1>1, <1>7 DEF TypeOK
<1>9. CountsInv'
  BY <1>1, <1>3, <1>5 DEF CountsInv, Publishing
<1>10. ListingsInv'
  <2>1. owed'["main"] > 0
    BY <1>1, <1>2
  <2> QED  BY <1>1, <2>1 DEF ListingsInv, Threads
<1> QED  BY <1>8, <1>9, <1>10

LEMMA PressDroppedTyped ==
  ASSUME TypeInv, NEW press \in sent, PressDropped(press)
  PROVE  TypeInv'
<1> USE DEF TypeInv
<1>1. /\ sent' = sent \ {press}
      /\ UNCHANGED <<hour, clock, late, presses, owed, copied, shown, lists, commands,
                     ui_reset, current_timestamp, smallest_timestamp, mapping, page,
                     round, clicked>>
  BY DEF PressDropped, roundVars, history
<1>2. TypeOK'
  BY <1>1 DEF TypeOK
<1>3. CountsInv'
  <2>1. IsFiniteSet(sent') /\ Cardinality(sent') = Cardinality(sent) - 1
    BY <1>1, SentLess
  <2>2. Cardinality(sent') \in Nat /\ Cardinality(sent) \in Nat /\ owed["main"] \in Nat
    BY <2>1, CountsAre, FS_CardinalityType
  <2>3. clock \in Nat /\ round \in Nat
    BY CountsAre
  <2>4. Cardinality(sent') + owed["main"] <= clock - round
    BY <2>1, <2>2, <2>3 DEF CountsInv
  <2> QED  BY <1>1, <2>1, <2>4 DEF CountsInv, Publishing
<1>4. ListingsInv'
  BY <1>1 DEF ListingsInv
<1> QED  BY <1>2, <1>3, <1>4

LEMMA ListCopiedTyped ==
  ASSUME TypeInv, NEW thr \in Threads, ListCopied(thr)
  PROVE  TypeInv'
<1> USE DEF TypeInv
<1>1. /\ owed[thr] > 0 /\ copied' = [copied EXCEPT ![thr] = presses]
      /\ UNCHANGED <<hour, clock, late, sent, presses, owed, shown, lists, commands,
                     ui_reset, current_timestamp, smallest_timestamp, mapping, page,
                     round, clicked>>
  BY DEF ListCopied, S!Copy, roundVars, history
<1>2. copied' \in [Threads -> Lists \cup {None}]
  BY <1>1 DEF TypeOK
<1>3. TypeOK'
  BY <1>1, <1>2 DEF TypeOK
<1>4. CountsInv'
  BY <1>1 DEF CountsInv, Publishing
<1>5. ListingsInv'
  <2>1. \A k \in Threads \ {thr} : copied'[k] = copied[k]
    BY <1>1 DEF TypeOK
  <2> QED  BY <1>1, <2>1 DEF ListingsInv
<1> QED  BY <1>3, <1>4, <1>5

(* A thread sends the list it copied, and owes one less.                   *)
LEMMA SentSteps ==
  ASSUME TypeInv, NEW thr \in Threads, ListSent(thr)
  PROVE  /\ copied[thr] # None /\ copied[thr] \in Lists
         /\ owed[thr] \in Nat \ {0} /\ owed'[thr] = owed[thr] - 1
         /\ \A k \in Threads \ {thr} : owed'[k] = owed[k] /\ copied'[k] = copied[k]
         /\ copied'[thr] = None /\ copied' \in [Threads -> Lists \cup {None}]
         /\ owed' \in [Threads -> 0 .. MaxResets + MaxPresses]
         /\ lists' = Append(lists, copied[thr]) /\ lists' \in Seq(Lists)
         /\ shown' = copied[thr]
         /\ UNCHANGED <<hour, clock, late, sent, presses, commands, ui_reset,
                        current_timestamp, smallest_timestamp, mapping, page, round,
                        clicked>>
<1> USE DEF TypeInv
<1>1. /\ copied[thr] # None /\ copied' = [copied EXCEPT ![thr] = None]
      /\ owed' = [owed EXCEPT ![thr] = @ - 1]
      /\ lists' = Append(lists, copied[thr]) /\ shown' = copied[thr]
      /\ UNCHANGED <<hour, clock, late, sent, presses, commands, ui_reset,
                     current_timestamp, smallest_timestamp, mapping, page, round,
                     clicked>>
  BY DEF ListSent, S!Send, roundVars, history
<1>2. copied \in [Threads -> Lists \cup {None}] /\ lists \in Seq(Lists)
  BY DEF TypeOK
<1>3. copied[thr] \in Lists /\ lists' \in Seq(Lists)
  BY <1>1, <1>2, AppendProperties
<1>4. owed \in [Threads -> 0 .. MaxResets + MaxPresses] /\ owed[thr] > 0
  BY <1>1 DEF TypeOK, ListingsInv
<1>5. owed[thr] \in Nat \ {0} /\ owed[thr] - 1 \in 0 .. MaxResets + MaxPresses
  BY <1>4, PageBounds
<1>6. owed' \in [Threads -> 0 .. MaxResets + MaxPresses]
  BY <1>1, <1>4, <1>5
<1>7. /\ owed'[thr] = owed[thr] - 1
      /\ \A k \in Threads \ {thr} : owed'[k] = owed[k]
  BY <1>1, <1>4
<1>8. /\ copied'[thr] = None /\ copied' \in [Threads -> Lists \cup {None}]
      /\ \A k \in Threads \ {thr} : copied'[k] = copied[k]
  BY <1>1, <1>2
<1> QED  BY <1>1, <1>3, <1>5, <1>6, <1>7, <1>8

LEMMA ListSentTyped ==
  ASSUME TypeInv, NEW thr \in Threads, ListSent(thr)
  PROVE  TypeInv'
<1> USE DEF TypeInv
<1>1. /\ owed[thr] \in Nat \ {0} /\ owed'[thr] = owed[thr] - 1 /\ copied[thr] \in Lists
      /\ \A k \in Threads \ {thr} : owed'[k] = owed[k] /\ copied'[k] = copied[k]
      /\ copied'[thr] = None /\ copied' \in [Threads -> Lists \cup {None}]
      /\ owed' \in [Threads -> 0 .. MaxResets + MaxPresses]
      /\ lists' \in Seq(Lists) /\ shown' = copied[thr]
      /\ UNCHANGED <<hour, clock, late, sent, presses, commands, ui_reset,
                     current_timestamp, smallest_timestamp, mapping, page, round,
                     clicked>>
  BY SentSteps
<1>2. TypeOK'
  BY <1>1 DEF TypeOK
<1>3. /\ "main" \in Threads /\ "receiver" \in Threads
      /\ owed'["main"] \in Nat /\ owed'["receiver"] \in Nat
      /\ owed'["main"] <= owed["main"] /\ owed'["receiver"] <= owed["receiver"]
  <2>1. "main" \in Threads /\ "receiver" \in Threads
    BY DEF Threads
  <2>2. \A k \in Threads : owed[k] \in Nat /\ owed'[k] \in Nat
    BY <1>1, PageBounds DEF TypeOK
  <2>3. \A k \in Threads : owed'[k] <= owed[k]
    BY <1>1, <2>2
  <2> QED  BY <2>1, <2>2, <2>3
<1>4. CountsInv'
  <2>1. Cardinality(sent) \in Nat /\ clock - round \in Int /\ owed["main"] \in Nat
    BY CountsAre
  <2>2. Cardinality(sent) + owed'["main"] <= clock - round
    BY <1>3, <2>1 DEF CountsInv
  <2> QED  BY <1>1, <2>2 DEF CountsInv, Publishing
<1>5. ListingsInv'
  <2>1. owed["receiver"] \in {0, 1}
    BY CountsAre
  <2> QED  BY <1>1, <1>3, <2>1 DEF ListingsInv
<1> QED  BY <1>2, <1>4, <1>5

(* reset_buzzers: the registry is cleared, the receiver owes a listing.    *)
LEMMA ReceivedSteps ==
  ASSUME TypeInv, ResetReceived
  PROVE  /\ commands > 0 /\ owed["receiver"] = 0 /\ commands' = commands - 1
         /\ owed'["receiver"] = 1 /\ owed'["main"] = owed["main"]
         /\ owed' = [owed EXCEPT !["receiver"] = 1]
         /\ presses' = Blank
         /\ UNCHANGED <<hour, clock, late, sent, copied, shown, lists, ui_reset,
                        current_timestamp, smallest_timestamp, mapping, page, round,
                        clicked>>
<1>1. /\ commands > 0 /\ owed["receiver"] = 0 /\ commands' = commands - 1
      /\ owed' = [owed EXCEPT !["receiver"] = 1]
      /\ presses' = [n \in DOMAIN presses |-> None]
      /\ UNCHANGED <<hour, clock, late, sent, copied, shown, lists, ui_reset,
                     current_timestamp, smallest_timestamp, mapping, page, round,
                     clicked>>
  BY DEF ResetReceived, S!Reset, roundVars, history
<1>2. presses' = Blank
  BY <1>1 DEF TypeInv, TypeOK, Lists, Blank
<1>3. DOMAIN owed = Threads /\ "main" \in Threads /\ "receiver" \in Threads
  BY DEF TypeInv, TypeOK, Threads
<1> QED  BY <1>1, <1>2, <1>3

LEMMA ResetReceivedTyped ==
  ASSUME TypeInv, ResetReceived
  PROVE  TypeInv'
<1> USE DEF TypeInv
<1>1. /\ commands > 0 /\ commands' = commands - 1
      /\ owed'["receiver"] = 1 /\ owed'["main"] = owed["main"]
      /\ owed' = [owed EXCEPT !["receiver"] = 1]
      /\ presses' = Blank
      /\ UNCHANGED <<hour, clock, late, sent, copied, shown, lists, ui_reset,
                     current_timestamp, smallest_timestamp, mapping, page, round,
                     clicked>>
  BY ReceivedSteps
<1>2. commands \in 0 .. MaxResets /\ MaxResets \in Nat /\ MaxPresses \in Nat
  BY PageBounds DEF TypeOK
<1>3. commands' \in 0 .. MaxResets /\ 1 \in 0 .. MaxResets + MaxPresses
  BY <1>1, <1>2
<1>4. owed' \in [Threads -> 0 .. MaxResets + MaxPresses]
  BY <1>1, <1>3 DEF TypeOK
<1>5. TypeOK'
  BY <1>1, <1>3, <1>4, BlankTyped DEF TypeOK
<1>6. CountsInv'
  <2>1. round \in Nat /\ Publishing \in {0, 1} /\ Publishing' = Publishing
    BY <1>1, CountsAre DEF Publishing
  <2>2. commands' + Publishing' <= round
    BY <1>1, <1>2, <2>1 DEF CountsInv
  <2> QED  BY <1>1, <2>2 DEF CountsInv
<1>7. ListingsInv'
  BY <1>1 DEF ListingsInv, Threads
<1> QED  BY <1>5, <1>6, <1>7

LEMMA ResetClickTyped ==
  ASSUME TypeInv, ResetClick
  PROVE  TypeInv' /\ clock' \in Times
<1> USE DEF TypeInv
<1>1. /\ ui_reset = "idle" /\ round < MaxResets /\ clock' = clock + 1
      /\ current_timestamp' = clock' /\ ui_reset' = "publish" /\ round' = round + 1
      /\ clicked' = clock'
      /\ UNCHANGED <<hour, late, sent, presses, owed, copied, shown, lists, commands,
                     smallest_timestamp, mapping, page>>
  BY DEF ResetClick, serverVars
<1>2. /\ clock \in Nat /\ round \in Nat /\ owed["main"] \in Nat /\ commands \in Nat
      /\ MaxResets \in Nat /\ MaxPresses \in Nat /\ Cardinality(sent) \in Nat
      /\ round <= clock /\ Cardinality(sent) + owed["main"] <= clock - round
      /\ clock - round <= MaxPresses
  BY CountsAre DEF CountsInv
<1>3. clock' \in Times /\ round' \in 0 .. MaxResets
  BY <1>1, <1>2 DEF Times
<1>4. CountsInv'
  <2>1. commands <= round
    BY <1>1 DEF CountsInv, Publishing, TypeOK
  <2>2. commands + Publishing' <= round'
    BY <1>1, <1>2, <2>1 DEF Publishing
  <2>3. /\ round' <= clock' /\ clock' - round' <= MaxPresses
        /\ Cardinality(sent) + owed["main"] <= clock' - round'
    BY <1>1, <1>2
  <2> QED  BY <1>1, <2>2, <2>3 DEF CountsInv
<1>5. ListingsInv'
  BY <1>1 DEF ListingsInv
<1>6. TypeOK'
  BY <1>1, <1>3 DEF TypeOK
<1> QED  BY <1>3, <1>4, <1>5, <1>6

LEMMA ResetPublishTyped ==
  ASSUME TypeInv, ResetPublish
  PROVE  TypeInv'
<1> USE DEF TypeInv
<1>1. /\ ui_reset = "publish" /\ ui_reset' = "idle" /\ smallest_timestamp' = None
      /\ commands' = commands + 1
      /\ UNCHANGED <<hour, clock, late, sent, presses, owed, copied, shown, lists,
                     current_timestamp, mapping, page, round, clicked>>
  BY DEF ResetPublish, serverVars, history
<1>2. /\ commands \in Nat /\ round \in Nat /\ round <= MaxResets /\ MaxResets \in Nat
      /\ commands + 1 <= round
  BY <1>1, CountsAre DEF CountsInv, Publishing
<1>3. commands' \in 0 .. MaxResets
  BY <1>1, <1>2
<1>4. TypeOK'
  BY <1>1, <1>3 DEF TypeOK
<1>5. CountsInv'
  <2>1. commands' + Publishing' <= round
    BY <1>1, <1>2 DEF Publishing
  <2> QED  BY <1>1, <2>1 DEF CountsInv
<1>6. ListingsInv'
  BY <1>1 DEF ListingsInv
<1> QED  BY <1>4, <1>5, <1>6

(* The subscriber thread leaves the registry and the counts alone.         *)
LEMMA SubscriberTyped ==
  ASSUME TypeInv, TypeOK',
         UNCHANGED <<clock, sent, owed, copied, commands, ui_reset, round>>
  PROVE  TypeInv'
BY DEF TypeInv, CountsInv, ListingsInv, Publishing

(* A list is taken to be mapped, or is lost.                               *)
LEMMA SmallestSteps ==
  ASSUME TypeOK, MapSmallest
  PROVE  /\ mapping.at = "idle" /\ lists # <<>> /\ lists' = Tail(lists)
         /\ Head(lists) \in Lists /\ lists' \in Seq(Lists) /\ mapping' \in Mappings
         /\ \/ ~Parses(Head(lists)) /\ UNCHANGED <<smallest_timestamp, mapping>>
            \/ /\ smallest_timestamp' = calc_smallest_timestamp(Head(lists))
               /\ mapping'.at = "delays" /\ mapping'.list = Head(lists)
         /\ UNCHANGED <<hour, clock, late, sent, presses, owed, copied, shown, commands,
                        ui_reset, current_timestamp, page, round, clicked>>
<1>1. /\ mapping.at = "idle" /\ lists # <<>> /\ lists' = Tail(lists)
      /\ \/ ~Parses(Head(lists)) /\ UNCHANGED <<smallest_timestamp, mapping>>
         \/ /\ smallest_timestamp' = calc_smallest_timestamp(Head(lists))
            /\ mapping' = [Idle EXCEPT !.at = "delays", !.list = Head(lists)]
      /\ UNCHANGED <<hour, clock, late, sent, presses, owed, copied, shown, commands,
                     ui_reset, current_timestamp, page, round, clicked>>
  BY DEF MapSmallest, serverVars, history
<1>2. Head(lists) \in Lists /\ lists' \in Seq(Lists)
  BY <1>1, HeadTailProperties DEF TypeOK
<1> DEFINE started == [Idle EXCEPT !.at = "delays", !.list = Head(lists)]
<1>3. started \in Mappings /\ started.at = "delays" /\ started.list = Head(lists)
  BY <1>2, IdleTyped DEF Mappings
<1> HIDE DEF started
<1>4. mapping' = mapping \/ mapping' = started
  BY <1>1 DEF started
<1>5. mapping' \in Mappings
  BY <1>3, <1>4, MappingTyped
<1> QED  BY <1>1, <1>2, <1>3, <1>5 DEF started

LEMMA MapSmallestTyped ==
  ASSUME TypeInv, MapSmallest
  PROVE  TypeInv'
<1>1. /\ lists' \in Seq(Lists) /\ Head(lists) \in Lists /\ mapping' \in Mappings
      /\ \/ smallest_timestamp' = smallest_timestamp
         \/ smallest_timestamp' = calc_smallest_timestamp(Head(lists))
      /\ UNCHANGED <<hour, clock, late, sent, presses, owed, copied, shown, commands,
                     ui_reset, current_timestamp, page, round, clicked>>
  BY SmallestSteps DEF TypeInv
<1>2. smallest_timestamp' \in Times \cup {None}
  BY <1>1, SmallestIsLeast DEF TypeInv, TypeOK
<1>3. TypeOK'
  BY <1>1, <1>2 DEF TypeInv, TypeOK, Mappings
<1> QED  BY <1>1, <1>3, SubscriberTyped

LEMMA EmitTyped ==
  ASSUME NEW list \in Lists, NEW delay \in [Buzzers -> Spans \cup {None}],
         NEW smallest \in Times \cup {None}, Emit(list, delay, smallest)
  PROVE  page' \in Pages /\ mapping' = Idle /\ mapping' \in Mappings
<1>1. ASSUME NEW b \in Buzzers
      PROVE  Since(list[b], smallest) \in Spans \cup {None}
  BY EntryTyped, SinceTyped
<1> QED  BY <1>1, IdleTyped DEF Emit, Pages

(* The delays of a list, emitted at once or kept for the next step.        *)
SpansOf(list) == [b \in Buzzers |-> Since(list[b], current_timestamp)]

LEMMA DelaysSteps ==
  ASSUME TypeOK, MapDelays
  PROVE  /\ mapping.at = "delays" /\ mapping.list \in Lists
         /\ SpansOf(mapping.list) \in [Buzzers -> Spans \cup {None}]
         /\ \/ /\ SpansOf(mapping.list) = Blank \/ smallest_timestamp = None
               /\ Emit(mapping.list, SpansOf(mapping.list), None)
            \/ /\ smallest_timestamp # None /\ page' = page
               /\ mapping' \in Mappings /\ mapping'.at = "local"
               /\ mapping'.list = mapping.list
               /\ mapping'.delay = SpansOf(mapping.list)
         /\ UNCHANGED <<hour, clock, late, sent, presses, owed, copied, shown, lists,
                        commands, ui_reset, current_timestamp, smallest_timestamp,
                        round, clicked>>
<1> DEFINE delay == SpansOf(mapping.list)
           kept == [mapping EXCEPT !.at = "local", !.delay = delay]
<1>1. /\ mapping.at = "delays"
      /\ \/ /\ delay = Blank \/ smallest_timestamp = None
            /\ Emit(mapping.list, delay, None)
         \/ /\ smallest_timestamp # None /\ page' = page
            /\ mapping' = kept
      /\ UNCHANGED <<hour, clock, late, sent, presses, owed, copied, shown, lists,
                     commands, ui_reset, current_timestamp, smallest_timestamp,
                     round, clicked>>
  BY DEF MapDelays, SpansOf, serverVars, roundVars, history
<1>2. mapping.list \in Lists /\ current_timestamp \in Times \cup {None}
  BY DEF TypeOK
<1>3. \A b \in Buzzers : Since(mapping.list[b], current_timestamp) \in Spans \cup {None}
  BY <1>2, EntryTyped, SinceTyped
<1>4. delay \in [Buzzers -> Spans \cup {None}]
  BY <1>3 DEF SpansOf
<1> HIDE DEF delay
<1>5. /\ kept \in Mappings /\ kept.at = "local" /\ kept.list = mapping.list
      /\ kept.delay = delay
  BY <1>4, MappingTyped DEF Mappings
<1> HIDE DEF kept
<1> QED  BY <1>1, <1>2, <1>4, <1>5 DEF delay

LEMMA MapDelaysTyped ==
  ASSUME TypeInv, MapDelays
  PROVE  TypeInv'
<1> DEFINE delay == SpansOf(mapping.list)
<1>1. /\ mapping.list \in Lists /\ delay \in [Buzzers -> Spans \cup {None}]
      /\ Emit(mapping.list, delay, None) \/ (page' = page /\ mapping' \in Mappings)
      /\ UNCHANGED <<hour, clock, late, sent, presses, owed, copied, shown, lists,
                     commands, ui_reset, current_timestamp, smallest_timestamp,
                     round, clicked>>
  BY DelaysSteps DEF TypeInv
<1> HIDE DEF delay
<1>2. page' \in Pages /\ mapping' \in Mappings
  BY <1>1, EmitTyped, MappingTyped DEF TypeInv
<1>3. TypeOK'
  BY <1>1, <1>2 DEF TypeInv, TypeOK, Mappings, Pages
<1> QED  BY <1>1, <1>3, SubscriberTyped

LEMMA MapLocalTyped ==
  ASSUME TypeInv, MapLocal
  PROVE  TypeInv'
<1>1. /\ \/ mapping' = Idle /\ page' = page
         \/ Emit(mapping.list, mapping.delay, smallest_timestamp)
      /\ UNCHANGED <<hour, clock, late, sent, presses, owed, copied, shown, lists,
                     commands, ui_reset, current_timestamp, smallest_timestamp,
                     round, clicked>>
  BY DEF MapLocal, serverVars, roundVars, history
<1>2. smallest_timestamp \in Times \cup {None}
  BY DEF TypeInv, TypeOK
<1>3. page' \in Pages /\ mapping' \in Mappings
  BY <1>1, <1>2, EmitTyped, IdleTyped, MappingTyped DEF TypeInv
<1>4. TypeOK'
  BY <1>1, <1>3 DEF TypeInv, TypeOK, Mappings, Pages
<1> QED  BY <1>1, <1>4, SubscriberTyped

LEMMA HourPassesTyped ==
  ASSUME TypeInv, HourPasses
  PROVE  TypeInv'
<1>1. /\ hour' \in Hours
      /\ UNCHANGED <<clock, late, sent, presses, owed, copied, shown, lists, commands,
                     ui_reset, current_timestamp, smallest_timestamp, mapping, page,
                     round, clicked>>
  BY DEF HourPasses, serverVars, roundVars, history
<1>2. TypeOK'
  BY <1>1 DEF TypeInv, TypeOK
<1> QED  BY <1>1, <1>2 DEF TypeInv, CountsInv, ListingsInv, Publishing

LEMMA TypeInvInit == Init => TypeInv
<1> SUFFICES ASSUME Init PROVE TypeInv
  OBVIOUS
<1>1. <<>> \in Seq(Lists)
  BY EmptySeq
<1>2. 0 \in 0 .. MaxResets + MaxPresses /\ 0 \in 0 .. MaxResets
  BY PageBounds
<1>3. mapping \in Mappings
  BY IdleTyped DEF Init
<1>4. page \in Pages
  BY DEF Init, Unpressed, Pages
<1>5. TypeOK
  BY <1>1, <1>2, <1>3, <1>4, BlankTyped DEF Init, TypeOK, Mappings, Pages
<1>6. CountsInv
  BY FS_EmptySet, PageBounds DEF Init, CountsInv, Publishing, Threads
<1>7. ListingsInv
  BY DEF Init, ListingsInv, Threads
<1> QED  BY <1>5, <1>6, <1>7 DEF TypeInv

LEMMA TypeInvNext == TypeInv /\ [Next]_vars => TypeInv'
<1> SUFFICES ASSUME TypeInv, [Next]_vars PROVE TypeInv'
  OBVIOUS
<1>1. ASSUME HourPasses \/ \E b \in Buzzers : PressStamped(b) PROVE TypeInv'
  BY <1>1, HourPassesTyped, PressStampedTyped
<1>2. ASSUME NEW press \in sent, PressRecorded(press) \/ PressDropped(press)
      PROVE  TypeInv'
  BY <1>2, PressRecordedTyped, PressDroppedTyped
<1>3. CASE Listing
  BY <1>3, ListCopiedTyped, ListSentTyped DEF Listing
<1>4. CASE ResetReceived
  BY <1>4, ResetReceivedTyped
<1>5. CASE ResetClick
  BY <1>5, ResetClickTyped
<1>6. CASE ResetPublish
  BY <1>6, ResetPublishTyped
<1>7. CASE Subscriber
  BY <1>7, MapSmallestTyped, MapDelaysTyped, MapLocalTyped DEF Subscriber
<1>8. CASE UNCHANGED vars
  <2>1. UNCHANGED <<hour, clock, late, sent, presses, owed, copied, shown, lists, commands,
                    ui_reset, current_timestamp, smallest_timestamp, mapping, page,
                    round, clicked>>
    BY <1>8 DEF vars, serverVars, roundVars, history
  <2>2. TypeOK'
    BY <2>1 DEF TypeInv, TypeOK
  <2> QED  BY <2>1, <2>2, SubscriberTyped
<1> QED  BY <1>1, <1>2, <1>3, <1>4, <1>5, <1>6, <1>7, <1>8 DEF Next

(* Times, lists, delays and what the page shows are always of their types: *)
(* a time is there for each press and each reset, whatever the threads of  *)
(* the UI backend make of a list (game-websocket.py:98-136).               *)
THEOREM PageTypeCorrect == Spec => []TypeOK
<1>1. TypeInv => TypeOK
  BY DEF TypeInv
<1> QED  BY <1>1, TypeInvInit, TypeInvNext, PTL DEF Spec

-----------------------------------------------------------------------------
(* The steps and the last list.                                            *)

(* The websocket handler and the threads of the backend leave the last     *)
(* list alone.                                                             *)
LEMMA PageKept ==
  ASSUME PageInv, ResetComing' <=> ResetComing, late \subseteq late',
         UNCHANGED <<shown, lists, current_timestamp, smallest_timestamp, mapping,
                     page, clicked>>
  PROVE  PageInv'
<1>1. LastList'
  BY DEF PageInv, LastList
<1>2. Parses(shown)' => Parses(shown)
  BY DEF Parses, PressedIn
<1>3. Delays(mapping.list)' = Delays(mapping.list) /\ Mapped(shown)' = Mapped(shown)
  BY DEF Delays, Mapped
<1>4. LastMapped => LastMapped'
  BY <1>2, <1>3 DEF LastMapped
<1> QED  BY <1>1, <1>4 DEF PageInv

LEMMA PageComing ==
  ASSUME PageInv, ResetComing', current_timestamp' = clicked',
         UNCHANGED <<shown, lists, mapping>>
  PROVE  PageInv'
BY DEF PageInv, LastList

(* A press on its way, recorded or dropped, and a list that is copied.     *)
LEMMA RegistryPage ==
  ASSUME TypeInv, PageInv,
         \/ HourPasses
         \/ \E b \in Buzzers : PressStamped(b)
         \/ \E press \in sent : PressRecorded(press) \/ PressDropped(press)
         \/ \E thr \in Threads : ListCopied(thr)
         \/ UNCHANGED vars
  PROVE  PageInv'
<1>1. /\ UNCHANGED <<shown, lists, current_timestamp, smallest_timestamp, mapping,
                     page, clicked, ui_reset, commands>>
      /\ late \subseteq late' /\ owed'["receiver"] = owed["receiver"]
  <2>1. CASE HourPasses \/ UNCHANGED vars
    BY <2>1 DEF HourPasses, vars, serverVars, roundVars, history
  <2>2. ASSUME NEW b \in Buzzers, PressStamped(b) PROVE <1>1!:
    BY <2>2 DEF PressStamped, serverVars, roundVars, history
  <2>3. ASSUME NEW press \in sent, PressRecorded(press) PROVE <1>1!:
    BY <2>3, RecordSteps
  <2>4. ASSUME NEW press \in sent, PressDropped(press) PROVE <1>1!:
    BY <2>4 DEF PressDropped, roundVars, history
  <2>5. ASSUME NEW thr \in Threads, ListCopied(thr) PROVE <1>1!:
    BY <2>5 DEF ListCopied, S!Copy, roundVars, history
  <2> QED  BY <2>1, <2>2, <2>3, <2>4, <2>5
<1>2. ResetComing' <=> ResetComing
  BY <1>1 DEF ResetComing
<1> QED  BY <1>1, <1>2, PageKept

LEMMA ResetPage ==
  ASSUME TypeInv, PageInv, ResetClick \/ ResetPublish \/ ResetReceived
  PROVE  PageInv'
<1>1. CASE ResetClick
  <2>1. /\ current_timestamp' = clicked' /\ ui_reset' = "publish"
        /\ UNCHANGED <<shown, lists, mapping>>
    BY <1>1 DEF ResetClick, serverVars
  <2> QED  BY <2>1, PageComing DEF ResetComing
<1>2. CASE ResetPublish
  <2>1. /\ commands' = commands + 1
        /\ UNCHANGED <<shown, lists, mapping, current_timestamp, clicked>>
    BY <1>2 DEF ResetPublish, serverVars, history
  <2>2. commands' > 0
    BY <2>1, CountsAre
  <2>3. ResetComing' /\ current_timestamp' = clicked'
    BY <2>1, <2>2 DEF ResetComing, PageInv
  <2> QED  BY <2>1, <2>3, PageComing
<1>3. CASE ResetReceived
  <2>1. /\ owed'["receiver"] = 1
        /\ UNCHANGED <<shown, lists, mapping, current_timestamp, clicked>>
    BY <1>3, ReceivedSteps
  <2>2. ResetComing' /\ current_timestamp' = clicked'
    BY <2>1 DEF ResetComing, PageInv
  <2> QED  BY <2>1, <2>2, PageComing
<1> QED  BY <1>1, <1>2, <1>3

LEMMA LastAppended ==
  ASSUME NEW s \in Seq(Lists), NEW list \in Lists
  PROVE  /\ Append(s, list) # <<>>
         /\ Append(s, list)[Len(Append(s, list))] = list
BY AppendProperties, LenProperties

LEMMA ListSentPage ==
  ASSUME TypeInv, PageInv, NEW thr \in Threads, ListSent(thr)
  PROVE  PageInv'
<1>1. /\ copied[thr] \in Lists /\ lists' = Append(lists, copied[thr])
      /\ shown' = copied[thr]
      /\ UNCHANGED <<current_timestamp, clicked>>
  BY SentSteps
<1>2. lists' # <<>> /\ lists'[Len(lists')] = shown'
  BY <1>1, LastAppended DEF TypeInv, TypeOK
<1> QED  BY <1>1, <1>2 DEF PageInv, LastList

LEMMA LastOfTail ==
  ASSUME NEW s \in Seq(Lists), s # <<>>
  PROVE  IF Tail(s) = <<>> THEN Head(s) = s[Len(s)]
         ELSE Tail(s)[Len(Tail(s))] = s[Len(s)]
<1> DEFINE n == Len(s)
           t == Tail(s)
           m == Len(t)
<1>1. /\ t \in Seq(Lists) /\ n \in Nat /\ m = n - 1 /\ m \in Nat
      /\ Head(s) = s[1]
      /\ \A i \in 1 .. m : t[i] = s[i + 1]
  BY HeadTailProperties, LenProperties
<1>2. t = <<>> => m = 0
  BY EmptySeq
<1>3. t # <<>> => m # 0
  BY <1>1, EmptySeq
<1> HIDE DEF n, t, m
<1>4. m + 1 = n
  BY <1>1
<1>5. CASE t = <<>>
  <2>1. n = 1
    BY <1>2, <1>4, <1>5
  <2> QED  BY <1>1, <1>5, <2>1 DEF n, t
<1>6. CASE t # <<>>
  <2>1. m \in 1 .. m
    BY <1>1, <1>3, <1>6
  <2>2. t[m] = s[n]
    BY <1>1, <1>4, <2>1
  <2> QED  BY <1>6, <2>2 DEF n, t, m
<1> QED  BY <1>5, <1>6

LEMMA MapSmallestPage ==
  ASSUME TypeInv, PageInv, MapSmallest
  PROVE  PageInv'
<1>1. /\ mapping.at = "idle" /\ lists # <<>> /\ lists' = Tail(lists)
      /\ \/ ~Parses(Head(lists)) /\ UNCHANGED <<smallest_timestamp, mapping>>
         \/ /\ smallest_timestamp' = calc_smallest_timestamp(Head(lists))
            /\ mapping'.at = "delays" /\ mapping'.list = Head(lists)
      /\ UNCHANGED <<late, shown, current_timestamp, page, clicked>>
  BY SmallestSteps DEF TypeInv
<1>2. IF Tail(lists) = <<>> THEN Head(lists) = lists[Len(lists)]
      ELSE Tail(lists)[Len(Tail(lists))] = lists[Len(lists)]
  BY <1>1, LastOfTail DEF TypeInv, TypeOK
<1>3. lists' = <<>> => Head(lists) = shown
  BY <1>1, <1>2 DEF PageInv, LastList
<1>4. LastList'
  BY <1>1, <1>2, <1>3 DEF PageInv, LastList
<1>5. Parses(shown)' <=> Parses(shown)
  BY <1>1 DEF Parses, PressedIn
<1>6. lists' = <<>> => LastMapped'
  BY <1>1, <1>3, <1>5 DEF LastMapped
<1> QED  BY <1>1, <1>4, <1>6 DEF PageInv

(* What is emitted shows the list.                                         *)
LEMMA EmitsMapped ==
  ASSUME TypeInv, NEW list \in Lists, NEW smallest,
         Emit(list, Delays(list), smallest),
         smallest = calc_smallest_timestamp(list) \/ Delays(list) = Blank
  PROVE  page' = Mapped(list) /\ mapping' = Idle
<1>1. clicked \in Times \cup {None}
  BY DEF TypeInv, TypeOK
<1>2. ASSUME NEW b \in Buzzers
      PROVE  Delays(list)[b] = None <=> list[b] = None \/ clicked = None
  BY <1>1, EntryTyped, TimesAre DEF Delays, Since
<1>3. ASSUME NEW b \in Buzzers
      PROVE  [isPressed |-> list[b] # None, delay |-> Delays(list)[b],
              delayLocal |-> IF Delays(list)[b] = None THEN None
                             ELSE Since(list[b], smallest)]
               = [isPressed |-> list[b] # None, delay |-> Since(list[b], clicked),
                  delayLocal |-> IF list[b] = None \/ clicked = None THEN None
                     ELSE Since(list[b], calc_smallest_timestamp(list))]
  <2>1. Delays(list)[b] = Since(list[b], clicked)
    BY DEF Delays
  <2>2. (IF Delays(list)[b] = None THEN None ELSE Since(list[b], smallest))
          = IF list[b] = None \/ clicked = None THEN None
            ELSE Since(list[b], calc_smallest_timestamp(list))
    BY <1>2 DEF Blank
  <2> QED  BY <2>1, <2>2
<1> QED  BY <1>3, Zenon DEF Emit, Mapped

LEMMA MapDelaysPage ==
  ASSUME TypeInv, PageInv, MapDelays
  PROVE  PageInv'
<1> DEFINE list == mapping.list
<1>1. /\ mapping.at = "delays" /\ list \in Lists
      /\ \/ /\ SpansOf(list) = Blank \/ smallest_timestamp = None
            /\ Emit(list, SpansOf(list), None)
         \/ /\ smallest_timestamp # None /\ page' = page
            /\ mapping'.at = "local" /\ mapping'.list = list
            /\ mapping'.delay = SpansOf(list)
      /\ UNCHANGED <<late, shown, lists, commands, owed, ui_reset, current_timestamp,
                     smallest_timestamp, clicked>>
  BY DelaysSteps DEF TypeInv
<1>2. ResetComing' <=> ResetComing
  BY <1>1 DEF ResetComing
<1>3. SpansOf(list) = Delays(list)
  BY DEF SpansOf, Delays, PageInv
<1>4. CASE Emit(list, SpansOf(list), None)
  <2>1. mapping'.at = "idle"
    BY <1>4, IdleTyped DEF Emit
  <2>2. LastList'
    BY <1>1, <2>1 DEF PageInv, LastList
  <2>3. ASSUME lists = <<>>, ~ResetComing,
               SpansOf(list) = Blank \/ smallest_timestamp = None
        PROVE  LastMapped'
    <3>1. smallest_timestamp = calc_smallest_timestamp(list) /\ list = shown
      BY <1>1, <2>3 DEF PageInv, LastList, LastMapped
    <3> HIDE DEF list
    <3>2. page' = Mapped(list)
      BY <1>1, <1>3, <1>4, <2>3, <3>1, EmitsMapped
    <3>3. Mapped(shown)' = Mapped(shown)
      BY <1>1 DEF Mapped
    <3> QED  BY <2>1, <3>1, <3>2, <3>3 DEF LastMapped
  <2>4. SpansOf(list) = Blank \/ smallest_timestamp = None \/ page' = page
    BY <1>1
  <2>5. (SpansOf(list) = Blank \/ smallest_timestamp = None) => PageInv'
    BY <1>1, <1>2, <2>2, <2>3 DEF PageInv
  <2> QED  BY <1>1, <2>1, <2>5
<1>5. CASE /\ smallest_timestamp # None /\ page' = page
           /\ mapping'.at = "local" /\ mapping'.list = list
           /\ mapping'.delay = SpansOf(list)
  <2>1. LastList'
    BY <1>1, <1>5 DEF PageInv, LastList
  <2>2. Delays(mapping.list)' = Delays(list)
    BY <1>1, <1>5 DEF Delays
  <2>3. LastMapped => LastMapped'
    BY <1>1, <1>3, <1>5, <2>2 DEF LastMapped
  <2> QED  BY <1>1, <1>2, <2>1, <2>3 DEF PageInv
<1> QED  BY <1>1, <1>4, <1>5

LEMMA MapLocalPage ==
  ASSUME TypeInv, PageInv, MapLocal
  PROVE  PageInv'
<1> DEFINE list == mapping.list
<1>1. /\ mapping.at = "local"
      /\ \/ smallest_timestamp = None /\ mapping' = Idle
         \/ Emit(list, mapping.delay, smallest_timestamp)
      /\ UNCHANGED <<late, shown, lists, commands, owed, ui_reset, current_timestamp,
                     clicked>>
  BY DEF MapLocal, serverVars, roundVars, history
<1>2. ResetComing' <=> ResetComing
  BY <1>1 DEF ResetComing
<1>3. mapping'.at = "idle"
  BY <1>1, IdleTyped DEF Emit
<1>4. LastList'
  BY <1>1, <1>3 DEF PageInv, LastList
<1>5. ASSUME lists = <<>>, ~ResetComing
      PROVE  LastMapped'
  <2>1. /\ smallest_timestamp = calc_smallest_timestamp(list) /\ list = shown
        /\ smallest_timestamp # None /\ mapping.delay = Delays(list)
    BY <1>1, <1>5 DEF PageInv, LastList, LastMapped
  <2>2. list \in Lists
    BY MappingTyped DEF TypeInv
  <2> HIDE DEF list
  <2>3. page' = Mapped(list)
    BY <1>1, <2>1, <2>2, EmitsMapped
  <2>4. Mapped(shown)' = Mapped(shown)
    BY <1>1 DEF Mapped
  <2> QED  BY <1>3, <2>1, <2>3, <2>4 DEF LastMapped
<1> QED  BY <1>1, <1>2, <1>4, <1>5 DEF PageInv

LEMMA PageInvNext == TypeInv /\ PageInv /\ [Next]_vars => PageInv'
<1> SUFFICES ASSUME TypeInv, PageInv, [Next]_vars PROVE PageInv'
  OBVIOUS
<1>1. CASE Listing
  BY <1>1, RegistryPage, ListSentPage DEF Listing
<1>2. CASE ResetReceived \/ ResetClick \/ ResetPublish
  BY <1>2, ResetPage
<1>3. CASE Subscriber
  BY <1>3, MapSmallestPage, MapDelaysPage, MapLocalPage DEF Subscriber
<1> QED  BY <1>1, <1>2, <1>3, RegistryPage DEF Next

LEMMA PageInvInit == Init => PageInv
<1> SUFFICES ASSUME Init PROVE PageInv
  OBVIOUS
<1>1. mapping.at = "idle" /\ lists = <<>> /\ current_timestamp = clicked
  BY IdleTyped DEF Init
<1>2. page = Mapped(shown)
  <2>1. \A b \in Buzzers : Blank[b] = None
    BY DEF Blank
  <2> QED  BY <2>1 DEF Init, Mapped, Since, Unpressed
<1> QED  BY <1>1, <1>2 DEF PageInv, LastList, LastMapped

(* The page a list is mapped to tells the truth about it.                  *)
LEMMA MappedTells ==
  ASSUME TypeInv, page = Mapped(shown), NEW b \in Buzzers, shown[b] # None
  PROVE  /\ page[b].isPressed
         /\ page[b].delay = Since(shown[b], clicked)
         /\ clicked # None =>
              /\ page[b].delayLocal =
                   shown[b] - Min({shown[k] : k \in PressedIn(shown)})
              /\ \A k \in Buzzers \ {b} :
                   shown[k] = None \/ shown[b] < shown[k]
                     => compareBuzzerDelay(page[b], page[k]) = -1
<1>1. /\ shown \in Lists /\ clicked \in Times \cup {None}
      /\ \A k \in Buzzers : shown[k] \in Times \cup {None}
  BY EntryTyped DEF TypeInv, TypeOK
<1>2. ASSUME NEW k \in Buzzers PROVE page[k].delay = Since(shown[k], clicked)
  BY DEF Mapped
<1>3. page[b].isPressed
  BY DEF Mapped
<1>4. ASSUME clicked # None
      PROVE  page[b].delayLocal =
               shown[b] - Min({shown[k] : k \in PressedIn(shown)})
  <2> DEFINE first == calc_smallest_timestamp(shown)
  <2>1. page[b].delayLocal = Since(shown[b], first)
    BY <1>4 DEF Mapped
  <2>2. b \in PressedIn(shown)
    BY DEF PressedIn
  <2>3. first = Min({shown[k] : k \in PressedIn(shown)})
    BY <2>2 DEF calc_smallest_timestamp
  <2>4. first # None
    BY <1>1, SmallestIsLeast
  <2> HIDE DEF first
  <2>5. Since(shown[b], first) = shown[b] - first
    BY <2>4 DEF Since
  <2> QED  BY <2>1, <2>3, <2>5
<1>5. ASSUME clicked # None, NEW k \in Buzzers \ {b},
             shown[k] = None \/ shown[b] < shown[k]
      PROVE  compareBuzzerDelay(page[b], page[k]) = -1
  <2> DEFINE x == page[b].delay
             y == page[k].delay
  <2>1. clicked \in Nat /\ shown[b] \in Nat
    BY <1>1, <1>5, TimesAre
  <2>2. x = shown[b] - clicked
    BY <1>2, <1>5 DEF Since
  <2>3. x \in Int /\ x # None
    BY <2>1, <2>2, TimesAre
  <2>4. y = None \/ (y \in Int /\ x < y)
    <3>1. CASE shown[k] = None
      BY <1>2, <3>1 DEF Since
    <3>2. CASE shown[k] # None
      <4>1. shown[k] \in Nat /\ shown[b] < shown[k]
        BY <1>1, <1>5, <3>2, TimesAre
      <4>2. y = shown[k] - clicked
        BY <1>2, <1>5, <3>2 DEF Since
      <4> HIDE DEF x, y
      <4> QED  BY <2>1, <2>2, <4>1, <4>2
    <3> QED  BY <3>1, <3>2
  <2> HIDE DEF x, y
  <2>5. y # None => ~ (y < x)
    BY <2>3, <2>4
  <2>6. compareBuzzerDelay(page[b], page[k]) =
          CASE x # None /\ (y = None \/ x < y) -> -1
            [] y # None /\ (x = None \/ y < x) -> 1
            [] OTHER -> 0
    BY DEF compareBuzzerDelay, x, y
  <2> QED  BY <2>3, <2>4, <2>5, <2>6
<1> QED  BY <1>2, <1>3, <1>4, <1>5

LEMMA MappedNotPressed ==
  ASSUME page = Mapped(shown), NEW b \in Buzzers, shown[b] = None
  PROVE  page[b] = Unpressed
BY DEF Mapped, Since, Unpressed

(* For any number of buzzers, presses and resets: once the subscriber has  *)
(* caught up and no reset is on its way, the page shows of the list sent   *)
(* last who has pressed, how long after the last reset, exactly how far    *)
(* behind the first press of that list, and in which order, although the   *)
(* websocket handler sets the times of the round while the subscriber maps *)
(* lists of earlier rounds with them (game-websocket.py:36-49, 98-160).    *)
THEOREM PageIsTrue == Spec => []PageShowsRound
<1>1. TypeInv /\ PageInv => PageShowsRound
  <2> SUFFICES ASSUME TypeInv, PageInv, Settled, Parses(shown)
               PROVE  PageShowsRound
    BY DEF PageShowsRound
  <2>1. page = Mapped(shown)
    BY DEF PageInv, LastMapped, Settled
  <2> QED  BY <2>1, MappedTells, MappedNotPressed DEF PageShowsRound
<1> QED  BY <1>1, PageInvInit, TypeInvInit, TypeInvNext, PageInvNext, PTL DEF Spec
=============================================================================
