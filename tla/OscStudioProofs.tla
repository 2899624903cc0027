-------------------------- MODULE OscStudioProofs --------------------------
(***************************************************************************)
(* Proofs about OscStudio, for any cards, intervals, profiles and runs:    *)
(* every variable keeps its type, no timeout of a loop is out of reach of  *)
(* the next stop, and a run that was stopped sends nothing more.           *)
(***************************************************************************)
EXTENDS OscStudio, SequenceTheorems, TLAPS

Handles == Runs \cup {None}

\* A run that is where the code can leave it.
Sound(x) == x \in Run /\ x.phase < Interval[x.card]

LEMMA IntervalIsPositive == \A c \in Cards : Interval[c] \in Nat /\ Interval[c] > 0
  BY OscStudioAssumption

LEMMA OffIsSound == Sound(Off) /\ Off.pc = "off" /\ Off.card \in Cards
<1>1. SomeCard \in Cards
  BY OscStudioAssumption DEF SomeCard
<1> QED
  BY <1>1, IntervalIsPositive DEF Sound, Off, Run, Steps

-----------------------------------------------------------------------------
(* The records a run goes through                                          *)

LEMMA ScheduledIsSound ==
  ASSUME NEW x, Sound(x)
  PROVE  Sound(Scheduled(x)) /\ Scheduled(x).pc = "timer"
<1>1. /\ x.card \in Cards /\ x.phase \in Nat /\ x.phase < Interval[x.card]
      /\ Interval[x.card] \in Nat /\ x \in Run
  BY IntervalIsPositive DEF Sound, Run
<1>2. Interval[x.card] - x.phase \in Nat
  BY <1>1
<1> QED
  BY <1>1, <1>2 DEF Sound, Run, Steps, Scheduled

LEMMA SendingIsSound ==
  ASSUME NEW x, Sound(x)
  PROVE  Sound(Sending(x)) /\ Sending(x).pc = "send"
  BY DEF Sound, Run, Steps, Sending

LEMMA RenderedIsSound ==
  ASSUME NEW x, Sound(x), NEW y \in Rendered(x)
  PROVE  Sound(y) /\ y.pc \in {"timer", "send"}
  BY ScheduledIsSound, SendingIsSound DEF Rendered

LEMMA SentCardIsSound ==
  ASSUME NEW x, Sound(x), lastAuto \in 0..AutoLimit, NEW y \in SentCard(x)
  PROVE  Sound(y) /\ y.pc \in {"timer", "wait", "send"}
<1>1. CASE y = Scheduled(x) \/ y = Sending(x)
  BY <1>1, ScheduledIsSound, SendingIsSound
<1>2. CASE lastAuto < AutoLimit /\ y = [x EXCEPT !.pc = "wait", !.left = AutoLimit - lastAuto]
  <2>1. AutoLimit - lastAuto \in Nat
    BY <1>2, OscStudioAssumption
  <2> QED
    BY <1>2, <2>1 DEF Sound, Run, Steps
<1> QED
  BY <1>1, <1>2 DEF SentCard, SentWithLimit, Rendered

-----------------------------------------------------------------------------
(* A step of a loop                                                        *)

\* The runs, one of them the owner of the handle, and the user's actions.
RunsTyped == runs \in [Runs -> Run] /\ \A r \in Runs : Sound(runs[r])
BooksTyped ==
    /\ profiles \in Seq(Book) /\ Len(profiles) <= MaxProfiles
    /\ active \in 1..Len(profiles)
RestTyped ==
    /\ current \in Handles /\ autoId \in Cards \cup {NoCard} /\ ref \in Handles
    /\ lastAuto \in 0..AutoLimit /\ acts \in 0..MaxActs

LEMMA TypeParts == TypeOK <=> RunsTyped /\ BooksTyped /\ RestTyped
  BY DEF TypeOK, RunsTyped, BooksTyped, RestTyped, Handles, Sound

Inv == TypeOK /\ NoTimerAdrift

LEMMA PartsMakeInv ==
  ASSUME RunsTyped', BooksTyped', RestTyped', NoTimerAdrift'
  PROVE  Inv'
  BY DEF Inv, TypeOK, RunsTyped, BooksTyped, RestTyped, Handles, Sound

\* Run r goes on: it must be current for a new timeout.
LEMMA GoKeeps ==
  ASSUME Inv, NEW r \in Runs, NEW nexts, NEW handle,
         handle = ref \/ (handle = None /\ runs[r].pc = "timer"),
         Go(r, nexts, handle), current' = current,
         \A x \in nexts : Sound(x) /\ (x.pc = "timer" => current = r)
  PROVE  RunsTyped' /\ ref' \in Handles /\ NoTimerAdrift'
<1>1. PICK x \in nexts : /\ runs' = [runs EXCEPT ![r] = x]
                         /\ ref' = IF x.pc = "timer" THEN r ELSE handle
  BY DEF Go
<1>2. Sound(x) /\ (x.pc = "timer" => current = r) /\ RunsTyped /\ ref \in Handles
  BY TypeParts DEF Inv, RestTyped
<1>3. \A q \in Runs : runs'[q] = IF q = r THEN x ELSE runs[q]
  BY <1>1, <1>2 DEF RunsTyped
<1>4. RunsTyped'
  BY <1>1, <1>2, <1>3 DEF RunsTyped, Sound
<1>5. ref' \in Handles
  BY <1>1, <1>2 DEF Handles
<1>6. NoTimerAdrift'
  <2> SUFFICES ASSUME NEW q \in Runs, runs'[q].pc = "timer" PROVE ref' = q /\ current' = q
    BY DEF NoTimerAdrift
  <2>1. CASE q = r
    BY <1>1, <1>2, <1>3, <2>1
  <2>2. CASE q # r
    <3>1. runs[q].pc = "timer" /\ ref = q /\ current = q
      BY <1>3, <2>2 DEF Inv, NoTimerAdrift
    <3>2. x.pc # "timer" /\ runs[r].pc # "timer"
      BY <1>2, <2>2, <3>1 DEF Inv, NoTimerAdrift
    <3> QED
      BY <1>1, <3>1, <3>2
  <2> QED
    BY <2>1, <2>2
<1> QED
  BY <1>4, <1>5, <1>6

LEMMA CardIsSeen ==
  ASSUME TypeOK, NEW r \in Runs, CardNow(r) # "absent"
  PROVE  CardNow(r) \in {"mute", "on"}
<1>1. profiles[active] \in Book /\ runs[r].card \in Cards
  <2>1. profiles \in Seq(Book) /\ active \in 1..Len(profiles) /\ runs[r] \in Run
    BY DEF TypeOK
  <2> QED
    BY <2>1, ElementOfSeq DEF Run
<1> QED
  BY <1>1 DEF CardNow, Book, Shapes

LEMMA FireKeeps == ASSUME Inv, NEW r \in Runs, Fire(r) PROVE Inv'
<1>1. /\ runs[r].pc = "timer" /\ Sound(runs[r]) /\ RestTyped /\ BooksTyped /\ lastAuto \in 0..AutoLimit
      /\ profiles' = profiles /\ active' = active /\ current' = current
      /\ lastAuto' = lastAuto /\ acts' = acts
  BY TypeParts DEF Fire, Inv, RunsTyped, RestTyped
<1>2. CASE IsCurrent(r) /\ CardNow(r) # "absent"
  <2> DEFINE x == [runs[r] EXCEPT !.seen = CardNow(r)]
             nexts == {[x EXCEPT !.pc = "hardware"]} \cup SentCard(x)
  <2>1. Go(r, nexts, None) /\ autoId' = autoId /\ current = r
    BY <1>2 DEF Fire, IsCurrent
  <2>2. Sound(x)
    BY <1>1, <1>2, CardIsSeen DEF Inv, Sound, Run
  <2>3. Sound([x EXCEPT !.pc = "hardware"])
    <3> HIDE DEF x
    <3> QED
      BY <2>2 DEF Sound, Run, Steps
  <2>4. \A y \in nexts : Sound(y)
    <3> HIDE DEF x
    <3> QED
      BY <1>1, <2>2, <2>3, SentCardIsSound
  <2> HIDE DEF nexts
  <2>5. RunsTyped' /\ ref' \in Handles /\ NoTimerAdrift'
    BY <1>1, <2>1, <2>4, GoKeeps
  <2>6. RestTyped' /\ BooksTyped'
    BY <1>1, <2>1, <2>5 DEF RestTyped, BooksTyped
  <2> QED
    BY <2>5, <2>6, PartsMakeInv
<1>3. CASE ~(IsCurrent(r) /\ CardNow(r) # "absent")
  <2>1. Go(r, {Off}, None) /\ autoId' \in {NoCard, autoId}
    BY <1>3 DEF Fire
  <2>2. RunsTyped' /\ ref' \in Handles /\ NoTimerAdrift'
    BY <1>1, <2>1, OffIsSound, GoKeeps
  <2>3. RestTyped' /\ BooksTyped'
    BY <1>1, <2>1, <2>2 DEF RestTyped, BooksTyped
  <2> QED
    BY <2>2, <2>3, PartsMakeInv
<1> QED
  BY <1>2, <1>3

LEMMA AwaitKeeps ==
  ASSUME Inv, NEW r \in Runs,
         HardwareDone(r) \/ WaitDone(r) \/ \E ok \in BOOLEAN : SendDone(r, ok)
  PROVE  Inv'
<1>1. /\ Sound(runs[r]) /\ RestTyped /\ BooksTyped /\ lastAuto \in 0..AutoLimit
  BY TypeParts DEF Inv, RunsTyped, RestTyped
<1>2. /\ profiles' = profiles /\ active' = active /\ current' = current
      /\ autoId' = autoId /\ acts' = acts /\ lastAuto' \in 0..AutoLimit
  <2>1. CASE HardwareDone(r) \/ WaitDone(r)
    BY <1>1, <2>1 DEF HardwareDone, WaitDone
  <2>2. ASSUME NEW ok \in BOOLEAN, SendDone(r, ok)
        PROVE  /\ profiles' = profiles /\ active' = active /\ current' = current
               /\ autoId' = autoId /\ acts' = acts /\ lastAuto' \in 0..AutoLimit
    <3>1. 0 \in 0..AutoLimit
      BY OscStudioAssumption
    <3> QED
      BY <1>1, <2>2, <3>1 DEF SendDone
  <2> QED
    BY <2>1, <2>2
<1>3. \E nexts : /\ Go(r, nexts, ref)
                 /\ \A x \in nexts : Sound(x) /\ (x.pc = "timer" => current = r)
  <2>1. CASE HardwareDone(r)
    <3> DEFINE nexts == IF IsCurrent(r) THEN SentCard(runs[r]) ELSE {Off}
    <3>1. Go(r, nexts, ref)
      BY <2>1 DEF HardwareDone
    <3>2. \A x \in nexts : Sound(x) /\ (x.pc = "timer" => current = r)
      BY <1>1, OffIsSound, SentCardIsSound DEF IsCurrent
    <3> QED
      BY <3>1, <3>2
  <2>2. CASE WaitDone(r)
    <3> DEFINE nexts == IF IsCurrent(r) THEN Rendered(runs[r]) ELSE {Off}
    <3>1. Go(r, nexts, ref)
      BY <2>2 DEF WaitDone
    <3>2. \A x \in nexts : Sound(x) /\ (x.pc = "timer" => current = r)
      BY <1>1, OffIsSound, RenderedIsSound DEF IsCurrent
    <3> QED
      BY <3>1, <3>2
  <2>3. ASSUME NEW ok \in BOOLEAN, SendDone(r, ok)
        PROVE  \E nexts : /\ Go(r, nexts, ref)
                          /\ \A x \in nexts : Sound(x) /\ (x.pc = "timer" => current = r)
    <3> DEFINE y == IF ok THEN runs[r] ELSE [runs[r] EXCEPT !.phase = 0]
               nexts == IF ~IsCurrent(r) THEN {Off} ELSE {Scheduled(y)}
    <3>1. Go(r, nexts, ref)
      BY <2>3 DEF SendDone
    <3>2. Sound(y)
      BY <1>1, IntervalIsPositive DEF Sound, Run
    <3>3. \A x \in nexts : Sound(x) /\ (x.pc = "timer" => current = r)
      <4> HIDE DEF y
      <4> QED
        BY <3>2, OffIsSound, ScheduledIsSound DEF IsCurrent
    <3> QED
      BY <3>1, <3>3
  <2> QED
    BY <2>1, <2>2, <2>3
<1>4. RunsTyped' /\ ref' \in Handles /\ NoTimerAdrift'
  <2>1. PICK nexts : /\ Go(r, nexts, ref)
                     /\ \A x \in nexts : Sound(x) /\ (x.pc = "timer" => current = r)
    BY <1>3
  <2> QED
    BY <1>2, <2>1, GoKeeps
<1>5. RestTyped' /\ BooksTyped'
  BY <1>1, <1>2, <1>4 DEF RestTyped, BooksTyped
<1> QED
  BY <1>4, <1>5, PartsMakeInv

LEMMA TickKeeps == ASSUME Inv, Tick PROVE Inv'
<1>1. RunsTyped /\ RestTyped /\ BooksTyped
  BY TypeParts DEF Inv
<1>2. \A r \in Runs : runs'[r] = [runs[r] EXCEPT !.left = IF @ = 0 THEN 0 ELSE @ - 1,
                                                 !.phase = IF runs[r].pc = "off" THEN 0
                                                           ELSE (@ + 1) % Interval[runs[r].card]]
  BY DEF Tick
<1>3. \A r \in Runs : Sound(runs'[r]) /\ runs'[r].pc = runs[r].pc
  <2> SUFFICES ASSUME NEW r \in Runs PROVE Sound(runs'[r]) /\ runs'[r].pc = runs[r].pc
    OBVIOUS
  <2> DEFINE x == runs[r]
             l == IF x.left = 0 THEN 0 ELSE x.left - 1
             p == IF x.pc = "off" THEN 0 ELSE (x.phase + 1) % Interval[x.card]
  <2>1. Sound(x) /\ x.card \in Cards /\ x.left \in Nat /\ x.phase \in Nat
    BY <1>1 DEF RunsTyped, Sound, Run
  <2>2. Interval[x.card] \in Nat /\ Interval[x.card] > 0
    BY <2>1, IntervalIsPositive
  <2>3. l \in Nat
    BY <2>1
  <2>4. p \in Nat /\ p < Interval[x.card]
    <3> DEFINE a == x.phase + 1
               b == Interval[x.card]
    <3>1. a \in Nat /\ b \in Nat /\ b > 0
      BY <2>1, <2>2
    <3>2. \A c \in Nat, d \in Nat : d > 0 => c % d \in Nat /\ c % d < d
      BY SMT
    <3>3. a % b \in Nat /\ a % b < b
      <4> HIDE DEF a, b
      <4> QED
        BY <3>1, <3>2
    <3> QED
      BY <2>2, <3>3
  <2>5. runs'[r] = [x EXCEPT !.left = l, !.phase = p]
    BY <1>2, Zenon
  <2>6. x \in Run
    BY <2>1 DEF Sound
  <2>7. Interval[x.card] \in Nat /\ p < Interval[x.card]
    BY <2>2, <2>4
  <2> HIDE DEF x, l, p
  <2>8. /\ runs'[r] \in Run /\ runs'[r].phase = p
        /\ runs'[r].card = x.card /\ runs'[r].pc = x.pc
    BY <2>3, <2>4, <2>5, <2>6 DEF Run
  <2> QED
    BY <2>7, <2>8 DEF Sound, x
<1>4. RunsTyped'
  <2>1. DOMAIN runs' = Runs /\ runs' = [r \in Runs |-> runs'[r]]
    BY DEF Tick
  <2> QED
    BY <1>3, <2>1 DEF RunsTyped, Sound
<1>5. RestTyped'
  <2>1. lastAuto' \in 0..AutoLimit
    <3>1. lastAuto \in 0..AutoLimit /\ AutoLimit \in Nat
      BY <1>1, OscStudioAssumption DEF RestTyped
    <3>2. lastAuto' = IF lastAuto < AutoLimit THEN lastAuto + 1 ELSE AutoLimit
      BY DEF Tick
    <3> QED
      BY <3>1, <3>2
  <2> QED
    BY <1>1, <2>1 DEF Tick, RestTyped
<1>6. BooksTyped'
  BY <1>1 DEF Tick, BooksTyped
<1>7. NoTimerAdrift'
  BY <1>3 DEF Tick, Inv, NoTimerAdrift
<1> QED
  BY <1>4, <1>5, <1>6, <1>7, PartsMakeInv

-----------------------------------------------------------------------------
(* The user                                                                *)

LEMMA ActCounts ==
  ASSUME RestTyped, Act
  PROVE  acts' \in 0..MaxActs
  BY OscStudioAssumption DEF RestTyped, Act

\* stopAutoSend finds the timeout, if there is one.
LEMMA StoppedIsQuiet ==
  ASSUME Inv
  PROVE  /\ Stopped \in [Runs -> Run]
         /\ \A r \in Runs : Sound(Stopped[r]) /\ Stopped[r].pc # "timer"
<1>1. RunsTyped /\ ref \in Handles /\ Sound(Off) /\ Off.pc = "off"
  BY TypeParts, OffIsSound DEF Inv, RestTyped
<1>2. CASE ref = None
  <2>1. \A r \in Runs : runs[r].pc # "timer"
    <3>1. \A r \in Runs : r # None
      BY DEF Runs, None
    <3> QED
      BY <1>2, <3>1 DEF Inv, NoTimerAdrift
  <2> QED
    BY <1>1, <1>2, <2>1 DEF Stopped, RunsTyped
<1>3. CASE ref # None
  <2>1. Stopped = [runs EXCEPT ![ref] = Off] /\ ref \in Runs
    BY <1>1, <1>3 DEF Stopped, Handles
  <2>2. \A r \in Runs : Stopped[r] = IF r = ref THEN Off ELSE runs[r]
    BY <1>1, <2>1 DEF RunsTyped
  <2>3. \A r \in Runs : r # ref => runs[r].pc # "timer"
    BY DEF Inv, NoTimerAdrift
  <2> QED
    BY <1>1, <2>1, <2>2, <2>3 DEF RunsTyped, Sound
<1> QED
  BY <1>2, <1>3

LEMMA StopKeeps ==
  ASSUME Inv, StopAutoSend
  PROVE  RunsTyped' /\ NoTimerAdrift' /\ current' \in Handles /\ ref' \in Handles /\ autoId' = NoCard
<1>1. /\ runs' = Stopped /\ current' = None /\ ref' = None /\ autoId' = NoCard
  BY DEF StopAutoSend
<1> QED
  BY <1>1, StoppedIsQuiet DEF RunsTyped, Sound, NoTimerAdrift, Handles

LEMMA StartKeeps == ASSUME Inv, NEW c \in Cards, Start(c) PROVE Inv'
<1>1. RestTyped /\ BooksTyped
  BY TypeParts DEF Inv
<1>2. PICK r \in Runs : /\ runs' = [Stopped EXCEPT ![r] = [Off EXCEPT !.pc = "timer", !.card = c]]
                        /\ current' = r /\ ref' = r /\ autoId' = c
  BY DEF Start
<1> DEFINE x == [Off EXCEPT !.pc = "timer", !.card = c]
<1>3. Sound(x)
  <2>1. x \in Run /\ x.card = c /\ x.phase = 0
    BY OffIsSound DEF Off, Run, Steps
  <2> HIDE DEF x
  <2> QED
    BY <2>1, IntervalIsPositive DEF Sound
<1> HIDE DEF x
<1>4. \A q \in Runs : runs'[q] = IF q = r THEN x ELSE Stopped[q]
  BY <1>2, StoppedIsQuiet DEF x
<1>5. RunsTyped'
  <2>1. runs' = [Stopped EXCEPT ![r] = x] /\ x \in Run
    BY <1>2, <1>3 DEF x, Sound
  <2> QED
    BY <1>3, <1>4, <2>1, StoppedIsQuiet DEF RunsTyped, Sound
<1>6. NoTimerAdrift'
  BY <1>2, <1>4, StoppedIsQuiet DEF NoTimerAdrift
<1>7. RestTyped' /\ BooksTyped'
  <2>1. acts' \in 0..MaxActs
    BY <1>1, ActCounts DEF Start
  <2> QED
    BY <1>1, <1>2, <2>1 DEF Start, RestTyped, BooksTyped, Handles
<1> QED
  BY <1>5, <1>6, <1>7, PartsMakeInv

\* The loops go on while the cards change.
LEMMA EditKeeps ==
  ASSUME Inv, Act, BooksTyped', UNCHANGED <<current, autoId, runs, ref, lastAuto>>
  PROVE  Inv'
<1>1. RunsTyped /\ RestTyped /\ NoTimerAdrift
  BY TypeParts DEF Inv
<1>2. RestTyped'
  BY <1>1, ActCounts DEF RestTyped
<1>3. RunsTyped' /\ NoTimerAdrift'
  BY <1>1 DEF RunsTyped, NoTimerAdrift
<1> QED
  BY <1>2, <1>3, PartsMakeInv

\* The loops are stopped and the profiles change.
LEMMA StopAndEditKeeps ==
  ASSUME Inv, Act, StopAutoSend, BooksTyped', lastAuto' = lastAuto
  PROVE  Inv'
<1>1. RestTyped
  BY TypeParts DEF Inv
<1>2. RestTyped'
  BY <1>1, ActCounts, StopKeeps DEF RestTyped
<1> QED
  BY <1>2, StopKeeps, PartsMakeInv

LEMMA CommitTyped ==
  ASSUME BooksTyped, NEW book \in Book, Commit(book)
  PROVE  BooksTyped' /\ lastAuto' = lastAuto
  BY ExceptSeq DEF BooksTyped, Commit

LEMMA DefaultIsBook == DefaultBook \in Book
  BY DEF DefaultBook, Book, Shapes

LEMMA CardsKeep ==
  ASSUME Inv,
         \/ \E c \in Cards : RemoveCard(c)
         \/ \E c \in Cards, shape \in {"mute", "on"} : AddCard(c, shape) \/ PatchCard(c, shape)
         \/ \E book \in Book : Import(book)
  PROVE  Inv'
<1>1. BooksTyped /\ profiles[active] \in Book
  BY TypeParts, ElementOfSeq DEF Inv, BooksTyped
<1>2. \E book \in Book : Edit(book)
  <2>1. ASSUME NEW c \in Cards, NEW shape \in Shapes
        PROVE  [profiles[active] EXCEPT ![c] = shape] \in Book
    BY <1>1 DEF Book
  <2> QED
    BY <2>1 DEF RemoveCard, AddCard, PatchCard, Import, Shapes
<1>3. PICK book \in Book : Edit(book)
  BY <1>2
<1> QED
  BY <1>1, <1>3, CommitTyped, EditKeeps DEF Edit

LEMMA ProfilesKeep ==
  ASSUME Inv, ResetCards \/ AddProfile \/ RemoveProfile \/ \E i \in 1..Len(profiles) : SelectProfile(i)
  PROVE  Inv'
<1>1. BooksTyped /\ Len(profiles) \in Nat /\ MaxProfiles \in Nat
  BY TypeParts, LenProperties, OscStudioAssumption DEF Inv, BooksTyped
<1>2. CASE ResetCards
  BY <1>1, <1>2, DefaultIsBook, CommitTyped, StopAndEditKeeps DEF ResetCards
<1>3. CASE AddProfile
  <2>1. BooksTyped'
    <3>1. /\ profiles' = Append(profiles, DefaultBook) /\ active' = Len(profiles')
          /\ Len(profiles) < MaxProfiles
      BY <1>3 DEF AddProfile
    <3>2. profiles' \in Seq(Book) /\ Len(profiles') = Len(profiles) + 1
      BY <1>1, <3>1, DefaultIsBook, AppendProperties DEF BooksTyped
    <3> QED
      BY <1>1, <3>1, <3>2 DEF BooksTyped
  <2> QED
    BY <1>3, <2>1, EditKeeps DEF AddProfile
<1>4. CASE RemoveProfile
  <2>1. BooksTyped'
    <3>1. CASE Len(profiles) > 1
      <4> DEFINE a == SubSeq(profiles, 1, active - 1)
                 b == SubSeq(profiles, active + 1, Len(profiles))
      <4>1. profiles' = a \o b /\ active' = 1
        BY <1>4, <3>1 DEF RemoveProfile, RemoveAt
      <4>2. /\ profiles \in Seq(Book) /\ active \in 1..Len(profiles)
            /\ \A i \in 1..Len(profiles) : profiles[i] \in Book
        BY <1>1, ElementOfSeq DEF BooksTyped
      <4>3. a \in Seq(Book) /\ Len(a) = active - 1
        <5>1. 1 \in Int /\ active - 1 \in Int /\ \A i \in 1..(active - 1) : profiles[i] \in Book
          BY <1>1, <4>2
        <5>2. Len(a) = IF 1 <= active - 1 THEN active - 1 - 1 + 1 ELSE 0
          BY <5>1, SubSeqProperties
        <5>3. a \in Seq(Book)
          BY <5>1, SubSeqProperties
        <5> HIDE DEF a
        <5> QED
          BY <1>1, <4>2, <5>2, <5>3
      <4>4. b \in Seq(Book) /\ Len(b) = Len(profiles) - active
        <5>1. active + 1 \in Int /\ Len(profiles) \in Int
              /\ \A i \in (active + 1)..Len(profiles) : profiles[i] \in Book
          BY <1>1, <4>2
        <5>2. Len(b) = IF active + 1 <= Len(profiles) THEN Len(profiles) - (active + 1) + 1 ELSE 0
          BY <5>1, SubSeqProperties
        <5>3. b \in Seq(Book)
          BY <5>1, SubSeqProperties
        <5> HIDE DEF b
        <5> QED
          BY <1>1, <4>2, <5>2, <5>3
      <4> HIDE DEF a, b
      <4>5. profiles' \in Seq(Book) /\ Len(profiles') = Len(profiles) - 1
        <5>1. profiles' \in Seq(Book) /\ Len(profiles') = Len(a) + Len(b)
          BY <4>1, <4>3, <4>4, ConcatProperties
        <5> QED
          BY <1>1, <4>2, <4>3, <4>4, <5>1
      <4> QED
        BY <1>1, <3>1, <4>1, <4>5 DEF BooksTyped
    <3>2. CASE ~(Len(profiles) > 1)
      BY <1>1, <1>4, <3>2 DEF RemoveProfile, BooksTyped
    <3> QED
      BY <3>1, <3>2
  <2> QED
    BY <1>4, <2>1, StopAndEditKeeps DEF RemoveProfile
<1>5. ASSUME NEW i \in 1..Len(profiles), SelectProfile(i) PROVE Inv'
  <2>1. BooksTyped'
    BY <1>1, <1>5 DEF SelectProfile, BooksTyped
  <2> QED
    BY <1>5, <2>1, StopAndEditKeeps DEF SelectProfile
<1> QED
  BY <1>2, <1>3, <1>4, <1>5

LEMMA StopOrLeaveKeep == ASSUME Inv, Stop \/ Leave PROVE Inv'
<1>1. BooksTyped /\ RestTyped
  BY TypeParts DEF Inv
<1>2. BooksTyped'
  BY <1>1 DEF Stop, Leave, BooksTyped
<1>3. CASE Stop
  BY <1>2, <1>3, StopAndEditKeeps DEF Stop
<1>4. CASE Leave
  <2>1. RunsTyped' /\ NoTimerAdrift'
    <3>1. runs' = [r \in Runs |-> Off]
      BY <1>4 DEF Leave
    <3> QED
      BY <3>1, OffIsSound DEF RunsTyped, Sound, NoTimerAdrift
  <2>2. RestTyped'
    <3>1. AutoLimit \in 0..AutoLimit /\ None \in Handles
      BY OscStudioAssumption DEF Handles
    <3> QED
      BY <1>1, <1>4, <3>1, ActCounts DEF Leave, RestTyped
  <2> QED
    BY <1>2, <2>1, <2>2, PartsMakeInv
<1> QED
  BY <1>3, <1>4

-----------------------------------------------------------------------------
(* The theorems                                                            *)

LEMMA InitInv == Init => Inv
<1> SUFFICES ASSUME Init PROVE Inv
  OBVIOUS
<1>1. runs = [r \in Runs |-> Off]
  BY DEF Init
<1>2. RunsTyped /\ NoTimerAdrift
  BY <1>1, OffIsSound DEF RunsTyped, Sound, NoTimerAdrift
<1>3. RestTyped
  BY OscStudioAssumption DEF Init, RestTyped, Handles
<1>4. BooksTyped
  <2>1. PICK n \in 1..MaxProfiles : profiles \in [1..n -> Book] /\ active \in 1..n
    BY DEF Init
  <2>2. profiles \in Seq(Book) /\ Len(profiles) = n
    BY <2>1, OscStudioAssumption
  <2> QED
    BY <2>1, <2>2, OscStudioAssumption DEF BooksTyped
<1> QED
  BY <1>2, <1>3, <1>4, TypeParts DEF Inv

LEMMA NextKeepsInv == Inv /\ [Next]_vars => Inv'
<1> SUFFICES ASSUME Inv, [Next]_vars PROVE Inv'
  OBVIOUS
<1>1. CASE Tick
  BY <1>1, TickKeeps
<1>2. ASSUME NEW r \in Runs, Loop(r) PROVE Inv'
  BY <1>2, FireKeeps, AwaitKeeps DEF Loop
<1>3. ASSUME NEW c \in Cards, Start(c) PROVE Inv'
  BY <1>3, StartKeeps
<1>4. CASE \/ \E c \in Cards : RemoveCard(c)
           \/ \E c \in Cards, shape \in {"mute", "on"} : AddCard(c, shape) \/ PatchCard(c, shape)
           \/ \E book \in Book : Import(book)
  BY <1>4, CardsKeep
<1>5. CASE ResetCards \/ AddProfile \/ RemoveProfile \/ \E i \in 1..Len(profiles) : SelectProfile(i)
  BY <1>5, ProfilesKeep
<1>6. CASE Stop \/ Leave
  BY <1>6, StopOrLeaveKeep
<1>7. CASE UNCHANGED vars
  BY <1>7 DEF vars, Inv, TypeOK, NoTimerAdrift
<1> QED
  BY <1>1, <1>2, <1>3, <1>4, <1>5, <1>6, <1>7 DEF Next

LEMMA AlwaysInv == Spec => []Inv
BY InitInv, NextKeepsInv, PTL DEF Spec

\* Every variable keeps its type: the active profile exists, and a run is never
\* past its interval.
THEOREM StudioTypes == Spec => []TypeOK
<1>1. Inv => TypeOK
  BY DEF Inv
<1> QED
  BY AlwaysInv, <1>1, PTL

\* The one handle that a stop clears is the timeout of the one current run.
THEOREM NoTimerEverAdrift == Spec => []NoTimerAdrift
<1>1. Inv => NoTimerAdrift
  BY DEF Inv
<1> QED
  BY AlwaysInv, <1>1, PTL

-----------------------------------------------------------------------------
(* What a stopped run may do                                               *)

Heard == \A r \in Runs : runs[r].pc # "send" /\ runs'[r].pc = "send" => current = r

\* A run that is not current comes out of its step without a message.
LEMMA GoIsHeard ==
  ASSUME Inv, NEW r \in Runs, NEW nexts, NEW handle, Go(r, nexts, handle),
         current # r => \A x \in nexts : x.pc # "send"
  PROVE  Heard
<1>1. PICK x \in nexts : runs' = [runs EXCEPT ![r] = x]
  BY DEF Go
<1>2. \A q \in Runs : runs'[q] = IF q = r THEN x ELSE runs[q]
  BY <1>1 DEF Inv, TypeOK
<1> QED
  BY <1>2 DEF Heard

LEMMA LoopIsHeard == ASSUME Inv, NEW r \in Runs, Loop(r) PROVE Heard
<1>1. Off.pc # "send"
  BY OffIsSound
<1>2. \E nexts, handle : Go(r, nexts, handle) /\ (current # r => \A x \in nexts : x.pc # "send")
  <2>1. CASE Fire(r)
    <3>1. CASE IsCurrent(r)
      BY <1>1, <2>1, <3>1 DEF Fire, IsCurrent
    <3>2. CASE ~IsCurrent(r)
      <4>1. Go(r, {Off}, None)
        BY <2>1, <3>2 DEF Fire
      <4> QED
        BY <1>1, <4>1
    <3> QED
      BY <3>1, <3>2
  <2>2. CASE HardwareDone(r)
    BY <1>1, <2>2 DEF HardwareDone, IsCurrent
  <2>3. CASE WaitDone(r)
    BY <1>1, <2>3 DEF WaitDone, IsCurrent
  <2>4. ASSUME NEW ok \in BOOLEAN, SendDone(r, ok)
        PROVE  \E nexts, handle : Go(r, nexts, handle) /\ (current # r => \A x \in nexts : x.pc # "send")
    BY <1>1, <2>4 DEF SendDone, IsCurrent
  <2> QED
    BY <2>1, <2>2, <2>3, <2>4 DEF Loop
<1> QED
  BY <1>2, GoIsHeard

\* Stops end a run; they never let one send.
LEMMA StoppedSendsNothingNew ==
  ASSUME Inv, NEW r \in Runs, runs[r].pc # "send"
  PROVE  Stopped[r].pc # "send"
<1>1. Off.pc # "send" /\ ref \in Handles /\ runs \in [Runs -> Run]
  BY OffIsSound DEF Inv, TypeOK, Handles
<1> QED
  BY <1>1 DEF Stopped, Handles

LEMMA UserIsHeard ==
  ASSUME Inv,
         \/ runs' = runs
         \/ runs' = Stopped
         \/ runs' = [r \in Runs |-> Off]
         \/ \E c \in Cards : Start(c)
  PROVE  Heard
<1> SUFFICES ASSUME NEW q \in Runs, runs[q].pc # "send", runs'[q].pc = "send" PROVE current = q
  BY DEF Heard
<1>1. Stopped[q].pc # "send" /\ Off.pc # "send"
  BY OffIsSound, StoppedSendsNothingNew
<1>2. PICK c \in Cards : Start(c)
  BY <1>1
<1>3. PICK r \in Runs : runs' = [Stopped EXCEPT ![r] = [Off EXCEPT !.pc = "timer", !.card = c]]
  BY <1>2 DEF Start
<1>4. [Off EXCEPT !.pc = "timer", !.card = c].pc = "timer"
  BY DEF Off
<1> QED
  BY <1>1, <1>3, <1>4, StoppedIsQuiet

LEMMA NextIsHeard == Inv /\ [Next]_vars => Heard
<1> SUFFICES ASSUME Inv, [Next]_vars PROVE Heard
  OBVIOUS
<1>1. CASE Tick
  <2>1. \A r \in Runs : runs'[r].pc = runs[r].pc
    <3>1. runs \in [Runs -> Run]
      BY DEF Inv, TypeOK
    <3> QED
      BY <1>1, <3>1 DEF Tick, Run
  <2> QED
    BY <2>1 DEF Heard
<1>2. ASSUME NEW r \in Runs, Loop(r) PROVE Heard
  BY <1>2, LoopIsHeard
<1>3. ASSUME NEW c \in Cards, Start(c) PROVE Heard
  BY <1>3, UserIsHeard
<1>4. CASE \/ \E c \in Cards : RemoveCard(c)
           \/ \E c \in Cards, shape \in {"mute", "on"} : AddCard(c, shape) \/ PatchCard(c, shape)
           \/ \E book \in Book : Import(book)
  BY <1>4, UserIsHeard DEF RemoveCard, AddCard, PatchCard, Import, Edit
<1>5. CASE ResetCards \/ AddProfile \/ RemoveProfile \/ \E i \in 1..Len(profiles) : SelectProfile(i)
  BY <1>5, UserIsHeard DEF ResetCards, AddProfile, RemoveProfile, SelectProfile, StopAutoSend
<1>6. CASE Stop \/ Leave
  BY <1>6, UserIsHeard DEF Stop, Leave, StopAutoSend
<1>7. CASE UNCHANGED vars
  BY <1>7, UserIsHeard DEF vars
<1> QED
  BY <1>1, <1>2, <1>3, <1>4, <1>5, <1>6, <1>7 DEF Next

\* Once a run was stopped it starts no further message.
THEOREM StopIsAlwaysHeard == Spec => StopIsHeard
<1>1. Inv /\ [Next]_vars => [\A r \in Runs : runs[r].pc # "send" /\ runs'[r].pc = "send" => current = r]_vars
  BY NextIsHeard DEF Heard
<1> QED
  BY AlwaysInv, <1>1, PTL DEF Spec, StopIsHeard
=============================================================================
