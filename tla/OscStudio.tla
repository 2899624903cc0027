----------------------------- MODULE OscStudio -----------------------------
(***************************************************************************)
(* OSC Studio: the profiles of message cards and the loop that sends one   *)
(* card again and again (useOscStudio.ts, osc-studio.ts).  The loop is a   *)
(* chain of timeouts and awaits; a run number tells its continuations      *)
(* whether somebody has stopped it since, and autoTimerRef holds the one   *)
(* timeout that a stop can still clear.                                    *)
(*                                                                         *)
(* A step is a task of the page's event loop.  Time is relative: a run     *)
(* keeps what is left of its delay and how far it is into its interval.    *)
(* A card is what a send makes of it: "mute" stands for one that is        *)
(* disabled, has no address or no value, and is skipped.                   *)
(***************************************************************************)
EXTENDS Naturals, Sequences, SequencesExt

CONSTANTS
    Cards,        \* card ids
    NoCard,       \* null
    Defaults,     \* the cards of cloneDefaults
    Chatbox,      \* the cards that go to the chatbox
    Interval,     \* autoIntervalSec of each card
    AutoLimit,    \* CHATBOX_AUTO_RATE_LIMIT_MS
    MaxProfiles,  \* bound: profiles
    MaxRuns,      \* bound: runs whose continuations are alive
    MaxActs       \* bound: what the user does

ASSUME OscStudioAssumption ==
    /\ NoCard \notin Cards
    /\ Defaults \subseteq Cards /\ Defaults # {}
    /\ Chatbox \subseteq Cards
    /\ Interval \in [Cards -> Nat \ {0}]
    /\ AutoLimit \in Nat
    /\ MaxProfiles \in Nat \ {0}
    /\ MaxRuns \in Nat
    /\ MaxActs \in Nat

VARIABLES
    profiles,  \* the cards of each profile
    active,    \* the active profile
    current,   \* the run that autoRunIdRef names, or None
    autoId,    \* activeAutoId: the card the page shows as being sent
    runs,      \* the loops that were started
    ref,       \* the run whose timeout autoTimerRef holds, or None
    lastAuto,  \* time since lastChatboxAutoSentRef, up to AutoLimit
    acts

vars == <<profiles, active, current, autoId, runs, ref, lastAuto, acts>>

Runs == 1..MaxRuns
None == 0
Shapes == {"absent", "mute", "on"}
Book == [Cards -> Shapes]
DefaultBook == [c \in Cards |-> IF c \in Defaults THEN "on" ELSE "absent"]

Steps == {"off", "timer", "hardware", "wait", "send"}

\* "seen" is the card as the run captured it when its timeout fired.
Run == [pc : Steps, card : Cards, seen : {"mute", "on"}, left : Nat, phase : Nat]
SomeCard == CHOOSE c \in Cards : TRUE
Off == [pc |-> "off", card |-> SomeCard, seen |-> "mute", left |-> 0, phase |-> 0]

TypeOK ==
    /\ profiles \in Seq(Book)
    /\ Len(profiles) <= MaxProfiles
    /\ active \in 1..Len(profiles)
    /\ current \in Runs \cup {None}
    /\ autoId \in Cards \cup {NoCard}
    /\ ref \in Runs \cup {None}
    /\ runs \in [Runs -> Run]
    /\ \A r \in Runs : runs[r].phase < Interval[runs[r].card]
    /\ lastAuto \in 0..AutoLimit
    /\ acts \in 0..MaxActs

\* What localStorage holds, or a profile of defaults.
Init ==
    /\ \E n \in 1..MaxProfiles : profiles \in [1..n -> Book] /\ active \in 1..n
    /\ current = None
    /\ autoId = NoCard
    /\ runs = [r \in Runs |-> Off]
    /\ ref = None
    /\ lastAuto = AutoLimit
    /\ acts = 0

-----------------------------------------------------------------------------
(* The loop: what a run does next, as the set of its next records *)

IsCurrent(r) == current = r
CardNow(r) == profiles[active][runs[r].card]

\* scheduleNext: the next beat after now.
Scheduled(x) == [x EXCEPT !.pc = "timer", !.left = Interval[x.card] - x.phase]
Sending(x) == [x EXCEPT !.pc = "send", !.left = 0]

\* sendChatboxWithLimit: what is left of the limit is waited for.  A template
\* may render empty, and is skipped.
Rendered(x) == {Scheduled(x), Sending(x)}
SentWithLimit(x) ==
    IF lastAuto < AutoLimit
    THEN {[x EXCEPT !.pc = "wait", !.left = AutoLimit - lastAuto]}
    ELSE Rendered(x)

\* sendCard, for the current run.
SentCard(x) ==
    CASE x.seen = "mute"     -> {Scheduled(x)}
      [] x.card \in Chatbox -> SentWithLimit(x)
      [] OTHER              -> {Sending(x)}

\* Run r becomes one of "nexts"; a new timeout takes the place of the handle.
Go(r, nexts, handle) ==
    \E x \in nexts :
        /\ runs' = [runs EXCEPT ![r] = x]
        /\ ref' = IF x.pc = "timer" THEN r ELSE handle

\* The timeout: runOnce takes the card of the active profile, and may have to
\* read the hardware first.  A run whose card is gone ends, and stays the one
\* that autoRunIdRef names.
Fire(r) ==
    /\ runs[r].pc = "timer" /\ runs[r].left = 0
    /\ IF IsCurrent(r) /\ CardNow(r) # "absent"
       THEN LET x == [runs[r] EXCEPT !.seen = CardNow(r)]
            IN  Go(r, {[x EXCEPT !.pc = "hardware"]} \cup SentCard(x), None) /\ UNCHANGED autoId
       ELSE Go(r, {Off}, None) /\ autoId' = IF IsCurrent(r) THEN NoCard ELSE autoId
    /\ UNCHANGED <<profiles, active, current, lastAuto, acts>>

\* refreshHardware settles, whatever the host answers.
HardwareDone(r) ==
    /\ runs[r].pc = "hardware"
    /\ Go(r, IF IsCurrent(r) THEN SentCard(runs[r]) ELSE {Off}, ref)
    /\ UNCHANGED <<profiles, active, current, autoId, lastAuto, acts>>

\* Mutant: nobody asks again between the wait and the message.
WaitDoneUnasked(r) ==
    /\ runs[r].pc = "wait" /\ runs[r].left = 0
    /\ Go(r, IF IsCurrent(r) THEN Rendered(runs[r]) ELSE {Off, Sending(runs[r])}, ref)
    /\ UNCHANGED <<profiles, active, current, autoId, lastAuto, acts>>

WaitDone(r) ==
    /\ runs[r].pc = "wait" /\ runs[r].left = 0
    /\ Go(r, IF IsCurrent(r) THEN Rendered(runs[r]) ELSE {Off}, ref)
    /\ UNCHANGED <<profiles, active, current, autoId, lastAuto, acts>>

\* Mutant: an error ends the loop.
SendDoneOrDies(r, ok) ==
    /\ runs[r].pc = "send"
    /\ lastAuto' = IF ok /\ runs[r].card \in Chatbox THEN 0 ELSE lastAuto
    /\ Go(r, IF IsCurrent(r) /\ ok THEN {Scheduled(runs[r])} ELSE {Off}, ref)
    /\ UNCHANGED <<profiles, active, current, autoId, acts>>

\* The host answers.  A message that went out counts for the limit whoever sent
\* it; an error starts the interval anew.
SendDone(r, ok) ==
    /\ runs[r].pc = "send"
    /\ lastAuto' = IF ok /\ runs[r].card \in Chatbox THEN 0 ELSE lastAuto
    /\ Go(r, IF ~IsCurrent(r) THEN {Off}
             ELSE {Scheduled(IF ok THEN runs[r] ELSE [runs[r] EXCEPT !.phase = 0])},
          ref)
    /\ UNCHANGED <<profiles, active, current, autoId, acts>>

Tick ==
    /\ runs' = [r \in Runs |->
            [runs[r] EXCEPT !.left = IF @ = 0 THEN 0 ELSE @ - 1,
                            !.phase = IF runs[r].pc = "off" THEN 0
                                      ELSE (@ + 1) % Interval[runs[r].card]]]
    /\ lastAuto' = IF lastAuto < AutoLimit THEN lastAuto + 1 ELSE AutoLimit
    /\ UNCHANGED <<profiles, active, current, autoId, ref, acts>>

-----------------------------------------------------------------------------
(* The user *)

Act == acts < MaxActs /\ acts' = acts + 1

\* stopAutoSend: no run is current, and the timeout of the handle is cleared.
Stopped == IF ref = None THEN runs ELSE [runs EXCEPT ![ref] = Off]
StopAutoSend ==
    /\ current' = None /\ autoId' = NoCard
    /\ runs' = Stopped
    /\ ref' = None

\* Mutant: the loop that is running is not stopped first.
StartBeside(c) ==
    /\ Act
    /\ profiles[active][c] # "absent"
    /\ \E r \in Runs :
        /\ runs[r].pc = "off" /\ r # current
        /\ runs' = [runs EXCEPT ![r] = [Off EXCEPT !.pc = "timer", !.card = c]]
        /\ current' = r /\ ref' = r /\ autoId' = c
    /\ UNCHANGED <<profiles, active, lastAuto>>

\* startAutoSend: a new run, whose first timeout is due at once.
Start(c) ==
    /\ Act
    /\ profiles[active][c] # "absent"
    /\ \E r \in Runs :
        /\ Stopped[r].pc = "off"
        /\ runs' = [Stopped EXCEPT ![r] = [Off EXCEPT !.pc = "timer", !.card = c]]
        /\ current' = r /\ ref' = r /\ autoId' = c
    /\ UNCHANGED <<profiles, active, lastAuto>>

Stop ==
    /\ Act
    /\ current # None
    /\ StopAutoSend
    /\ UNCHANGED <<profiles, active, lastAuto>>

\* The page is left and opened again: the effect stops the loop, and the next
\* hook has refs of its own that the old continuations do not reach.
Leave ==
    /\ Act
    /\ current' = None /\ ref' = None /\ autoId' = NoCard
    /\ runs' = [r \in Runs |-> Off]
    /\ lastAuto' = AutoLimit
    /\ UNCHANGED <<profiles, active>>

\* setActiveProfileCards
Commit(book) ==
    /\ profiles' = [profiles EXCEPT ![active] = book]
    /\ UNCHANGED <<active, lastAuto>>
Edit(book) == Act /\ Commit(book) /\ UNCHANGED <<current, autoId, runs, ref>>

AddCard(c, shape) ==
    profiles[active][c] = "absent" /\ Edit([profiles[active] EXCEPT ![c] = shape])
PatchCard(c, shape) ==
    profiles[active][c] # "absent" /\ Edit([profiles[active] EXCEPT ![c] = shape])
RemoveCard(c) ==
    profiles[active][c] # "absent" /\ Edit([profiles[active] EXCEPT ![c] = "absent"])

\* importIntoActiveProfile refuses a file without cards.
Import(book) ==
    (\E c \in Cards : book[c] # "absent") /\ Edit(book)

\* The page stops the loop before it resets the cards.
ResetCards ==
    Act /\ StopAutoSend /\ Commit(DefaultBook)

SelectProfile(i) ==
    /\ Act
    /\ StopAutoSend
    /\ active' = i
    /\ UNCHANGED <<profiles, lastAuto>>

\* A new profile is the active one, and the loop goes on in it if it has a card
\* of the same id.
AddProfile ==
    /\ Act
    /\ Len(profiles) < MaxProfiles
    /\ profiles' = Append(profiles, DefaultBook)
    /\ active' = Len(profiles')
    /\ UNCHANGED <<current, autoId, runs, ref, lastAuto>>

\* Mutant: the deleted profile stays the active one.
RemoveKeepsActive ==
    /\ Act
    /\ StopAutoSend
    /\ profiles' = IF Len(profiles) > 1 THEN RemoveAt(profiles, active) ELSE profiles
    /\ UNCHANGED <<active, lastAuto>>

\* The bar deletes the active profile; the last one stays.
RemoveProfile ==
    /\ Act
    /\ StopAutoSend
    /\ IF Len(profiles) > 1
       THEN profiles' = RemoveAt(profiles, active) /\ active' = 1
       ELSE UNCHANGED <<profiles, active>>
    /\ UNCHANGED lastAuto

-----------------------------------------------------------------------------
Loop(r) == Fire(r) \/ HardwareDone(r) \/ WaitDone(r) \/ \E ok \in BOOLEAN : SendDone(r, ok)

Next ==
    \/ Tick
    \/ \E r \in Runs : Loop(r)
    \/ \E c \in Cards : Start(c) \/ RemoveCard(c)
    \/ \E c \in Cards, shape \in {"mute", "on"} : AddCard(c, shape) \/ PatchCard(c, shape)
    \/ \E book \in Book : Import(book)
    \/ \E i \in 1..Len(profiles) : SelectProfile(i)
    \/ Stop \/ Leave \/ ResetCards \/ AddProfile \/ RemoveProfile

\* Timers fire and every call settles (IpcChannel's PromisesSettle).
Fairness == WF_vars(Tick) /\ \A r \in Runs : WF_vars(Loop(r))

Spec == Init /\ [][Next]_vars /\ Fairness

-----------------------------------------------------------------------------
(* Properties *)

\* Every pending timeout of a loop belongs to the current run and is the one
\* that the next stop clears.  One that stopAutoSend cannot find would fire into
\* whatever runs by then: each way to a new timeout (a start, the end of a send,
\* an error) must have lost or cleared the one before, across the awaits of
\* several runs.
NoTimerAdrift ==
    \A r \in Runs : runs[r].pc = "timer" => ref = r /\ current = r

\* Once a run was stopped it starts no further message: the shouldContinue
\* questions between its awaits cover every path that the hardware snapshot and
\* the rate limit open.
StopIsHeard ==
    [][\A r \in Runs : runs[r].pc # "send" /\ runs'[r].pc = "send" => current = r]_vars

\* The card that the page shows as being sent is being sent: as long as nobody
\* stops it and its card is there, skipped cards, failed sends, the hardware
\* snapshot and the rate limit all lead back to a timeout.
AutoGoesOn ==
    \A c \in Cards :
        <>[](autoId = c /\ profiles[active][c] # "absent")
            => []<><<\E r \in Runs : runs[r].card = c /\ Fire(r)>>_vars
=============================================================================
