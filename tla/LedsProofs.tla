----------------------------- MODULE LedsProofs -----------------------------
(***************************************************************************)
(* Proofs about leds_user.c, for any number of threads, of sessions and of *)
(* LEDs to remember: what the unlocked variable intHilo tells the two      *)
(* threads of a blinking mode about each other, and that a game of simon   *)
(* can be won, which they have no part in.                                 *)
(***************************************************************************)
EXTENDS Leds, TLAPS

AlternateMode == {"alternateReset", "alternateSet", "alternateLoop", "alternateBlink"}
InMode == AlternateMode \cup {"partyReset", "partySet", "partyLoop", "partyBlink"}

\* The first session: one thread at most reads, it has not read 0 as it reads,
\* and the main thread leaves the mode only because of a 0.  HopelessOnlyIf
\* and MenuReadsAlone need all of it at once.
FirstSession ==
    /\ \A s, t \in Hilo : hilo[s] # "none" /\ hilo[t] # "none" => s = t
    /\ \A t \in Hilo : hilo[t] \in {"read", "party"} => intHilo # 0
    /\ pc \notin InMode => intHilo = 0
    /\ intHilo = 0 => asked
    /\ pc \in AlternateMode /\ ~asked /\ ~failed => \E t \in Hilo : hilo[t] \in {"test", "read"}

NumberOK == intHilo \in Int /\ session \in Nat

ZeroIsNew == pc \in Blinking /\ intHilo = 0 => asked

HiloInv ==
    /\ NumberOK /\ ZeroIsNew
    /\ hilo \in [Hilo -> {"none", "test", "read", "party"}]
    /\ session = 0 => /\ \A t \in Hilo : hilo[t] = "none"
                      /\ intHilo # 0 /\ pc \notin InMode
    /\ session = 1 => FirstSession

LEMMA HiloInit == Init => HiloInv
<1> SUFFICES ASSUME Init PROVE HiloInv
  OBVIOUS
<1>1. pc = "menu" /\ session = 0 /\ asked = FALSE /\ intHilo = -1
  BY DEF Init
<1>2. /\ hilo \in [Hilo -> {"none", "test", "read", "party"}]
      /\ \A t \in Hilo : hilo[t] = "none"
  BY DEF Init
<1>3. intHilo \in Int /\ intHilo # 0 /\ session \in Nat /\ session # 1
  BY <1>1
<1>4. pc \notin Blinking /\ pc \notin InMode
  BY <1>1 DEF Blinking, InMode, AlternateMode
<1> QED
  BY <1>1, <1>2, <1>3, <1>4 DEF HiloInv, NumberOK, ZeroIsNew

\* A step of the main thread that stays outside of the modes, or inside one
LEMMA PlainInv ==
  ASSUME HiloInv, UNCHANGED blink,
         pc \in InMode <=> pc' \in InMode,
         pc \in AlternateMode <=> pc' \in AlternateMode,
         pc' \in Blinking => pc \in Blinking
  PROVE  HiloInv'
BY DEF HiloInv, NumberOK, ZeroIsNew, FirstSession, blink

LEMMA EnterInv ==
  ASSUME HiloInv, NEW from, NEW to, NEW start \in {"test", "party"},
         Enter(from, to, start),
         to \in {"alternateReset", "partyReset"},
         to = "alternateReset" => start = "test"
  PROVE  HiloInv'
<1>1. /\ pc' = to /\ intHilo' = intHilo /\ session' = session + 1 /\ asked' = FALSE
      /\ \/ (\E t \in Hilo : hilo[t] = "none" /\ hilo' = [hilo EXCEPT ![t] = start])
            /\ failed' = FALSE
         \/ hilo' = hilo /\ failed' = TRUE
  BY DEF Enter, Goto
<1>2. hilo' \in [Hilo -> {"none", "test", "read", "party"}]
  BY <1>1 DEF HiloInv
<1>3. session = 0 => FirstSession'
  <2> SUFFICES ASSUME session = 0 PROVE FirstSession'
    OBVIOUS
  <2>1. /\ \A t \in Hilo : hilo[t] = "none"
        /\ intHilo' # 0 /\ pc' \in InMode /\ (pc' \in AlternateMode => start = "test")
    BY <1>1 DEF HiloInv, InMode, AlternateMode
  <2>2. CASE \E t \in Hilo : hilo[t] = "none" /\ hilo' = [hilo EXCEPT ![t] = start]
    <3>1. PICK t \in Hilo : hilo' = [hilo EXCEPT ![t] = start]
      BY <2>2
    <3>2. hilo'[t] = start /\ \A s \in Hilo \ {t} : hilo'[s] = "none"
      BY <2>1, <3>1 DEF HiloInv
    <3> QED BY <2>1, <3>2 DEF FirstSession
  <2>3. CASE hilo' = hilo /\ failed' = TRUE
    BY <2>1, <2>3 DEF FirstSession
  <2> QED BY <1>1, <2>2, <2>3
<1>4. /\ session' \in Nat /\ session' # 0 /\ (session' = 1 => session = 0)
      /\ intHilo' \in Int
  <2>1. NumberOK
    BY DEF HiloInv
  <2>2. session' = session + 1 /\ intHilo' = intHilo
    BY <1>1
  <2> QED BY <2>1, <2>2 DEF NumberOK
<1>5. pc' \notin Blinking
  BY <1>1 DEF Blinking
<1> QED
  BY <1>2, <1>3, <1>4, <1>5 DEF HiloInv, NumberOK, ZeroIsNew

\* The test before the reset: where it does not see a 0 it goes on to the loop,
\* and a 0 that is there by then has been typed in this session.
LEMMA ResetTestInv ==
  ASSUME HiloInv,
         \/ ResetTest("alternateReset", "alternateSet", "alternateLoop")
         \/ ResetTest("partyReset", "partySet", "partyLoop")
  PROVE  HiloInv'
<1>1. /\ UNCHANGED blink /\ pc \in InMode /\ pc' \in InMode
      /\ pc \in AlternateMode <=> pc' \in AlternateMode
      /\ pc' \in Blinking => intHilo # 0
  BY DEF ResetTest, Goto, InMode, AlternateMode, Blinking
<1> QED
  BY <1>1 DEF HiloInv, NumberOK, ZeroIsNew, FirstSession, blink

LEMMA ResetInv ==
  ASSUME HiloInv,
         \/ Reset("alternateSet", "alternateLoop") \/ Reset("partySet", "partyLoop")
  PROVE  HiloInv'
<1>0. intHilo' = AfterReset /\ UNCHANGED <<hilo, session, asked, failed>>
  BY DEF Reset
<1>1. intHilo' \in Int /\ intHilo' # 0
  BY <1>0 DEF AfterReset
<1>2. /\ pc \in InMode /\ pc' \in InMode
      /\ pc \in AlternateMode <=> pc' \in AlternateMode
  BY DEF Reset, Goto, InMode, AlternateMode
<1> QED
  BY <1>0, <1>1, <1>2 DEF HiloInv, NumberOK, ZeroIsNew, FirstSession

LEMMA LoopInv ==
  ASSUME HiloInv,
         \/ Loop("alternateLoop", "alternateBlink") \/ Loop("partyLoop", "partyBlink")
  PROVE  HiloInv'
<1>1. UNCHANGED blink /\ pc \in Blinking /\ pc \in InMode
  BY DEF Loop, Goto, Blinking, InMode, AlternateMode
<1>2. CASE intHilo = 0
  <2>1. pc' = "off"
    BY <1>2 DEF Loop, Goto
  <2> QED
    BY <1>1, <1>2, <2>1
    DEF HiloInv, NumberOK, ZeroIsNew, FirstSession, blink, Blinking, InMode, AlternateMode
<1>3. CASE intHilo # 0
  BY <1>1, <1>3, PlainInv DEF Loop, Goto, Blinking, InMode, AlternateMode
<1> QED BY <1>2, <1>3

LEMMA MainInv == ASSUME HiloInv, Main PROVE HiloInv'
<1> USE DEF InMode, AlternateMode, Blinking, Goto
<1>1. CASE Menu
  BY <1>1, PlainInv DEF Menu
<1>2. CASE Counter \/ Count \/ Writer
  BY <1>2, PlainInv DEF Counter, Count, Writer
<1>3. CASE Simon \/ Level
  BY <1>3, PlainInv DEF Simon, Level
<1>4. CASE Show \/ Hide \/ Lost
  BY <1>4, PlainInv DEF Show, Hide, Lost
<1>5. CASE Guess
  BY <1>5, PlainInv DEF Guess
<1>6. CASE Enter("alternate", "alternateReset", "test")
  BY <1>6, EnterInv
<1>7. CASE Enter("party", "partyReset", "party")
  BY <1>7, EnterInv
<1>8. CASE Alternate
  BY <1>8, PlainInv DEF Alternate
<1>9. CASE Party \/ Off
  BY <1>9, PlainInv DEF Party, Off
<1> QED
  BY <1>1, <1>2, <1>3, <1>4, <1>5, <1>6, <1>7, <1>8, <1>9, ResetTestInv, ResetInv, LoopInv
  DEF Main

LEMMA HiloStepInv == ASSUME HiloInv, NEW t \in Hilo, HiloStep(t) PROVE HiloInv'
<1>1. CASE HiloTest(t)
  <2>1. /\ UNCHANGED <<pc, intHilo, session, asked, failed>> /\ hilo[t] = "test"
        /\ hilo' = [hilo EXCEPT ![t] = IF intHilo # 0 THEN "read" ELSE "none"]
    BY <1>1 DEF HiloTest, HiloGoto, GoesOn
  <2>2. /\ hilo' \in [Hilo -> {"none", "test", "read", "party"}]
        /\ hilo'[t] = IF intHilo # 0 THEN "read" ELSE "none"
        /\ \A s \in Hilo \ {t} : hilo'[s] = hilo[s]
    BY <2>1 DEF HiloInv
  <2>3. session = 1 => FirstSession'
    BY <2>1, <2>2 DEF HiloInv, FirstSession
  <2> QED
    BY <2>1, <2>2, <2>3 DEF HiloInv, NumberOK, ZeroIsNew
<1>2. ASSUME NEW x \in Typed, HiloRead(t, x) \/ HiloParty(t, x) PROVE HiloInv'
  <2>1. /\ x \in Int /\ intHilo' = x /\ asked' = (asked \/ x = 0)
        /\ UNCHANGED <<pc, session, failed>>
    BY <1>2, LedsAssumption DEF HiloRead, HiloParty, Type
  <2>2. /\ hilo' \in [Hilo -> {"none", "test", "read", "party"}]
        /\ \A s \in Hilo \ {t} : hilo'[s] = hilo[s]
        /\ \/ hilo[t] = "read" /\ hilo'[t] = "test"
           \/ hilo[t] = "party" /\ hilo'[t] = "none"
    BY <1>2 DEF HiloRead, HiloParty, HiloGoto, AfterRead, HiloInv
  <2>3. session = 1 => FirstSession'
    <3> SUFFICES ASSUME session = 1 PROVE FirstSession'
      OBVIOUS
    <3>1. FirstSession /\ pc \in InMode /\ intHilo # 0
      BY <2>2 DEF HiloInv, FirstSession
    <3>2. \A s \in Hilo \ {t} : hilo'[s] = "none"
      BY <2>2, <3>1 DEF FirstSession
    <3>3. pc \in AlternateMode /\ ~asked' /\ ~failed' => hilo'[t] = "test"
      BY <2>1, <2>2, <3>1 DEF FirstSession, HiloInv
    <3> QED BY <2>1, <2>2, <3>1, <3>2, <3>3 DEF FirstSession
  <2> QED
    BY <2>1, <2>2, <2>3 DEF HiloInv, NumberOK, ZeroIsNew
<1> QED
  BY <1>1, <1>2 DEF HiloStep

LEMMA HiloNext == HiloInv /\ [Next]_vars => HiloInv'
<1> SUFFICES ASSUME HiloInv, [Next]_vars PROVE HiloInv'
  OBVIOUS
<1>1. CASE UNCHANGED vars
  BY <1>1, PlainInv DEF vars
<1> QED
  BY <1>1, MainInv, HiloStepInv DEF Next

LEMMA Invariance == Spec => []HiloInv
BY HiloInit, HiloNext, PTL DEF Spec

(* No 0 of an earlier session ends a blinking mode, for any number of      *)
(* sessions and of threads that are left of them (leds_user.c:206-236,     *)
(* 242-278): the old value is removed before the first test.               *)
THEOREM OnlyTheUserEnds == Spec => EndsOnlyIfAsked
<1>1. HiloInv /\ [Next]_vars => [(pc \in Blinking /\ pc' = "off") => asked]_vars
  <2> SUFFICES ASSUME HiloInv, [Next]_vars, pc \in Blinking, pc' = "off"
               PROVE  asked
    OBVIOUS
  <2>1. intHilo = 0
    <3>1. CASE Main
      BY <3>1
      DEF Main, Menu, Counter, Count, Writer, Simon, Level, Show, Hide, Guess, Lost,
          Enter, ResetTest, Reset, Loop, Alternate, Party, Off, Goto, Blinking
    <3>2. ASSUME NEW t \in Hilo, HiloStep(t) PROVE FALSE
      BY <3>2 DEF HiloStep, HiloTest, HiloRead, HiloParty, Type, Blinking
    <3> QED BY <3>1, <3>2 DEF Next, vars, Blinking
  <2> QED BY <2>1 DEF HiloInv, ZeroIsNew
<1> QED
  BY <1>1, Invariance, PTL DEF Spec, EndsOnlyIfAsked

(* In the first session the thread that reads is there as long as it is    *)
(* needed and no longer, with the exceptions the property names, for any   *)
(* numbers that the user types (leds_user.c:206-303).                      *)
THEOREM FirstIsSafe == Spec => []NobodyLeftBehind
<1>1. HiloInv => HopelessOnlyIf
  <2> SUFFICES ASSUME HiloInv, Hopeless, ~failed, ~asked, ~(session > 1),
                      pc \notin {"partyLoop", "partyBlink"}
               PROVE  FALSE
    BY DEF HopelessOnlyIf
  <2>1. pc \in AlternateMode /\ pc \in InMode
    BY DEF Hopeless, Blinking, InMode, AlternateMode
  <2>2. session = 1
    <3>1. NumberOK /\ session # 0
      BY <2>1 DEF HiloInv
    <3>2. ~(session > 1)
      OBVIOUS
    <3> QED BY <3>1, <3>2 DEF NumberOK
  <2> QED BY <2>1, <2>2 DEF HiloInv, FirstSession, Hopeless
<1>2. HiloInv => MenuReadsAlone
  BY DEF HiloInv, NumberOK, FirstSession, MenuReadsAlone, InMode, AlternateMode
<1> QED
  BY <1>1, <1>2, Invariance, PTL DEF NobodyLeftBehind
-----------------------------------------------------------------------------
\* The places where a round of simon is under way
Round == {"show", "hide", "guess"}

\* How many LEDs the round has shown so far
ShownNow == IF pc = "show" THEN i - 1 ELSE IF pc = "hide" THEN i ELSE Len(msg)

\* The index: every loop leaves it where the next one starts.
IndexOK ==
    /\ i \in Nat
    /\ pc \in Round => i \in 1 .. Len(msg)
    /\ pc = "lost" => i \in 1 .. 6
    /\ pc = "alternateBlink" => i \in 1 .. 3
    /\ pc \notin Round \cup {"lost", "alternateBlink"} => i = 1

\* What the LEDs have shown is the beginning of what is asked.
RoundOK ==
    pc \in Round =>
        /\ Len(shown) = ShownNow
        /\ \A n \in 1 .. Len(msg) : n <= Len(shown) => shown[n] \in {{msg[n]}, {}}

\* What simon remembers
SimonInv ==
    /\ msg \in Seq(Led) /\ Len(msg) <= MaxLeds
    /\ shown \in Seq(SUBSET Led)
    /\ IndexOK /\ RoundOK

\* The other variables of the main thread
MainOK ==
    /\ leds \subseteq Led /\ todo \in Seq(0 .. 7) /\ (pc = "count" => todo # <<>>)
    /\ hard \in BOOLEAN

\* What the two threads share
SharedOK ==
    /\ intHilo \in Typed \cup {-1} /\ session \in 0 .. MaxSessions
    /\ asked \in BOOLEAN /\ failed \in BOOLEAN
    /\ hilo \in [Hilo -> {"none", "test", "read", "party"}]

\* A program that has just started
LEMMA LedsInit == Init => SimonInv /\ MainOK /\ SharedOK
<1> SUFFICES ASSUME Init PROVE SimonInv /\ MainOK /\ SharedOK
  OBVIOUS
<1>1. SimonInv
  BY LedsAssumption DEF Init, SimonInv, IndexOK, RoundOK, Round
<1>2. MainOK
  <2>1. <<>> \in Seq(0 .. 7)
    OBVIOUS
  <2> QED BY <2>1 DEF Init, MainOK
<1>3. SharedOK
  <2>1. 0 \in 0 .. MaxSessions
    BY LedsAssumption
  <2> QED BY <2>1 DEF Init, SharedOK
<1> QED BY <1>1, <1>2, <1>3

\* The threads and the variables they share
LEMMA SharedNext == SharedOK /\ [Next]_vars => SharedOK'
<1> SUFFICES ASSUME SharedOK, [Next]_vars PROVE SharedOK'
  OBVIOUS
<1>1. CASE UNCHANGED blink
  BY <1>1 DEF SharedOK, blink
<1>2. ASSUME NEW from, NEW to, NEW start \in {"test", "party"}, Enter(from, to, start)
      PROVE  SharedOK'
  <2>1. session' \in 0 .. MaxSessions
    BY <1>2, LedsAssumption DEF Enter, SharedOK
  <2> QED BY <1>2, <2>1 DEF Enter, SharedOK
<1>3. ASSUME NEW from, NEW to, Reset(from, to) PROVE SharedOK'
  BY <1>3 DEF Reset, AfterReset, SharedOK
<1>4. CASE Main
  BY <1>1, <1>2, <1>3, <1>4
  DEF Main, Menu, Counter, Count, Writer, Simon, Level, Show, Hide, Guess, Lost,
      ResetTest, Loop, Alternate, Party, Off
<1>5. ASSUME NEW t \in Hilo, HiloStep(t) PROVE SharedOK'
  <2>1. CASE HiloTest(t)
    BY <2>1 DEF HiloTest, HiloGoto, GoesOn, SharedOK
  <2>2. ASSUME NEW x \in Typed, HiloRead(t, x) \/ HiloParty(t, x) PROVE SharedOK'
    BY <2>2 DEF HiloRead, HiloParty, HiloGoto, AfterRead, Type, SharedOK
  <2> QED BY <1>5, <2>1, <2>2 DEF HiloStep
<1> QED BY <1>1, <1>4, <1>5 DEF Next, vars

\* The LEDs, the counters and the difficulty
LEMMA MainNext == MainOK /\ [Next]_vars => MainOK'
<1> SUFFICES ASSUME MainOK, [Next]_vars PROVE MainOK'
  OBVIOUS
<1>1. ASSUME NEW d, Write(d) PROVE leds' \subseteq Led
  BY <1>1 DEF MainOK, Write, Lit
<1>2. CASE UNCHANGED vars \/ \E t \in Hilo : HiloStep(t)
  BY <1>2 DEF MainOK, vars, game, HiloStep, HiloTest, HiloRead, HiloParty, Type
<1>3. CASE Menu
  BY <1>3 DEF MainOK, Menu, game
<1>4. CASE Counter
  <2>1. PICK x \in Typed :
           IF x \in {1, 2}
           THEN todo' = IF x = 1 THEN <<0, 1, 2, 3, 4, 5, 6, 7, 0>>
                                 ELSE <<0, 7, 6, 5, 4, 3, 2, 1, 0>>
           ELSE pc' = "menu" /\ todo' = todo
    BY <1>4 DEF Counter
  <2>2. UNCHANGED <<leds, hard>>
    BY <1>4 DEF Counter
  <2>3. /\ <<0, 1, 2, 3, 4, 5, 6, 7, 0>> \in Seq(0 .. 7)
        /\ <<0, 7, 6, 5, 4, 3, 2, 1, 0>> \in Seq(0 .. 7)
        /\ <<0, 1, 2, 3, 4, 5, 6, 7, 0>> # <<>> /\ <<0, 7, 6, 5, 4, 3, 2, 1, 0>> # <<>>
    OBVIOUS
  <2>4. todo' \in Seq(0 .. 7) /\ (pc' = "count" => todo' # <<>>)
    BY <2>1, <2>3 DEF MainOK
  <2> QED BY <2>2, <2>4 DEF MainOK
<1>5. CASE Count
  <2>1. /\ todo' = Tail(todo) /\ UNCHANGED hard /\ leds' \subseteq Led
        /\ todo \in Seq(0 .. 7) /\ todo # <<>>
        /\ pc' = IF Len(todo) = 1 THEN "menu" ELSE "count"
    BY <1>1, <1>5 DEF Count, Goto, MainOK
  <2>2. todo' \in Seq(0 .. 7) /\ Len(todo') = Len(todo) - 1 /\ Len(todo) \in Nat
    BY <2>1
  <2>3. pc' = "count" => todo' # <<>>
    <3>1. Len(todo) # 0 /\ (pc' = "count" => Len(todo) # 1)
      BY <2>1
    <3>2. todo' = <<>> => Len(todo') = 0
      OBVIOUS
    <3> QED BY <2>2, <3>1, <3>2
  <2> QED BY <2>1, <2>2, <2>3 DEF MainOK
<1>6. CASE Writer
  BY <1>1, <1>6 DEF MainOK, Writer, Goto, game
<1>7. CASE Simon \/ Level
  BY <1>7 DEF MainOK, Simon, Level, Goto
<1>8. CASE Show \/ Hide \/ Lost
  <2>1. leds' \subseteq Led
    BY <1>1, <1>8 DEF Show, Hide, Lost, Lit, MainOK
  <2> QED BY <1>8, <2>1 DEF MainOK, Show, Hide, Lost, Goto
<1>9. CASE Guess
  BY <1>9 DEF MainOK, Guess
<1>10. ASSUME NEW from, NEW to, to # "count", Reset(from, to) \/ Loop(from, to) PROVE MainOK'
  BY <1>10 DEF MainOK, Reset, Loop, Goto, game
<1>11. ASSUME NEW from, NEW to, NEW start, to # "count", Enter(from, to, start) PROVE MainOK'
  BY <1>11 DEF MainOK, Enter, Goto
<1>12. ASSUME NEW from, NEW set, NEW to, set # "count", to # "count", ResetTest(from, set, to)
       PROVE  MainOK'
  BY <1>12 DEF MainOK, ResetTest, Goto, game
<1>13. CASE Alternate \/ Party \/ Off
  BY <1>1, <1>13 DEF MainOK, Alternate, Party, Off, Goto, game
<1> QED
  BY <1>2, <1>3, <1>4, <1>5, <1>6, <1>7, <1>8, <1>9, <1>10, <1>11, <1>12, <1>13 DEF Next, Main

\* A round starts with nothing shown, at the first of its LEDs.
LEMMA DrawSimon ==
  ASSUME NEW n \in 1 .. MaxLeds, Draw(n), pc' = "show"
  PROVE  SimonInv'
<1>1. n \in Nat \ {0} /\ n <= MaxLeds
  BY LedsAssumption
<1>2. msg' \in Seq(Led) /\ Len(msg') = n /\ i' = 1 /\ shown' = <<>>
  BY <1>1 DEF Draw
<1> QED BY <1>1, <1>2 DEF SimonInv, IndexOK, RoundOK, Round, ShownNow

\* A step that is not one of simon's
LEMMA OtherSimon ==
  ASSUME SimonInv, UNCHANGED <<msg, shown>>, pc' \notin Round, i' \in Nat,
         pc' = "lost" => i' \in 1 .. 6,
         pc' = "alternateBlink" => i' \in 1 .. 3,
         pc' \notin {"lost", "alternateBlink"} => i' = 1
  PROVE  SimonInv'
BY DEF SimonInv, IndexOK, RoundOK

\* Shows the next LED, or fails to.
LEMMA ShowSimon == ASSUME SimonInv, Show PROVE SimonInv'
<1>1. /\ pc = "show" /\ pc' = "hide" /\ UNCHANGED <<msg, i>>
      /\ msg \in Seq(Led) /\ Len(msg) <= MaxLeds /\ shown \in Seq(SUBSET Led)
      /\ i \in 1 .. Len(msg) /\ i \in Nat /\ Len(msg) \in Nat /\ Len(shown) = i - 1
      /\ \A n \in 1 .. Len(msg) : n <= Len(shown) => shown[n] \in {{msg[n]}, {}}
  BY DEF Show, Goto, SimonInv, IndexOK, RoundOK, Round, ShownNow
<1>2. msg[i] \in Led
  BY <1>1
<1>3. PICK e \in SUBSET Led : shown' = Append(shown, e) /\ e \in {{msg[i]}, {}}
  BY <1>2 DEF Show, Lit
<1>4. /\ shown' \in Seq(SUBSET Led) /\ Len(shown') = i /\ shown'[i] = e
      /\ \A n \in 1 .. i - 1 : shown'[n] = shown[n]
  BY <1>1, <1>3
<1>5. ASSUME NEW n \in 1 .. Len(msg), n <= Len(shown') PROVE shown'[n] \in {{msg[n]}, {}}
  BY <1>1, <1>3, <1>4, <1>5
<1>6. RoundOK'
  BY <1>1, <1>4, <1>5 DEF RoundOK, Round, ShownNow
<1>7. IndexOK'
  BY <1>1 DEF IndexOK, Round
<1> QED BY <1>1, <1>4, <1>6, <1>7 DEF SimonInv

\* Goes on to the next LED, or to the questions.
LEMMA HideSimon == ASSUME SimonInv, Hide PROVE SimonInv'
<1>1. /\ pc = "hide" /\ pc' = (IF i = Len(msg) THEN "guess" ELSE "show")
      /\ i' = (IF i = Len(msg) THEN 1 ELSE i + 1) /\ UNCHANGED <<msg, shown>>
      /\ msg \in Seq(Led) /\ Len(msg) <= MaxLeds /\ shown \in Seq(SUBSET Led)
      /\ i \in 1 .. Len(msg) /\ i \in Nat /\ Len(msg) \in Nat /\ Len(shown) = i
      /\ \A n \in 1 .. Len(msg) : n <= Len(shown) => shown[n] \in {{msg[n]}, {}}
  BY DEF Hide, LastShown, Goto, SimonInv, IndexOK, RoundOK, Round, ShownNow
<1>2. RoundOK'
  BY <1>1 DEF RoundOK, Round, ShownNow
<1>3. IndexOK'
  BY <1>1 DEF IndexOK, Round
<1> QED BY <1>1, <1>2, <1>3 DEF SimonInv

\* The next question, the next round, or the end of the game
LEMMA GuessSimon == ASSUME SimonInv, Guess PROVE SimonInv'
<1>1. /\ pc = "guess" /\ msg \in Seq(Led) /\ Len(msg) \in Nat /\ Len(msg) <= MaxLeds
      /\ i \in Nat /\ i \in 1 .. Len(msg) /\ shown \in Seq(SUBSET Led)
      /\ MaxLeds \in Nat
  BY LedsAssumption DEF Guess, SimonInv, IndexOK, Round
<1>2. \/ i < Len(msg) /\ i' = i + 1 /\ pc' = pc /\ UNCHANGED <<msg, shown>>
      \/ Len(msg) < MaxLeds /\ pc' = "show" /\ Draw(Len(msg) + 1)
      \/ pc' = "lost" /\ i' = 1 /\ msg' = <<>> /\ shown' = <<>>
  BY DEF Guess
<1>3. CASE i < Len(msg) /\ i' = i + 1 /\ pc' = pc /\ UNCHANGED <<msg, shown>>
  BY <1>1, <1>3 DEF SimonInv, IndexOK, RoundOK, Round, ShownNow
<1>4. CASE Len(msg) < MaxLeds /\ pc' = "show" /\ Draw(Len(msg) + 1)
  <2>1. Len(msg) + 1 \in 1 .. MaxLeds
    BY <1>1, <1>4
  <2> QED BY <1>4, <2>1, DrawSimon
<1>5. CASE pc' = "lost" /\ i' = 1 /\ msg' = <<>> /\ shown' = <<>>
  <2>1. msg' \in Seq(Led) /\ Len(msg') <= MaxLeds /\ shown' \in Seq(SUBSET Led)
    BY <1>1, <1>5
  <2> QED BY <1>5, <2>1 DEF SimonInv, IndexOK, RoundOK, Round
<1> QED BY <1>2, <1>3, <1>4, <1>5

\* Every step of the main thread
LEMMA SimonMain == ASSUME SimonInv, Main PROVE SimonInv'
<1>1. CASE Menu \/ Counter \/ Count \/ Writer \/ Level
  <2>1. /\ pc \in {"menu", "counter", "count", "writer", "level"}
        /\ pc' \in {"menu", "counter", "count", "writer", "simon", "alternate", "party", "exit"}
        /\ UNCHANGED <<msg, i, shown>>
    BY <1>1 DEF Menu, Counter, Count, Writer, Level, Goto, game
  <2>2. i = 1 /\ i' \in Nat
    BY <2>1 DEF SimonInv, IndexOK, Round
  <2> QED BY <2>1, <2>2, OtherSimon DEF Round
<1>2. CASE Simon
  <2>1. \/ pc' = "show" /\ Draw(IF hard THEN Hard ELSE Easy)
        \/ /\ pc = "simon" /\ pc' \in {"level", "menu", "simon"}
           /\ UNCHANGED <<msg, i, shown>>
    BY <1>2 DEF Simon
  <2>2. Hard \in 1 .. MaxLeds /\ Easy \in 1 .. MaxLeds
    BY LedsAssumption
  <2>3. CASE pc' = "show" /\ Draw(IF hard THEN Hard ELSE Easy)
    <3>1. (IF hard THEN Hard ELSE Easy) \in 1 .. MaxLeds
      BY <2>2
    <3> QED BY <2>3, <3>1, DrawSimon
  <2>4. CASE pc = "simon" /\ pc' \in {"level", "menu", "simon"} /\ UNCHANGED <<msg, i, shown>>
    <3>1. i = 1 /\ i' \in Nat
      BY <2>4 DEF SimonInv, IndexOK, Round
    <3> QED BY <2>4, <3>1, OtherSimon DEF Round
  <2> QED BY <2>1, <2>3, <2>4
<1>3. CASE Lost
  <2>1. /\ pc = "lost" /\ i \in 1 .. 6
        /\ pc' = (IF i = 6 THEN "simon" ELSE "lost") /\ i' = (IF i = 6 THEN 1 ELSE i + 1)
        /\ UNCHANGED <<msg, shown>>
    BY <1>3 DEF Lost, Goto, SimonInv, IndexOK
  <2> QED BY <2>1, OtherSimon DEF Round
<1>4. ASSUME NEW from, NEW to, NEW start, Enter(from, to, start),
             to \in {"alternateReset", "partyReset"}
      PROVE  SimonInv'
  BY <1>4, OtherSimon DEF Enter, Goto, Round
<1>5. CASE \/ ResetTest("alternateReset", "alternateSet", "alternateLoop")
           \/ ResetTest("partyReset", "partySet", "partyLoop")
           \/ Reset("alternateSet", "alternateLoop") \/ Reset("partySet", "partyLoop")
           \/ Loop("alternateLoop", "alternateBlink") \/ Loop("partyLoop", "partyBlink")
           \/ Party \/ Off
  <2>1. /\ pc \in {"alternateReset", "partyReset", "alternateSet", "partySet", "alternateLoop",
                   "partyLoop", "partyBlink", "off"}
        /\ pc' \in {"alternateSet", "partySet", "alternateLoop", "partyLoop", "alternateBlink", "partyBlink", "off", "menu"}
        /\ UNCHANGED <<msg, i, shown>>
    BY <1>5 DEF ResetTest, Reset, Loop, Party, Off, Goto, game
  <2>2. i = 1 /\ i' = 1
    BY <2>1 DEF SimonInv, IndexOK, Round
  <2>3. i' \in Nat /\ i' \in 1 .. 3
    BY <2>2
  <2> QED BY <2>1, <2>2, <2>3, OtherSimon DEF Round
<1>6. CASE Alternate
  <2>1. /\ pc = "alternateBlink" /\ i \in 1 .. 3 /\ i' = (i % 3) + 1
        /\ pc' = (IF i = 3 THEN "alternateLoop" ELSE "alternateBlink")
        /\ UNCHANGED <<msg, shown>>
    BY <1>6 DEF Alternate, Goto, SimonInv, IndexOK
  <2>2. i' \in 1 .. 3 /\ (i = 3 => i' = 1)
    BY <2>1
  <2> QED BY <2>1, <2>2, OtherSimon DEF Round
<1> QED
  BY <1>1, <1>2, <1>3, <1>4, <1>5, <1>6, ShowSimon, HideSimon, GuessSimon DEF Main

\* Every step
LEMMA SimonNext == SimonInv /\ [Next]_vars => SimonInv'
<1> SUFFICES ASSUME SimonInv, [Next]_vars PROVE SimonInv'
  OBVIOUS
<1>1. CASE UNCHANGED <<pc, game>>
  BY <1>1 DEF game, SimonInv, IndexOK, RoundOK, ShownNow
<1>2. ASSUME NEW t \in Hilo, HiloStep(t) PROVE UNCHANGED <<pc, game>>
  BY <1>2 DEF HiloStep, HiloTest, HiloRead, HiloParty, Type
<1> QED BY <1>1, <1>2, SimonMain DEF Next, vars

(* A game of Simon can be won: however many LEDs the player remembers, he  *)
(* is asked for as many as the round has shown, and for the same ones,     *)
(* except where the driver gave up (leds_user.c:221-312).                  *)
THEOREM SimonCanBeWon == Spec => []SimonIsFair
<1>1. SimonInv /\ MainOK /\ SharedOK => SimonIsFair
  <2> SUFFICES ASSUME SimonInv, MainOK, SharedOK PROVE SimonIsFair
    OBVIOUS
  <2>1. i \in 1 .. (IF pc = "lost" THEN 6 ELSE IF pc \in Blinking THEN 3 ELSE MaxLeds)
    <3>1. MaxLeds \in Nat \ {0} /\ Len(msg) \in Nat /\ Len(msg) <= MaxLeds /\ IndexOK
      BY LedsAssumption DEF SimonInv
    <3> QED BY <3>1 DEF IndexOK, Round, Blinking
  <2>2. TypeOK
    BY <2>1 DEF TypeOK, SimonInv, MainOK, SharedOK
  <2>3. AsksForShown
    BY DEF AsksForShown, SimonInv, RoundOK, Round, ShownNow
  <2> QED BY <2>2, <2>3 DEF SimonIsFair
<1>2. Spec => [](SimonInv /\ MainOK /\ SharedOK)
  BY LedsInit, SimonNext, MainNext, SharedNext, PTL DEF Spec
<1> QED BY <1>1, <1>2, PTL
=============================================================================
