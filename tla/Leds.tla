-------------------------------- MODULE Leds --------------------------------
(***************************************************************************)
(* leds_user.c: a program that plays with the three LEDs of the keyboard   *)
(* through the device /dev/leds, and the write of that driver.  The main   *)
(* thread runs the menu, the two counters and the game Simon.  For the two *)
(* modes that blink until the user types 0 it starts a second thread, the  *)
(* hilo, which reads the numbers typed and shares intHilo with it without  *)
(* a lock.  Nobody joins a hilo, so an old one may be around.  Where the   *)
(* hilo cannot be created the main thread says so and blinks all the same. *)
(*                                                                         *)
(* EarlyGuess, NoReset, OneNumber and KeepsReading are plausible mistakes; *)
(* nothing uses them.                                                      *)
(***************************************************************************)
EXTENDS Integers, Sequences, FiniteSets

CONSTANTS
    Hilo,        \* threads that may exist at once: a bound
    Typed,       \* what the user may type
    Easy, Hard,  \* numeroLeds at the two difficulties
    MaxLeds,     \* bound: the player stops after a round with so many
    MaxSessions  \* bound: how often the user enters a blinking mode

ASSUME LedsAssumption ==
    /\ Typed \subseteq Nat /\ 0 \in Typed
    /\ Easy \in Nat \ {0} /\ Hard \in Nat \ {0}
    /\ MaxLeds \in Nat /\ Easy <= MaxLeds /\ Hard <= MaxLeds
    /\ MaxSessions \in Nat

VARIABLES
    pc,       \* where the main thread is
    leds,     \* the LEDs that are on, by the digit that lights them
    todo,     \* the numbers a counter still has to show
    hard,     \* dificultad = 2
    msg, i,   \* simon: the LEDs to remember, and the index in the loops
    shown,    \* simon: what the LEDs have shown in this round, and {} for a
              \* write that the keyboard did not take
    intHilo,  \* the number the hilo has read last
    hilo,     \* per thread: "none", "test", "read" or "party"
    session,  \* how many blinking modes have been entered
    asked,    \* the user has typed 0 in this one
    failed    \* pthread_create has failed in this one

game == <<todo, hard, msg, i, shown>>
blink == <<intHilo, hilo, session, asked, failed>>
vars == <<pc, leds, game, blink>>

Led == {1, 2, 3}

Init ==
    /\ pc = "menu" /\ leds = {}
    /\ todo = <<>> /\ hard = FALSE /\ msg = <<>> /\ i = 1 /\ shown = <<>>
    /\ intHilo = -1
    /\ hilo = [t \in Hilo |-> "none"]
    /\ session = 0 /\ asked = FALSE /\ failed = FALSE

Goto(from, to) == pc = from /\ pc' = to
-----------------------------------------------------------------------------
\* What the driver makes of a message: '1', '2' and '3' light one LED each,
\* and every other character none; the LEDs that it does not name go off.
Lit(digits) == digits \cap Led

\* device_write: after five tries the driver gives up, and the program does
\* not look at the result.
Write(digits) == leds' = Lit(digits) \/ leds' = leds

\* The messages of contadorBinario and escritorBinario
Mensaje(n) == CASE n = 0 -> {4} [] n = 1 -> {3} [] n = 2 -> {2} [] n = 3 -> {2, 3}
                [] n = 4 -> {1} [] n = 5 -> {1, 3} [] n = 6 -> {1, 2} [] n = 7 -> {1, 2, 3}

\* main: the menu.  An option that does not exist is asked for again.
Menu ==
    /\ pc = "menu"
    /\ \E x \in Typed :
        pc' = CASE x = 0 -> "exit" [] x = 1 -> "counter" [] x = 2 -> "writer"
                [] x = 3 -> "simon" [] x = 4 -> "alternate" [] x = 5 -> "party"
                [] OTHER -> "menu"
    /\ UNCHANGED <<leds, game, blink>>

\* contadorBinario
Counter ==
    /\ pc = "counter"
    /\ \E x \in Typed :
        IF x \in {1, 2}
        THEN /\ pc' = "count"
             /\ todo' = IF x = 1 THEN <<0, 1, 2, 3, 4, 5, 6, 7, 0>>
                                 ELSE <<0, 7, 6, 5, 4, 3, 2, 1, 0>>
        ELSE pc' = "menu" /\ todo' = todo
    /\ UNCHANGED <<leds, hard, msg, i, shown, blink>>

\* One message of it
Count ==
    /\ Goto("count", IF Len(todo) = 1 THEN "menu" ELSE "count")
    /\ Write(Mensaje(Head(todo)))
    /\ todo' = Tail(todo)
    /\ UNCHANGED <<hard, msg, i, shown, blink>>

\* escritorBinario
Writer ==
    /\ Goto("writer", "menu")
    /\ \E x \in Typed : IF x \in 0 .. 7 THEN Write(Mensaje(x)) ELSE leds' = leds
    /\ UNCHANGED <<game, blink>>
-----------------------------------------------------------------------------
\* A round of simon starts: n LEDs are drawn.
Draw(n) == msg' \in [1 .. n -> Led] /\ i' = 1 /\ shown' = <<>>

\* simon: its menu.  dificultad is a local, so 1 when simon is called again.
Simon ==
    /\ pc = "simon"
    /\ \E x \in Typed :
        \/ x = 1 /\ pc' = "show" /\ Draw(IF hard THEN Hard ELSE Easy) /\ hard' = hard
        \/ x # 1 /\ pc' = (CASE x = 2 -> "level" [] x = 0 -> "menu" [] OTHER -> "simon")
                 /\ hard' = (hard /\ x # 0)
                 /\ UNCHANGED <<msg, i, shown>>
    /\ UNCHANGED <<leds, todo, blink>>

\* cambiar dificultad
Level ==
    /\ Goto("level", "simon")
    /\ \E x \in Typed : hard' = IF x \in {1, 2} THEN x = 2 ELSE hard
    /\ UNCHANGED <<leds, todo, msg, i, shown, blink>>

\* Shows one LED of the round.
Show ==
    /\ Goto("show", "hide")
    /\ \/ leds' = Lit({msg[i]}) /\ shown' = Append(shown, leds')
       \/ leds' = leds /\ shown' = Append(shown, {})
    /\ UNCHANGED <<todo, hard, msg, i, blink>>

EarlyGuess == i = Len(msg) - 1 \/ Len(msg) = 1

LastShown == i = Len(msg)

\* Switches it off again.
Hide ==
    /\ Goto("hide", IF LastShown THEN "guess" ELSE "show")
    /\ Write({4})
    /\ i' = IF LastShown THEN 1 ELSE i + 1
    /\ UNCHANGED <<todo, hard, msg, shown, blink>>

\* The player gives LED i as x.  For another number traducirNumero returns
\* without a value, which may or may not be the right character.
Right(x) == x \notin Led \/ x = msg[i]
Wrong(x) == x # msg[i]

Guess ==
    /\ pc = "guess"
    /\ \E x \in Typed :
        \/ Right(x) /\ i < Len(msg) /\ i' = i + 1 /\ pc' = pc /\ UNCHANGED <<msg, shown>>
        \/ Right(x) /\ i = Len(msg) /\ Len(msg) < MaxLeds /\ pc' = "show" /\ Draw(Len(msg) + 1)
        \/ Wrong(x) /\ pc' = "lost" /\ i' = 1 /\ msg' = <<>> /\ shown' = <<>>
    /\ UNCHANGED <<leds, todo, hard, blink>>

\* All three LEDs flash three times.
Lost ==
    /\ Goto("lost", IF i = 6 THEN "simon" ELSE "lost")
    /\ Write(IF i % 2 = 1 THEN Led ELSE {4})
    /\ i' = IF i = 6 THEN 1 ELSE i + 1
    /\ UNCHANGED <<todo, hard, msg, shown, blink>>
-----------------------------------------------------------------------------
\* modoAlternante and partyTime: the hilo is created, or that fails, ...
Enter(from, to, start) ==
    /\ Goto(from, to)
    /\ session < MaxSessions /\ session' = session + 1
    /\ \/ \E t \in Hilo : hilo[t] = "none" /\ hilo' = [hilo EXCEPT ![t] = start]
          /\ failed' = FALSE
       \/ hilo' = hilo /\ failed' = TRUE
    /\ asked' = FALSE /\ i' = 1
    /\ UNCHANGED <<leds, todo, hard, msg, shown, intHilo>>

\* ... and only then the 0 of the last time is looked for ...
ResetTest(from, set, to) ==
    /\ Goto(from, IF intHilo = 0 THEN set ELSE to)
    /\ UNCHANGED <<leds, game, blink>>

NoReset == intHilo

AfterReset == -1

\* ... and removed, with whatever the hilo has read since.
Reset(from, to) ==
    /\ Goto(from, to)
    /\ intHilo' = AfterReset
    /\ UNCHANGED <<leds, game, hilo, session, asked, failed>>

\* The loop test
Loop(from, to) ==
    /\ Goto(from, IF intHilo # 0 THEN to ELSE "off")
    /\ UNCHANGED <<leds, game, blink>>

\* modoAlternante lights the LEDs in turn.
Alternate ==
    /\ Goto("alternateBlink", IF i = 3 THEN "alternateLoop" ELSE "alternateBlink")
    /\ Write({i})
    /\ i' = (i % 3) + 1
    /\ UNCHANGED <<todo, hard, msg, shown, blink>>

\* partyTime lights any of them.
Party ==
    /\ Goto("partyBlink", "partyLoop")
    /\ \E x \in Led : Write({x})
    /\ UNCHANGED <<game, blink>>

\* Both switch the LEDs off.
Off ==
    /\ Goto("off", "menu")
    /\ Write({4})
    /\ UNCHANGED <<game, blink>>

Main ==
    \/ Menu \/ Counter \/ Count \/ Writer
    \/ Simon \/ Level \/ Show \/ Hide \/ Guess \/ Lost
    \/ Enter("alternate", "alternateReset", "test")
    \/ Enter("party", "partyReset", "party")
    \/ ResetTest("alternateReset", "alternateSet", "alternateLoop")
    \/ ResetTest("partyReset", "partySet", "partyLoop")
    \/ Reset("alternateSet", "alternateLoop") \/ Reset("partySet", "partyLoop")
    \/ Loop("alternateLoop", "alternateBlink") \/ Loop("partyLoop", "partyBlink")
    \/ Alternate \/ Party \/ Off

HiloGoto(t, from, to) == hilo[t] = from /\ hilo' = [hilo EXCEPT ![t] = to]

KeepsReading == TRUE

\* The test of the loop in funcionDelHiloAlternante
GoesOn == intHilo # 0

HiloTest(t) ==
    /\ HiloGoto(t, "test", IF GoesOn THEN "read" ELSE "none")
    /\ UNCHANGED <<pc, leds, game, intHilo, session, asked, failed>>

Type(x) ==
    /\ intHilo' = x
    /\ asked' = (asked \/ x = 0)
    /\ UNCHANGED <<pc, leds, game, session, failed>>

OneNumber == "none"

AfterRead == "test"

\* The number also changes delay, with which the model does nothing.
HiloRead(t, x) == HiloGoto(t, "read", AfterRead) /\ Type(x)

\* funcionDelHiloParty
HiloParty(t, x) == HiloGoto(t, "party", "none") /\ Type(x)

HiloStep(t) ==
    \/ HiloTest(t) \/ \E x \in Typed : HiloRead(t, x) \/ HiloParty(t, x)

Next == Main \/ \E t \in Hilo : HiloStep(t)

(* The threads keep running, and a user who is asked for a number again    *)
(* and again in a blinking mode types 0 at some time.                      *)
Fairness ==
    /\ WF_vars(Main)
    /\ \A t \in Hilo :
        /\ WF_vars(HiloTest(t))
        /\ WF_vars(\E x \in Typed : HiloRead(t, x) \/ HiloParty(t, x))
        /\ SF_vars(HiloRead(t, 0)) /\ SF_vars(HiloParty(t, 0))

Spec == Init /\ [][Next]_vars /\ Fairness
-----------------------------------------------------------------------------
Blinking == {"alternateLoop", "alternateBlink", "partyLoop", "partyBlink"}

TypeOK ==
    /\ leds \subseteq Led
    /\ \A n \in DOMAIN todo : todo[n] \in 0 .. 7
    /\ hard \in BOOLEAN /\ msg \in Seq(Led)
    /\ i \in 1 .. (IF pc = "lost" THEN 6 ELSE IF pc \in Blinking THEN 3 ELSE MaxLeds)
    /\ intHilo \in Typed \cup {-1}
    /\ hilo \in [Hilo -> {"none", "test", "read", "party"}]
    /\ session \in 0 .. MaxSessions /\ asked \in BOOLEAN /\ failed \in BOOLEAN

(* Simon asks for as many LEDs as he has shown, and for the ones he has    *)
(* shown, except where the keyboard did not take the write.                *)
AsksForShown == pc = "guess" =>
    /\ Len(shown) = Len(msg)
    /\ \A n \in DOMAIN msg : shown[n] \in {{msg[n]}, {}}

(* A game can be won: the LEDs are right, and what is asked was shown.     *)
SimonIsFair == TypeOK /\ AsksForShown

(* A blinking mode only ends because the user typed 0 after he entered it, *)
(* not because of the 0 that ended the one before.                         *)
EndsOnlyIfAsked == [][(pc \in Blinking /\ pc' = "off") => asked]_vars

\* Nobody is left who could set intHilo to 0.
Hopeless == pc \in Blinking /\ intHilo # 0 /\ \A t \in Hilo : hilo[t] = "none"

(* The program can blink for ever without a thread that reads the number   *)
(* to end it, but only where that thread could not be created, in a party  *)
(* in which another number was typed, when a 0 was typed before the main   *)
(* thread removed the old one, or, when it is not the first time, because  *)
(* the new thread saw the old 0.                                           *)
HopelessOnlyIf == Hopeless =>
    failed \/ asked \/ session > 1 \/ pc \in {"partyLoop", "partyBlink"}

(* When a blinking mode was entered for the first time, the menu gets all  *)
(* that the user types after it: no thread of it reads any more.           *)
MenuReadsAlone == session <= 1 /\ pc = "menu" => \A t \in Hilo : hilo[t] # "read"

(* The threads that read for a blinking mode are there as long as it needs *)
(* them and no longer, with the exceptions these two name.                 *)
NobodyLeftBehind == HopelessOnlyIf /\ MenuReadsAlone

(* The first time, a user who keeps asking gets back to the menu, unless   *)
(* nobody can hear him any more.                                           *)
BlinkingEnds == (pc \in Blinking /\ session = 1) ~> (pc = "menu" \/ Hopeless)
=============================================================================
