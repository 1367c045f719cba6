--------------------------------- MODULE Tty ---------------------------------
(* Terminals (tty.c): the line discipline of one terminal between the        *)
(* keyboard's interrupt and readers that sleep, and the thread that starts a *)
(* shell for a terminal that is switched to.  Interrupt, readers and spawner *)
(* run under the kernel lock, which a sleep drops.                           *)
EXTENDS Integers, Sequences, FiniteSets, SequencesExt

CONSTANTS
  TTY_BUFFER,
  TabStop,    \* columns between two stops of the screen
  TReaders,
  Terminals,  \* 1..n; the first is the one with readers
  TtyCases    \* modes, keys, read lengths and numbers of calls

VARIABLES
  tty,      \* buf, cooked, eof and the mode of terminal 1
  treaders, \* reader -> running its call, asleep, or done
  typing,     \* ghost: committed and read characters, columns of the line on the screen, and
              \* for every character that can be erased its columns and how it was echoed
  spawner,  \* where the spawner is, what it took and what is pending
  shells,   \* terminal -> shells alive, spawning
  ttyCase
ttyVars == <<tty, treaders, typing, spawner, shells, ttyCase>>

NoText == [committed |-> <<>>, got |-> <<>>, shown |-> 0, fixed |-> 0, marks |-> <<>>, skewed |-> FALSE]
Out == [at |-> "out", len |-> 0]
TtyInit(cases) ==
  /\ ttyCase \in cases
  /\ tty = [buf |-> <<>>, cooked |-> 0, eof |-> 0, canon |-> ttyCase.canon, isig |-> TRUE, echo |-> ttyCase.echo, ctl |-> TRUE, unwoken |-> {}]
  /\ treaders = [r \in TReaders |-> Out] /\ typing = NoText
  /\ spawner = [at |-> "take", work |-> {}, pending |-> {}]
  /\ shells = [i \in Terminals |-> [alive |-> IF i = 1 THEN 1 ELSE 0, spawning |-> FALSE]]

TtyStep(op) == op \in DOMAIN ttyCase.left /\ ttyCase.left[op] > 0 /\ ttyCase' = [ttyCase EXCEPT !.left[op] = @ - 1]
Sleeping == {r \in TReaders : treaders[r].at = "asleep"}
(* process_wakeup of the terminal's channel wakes every sleeping reader. *)
Woken == [r \in TReaders |-> IF treaders[r].at = "asleep" THEN [treaders[r] EXCEPT !.at = "in"] ELSE treaders[r]]

(* Columns of a character behind n others: control characters are echoed as  *)
(* two with ECHOCTL and do not show without, a tab goes to the next stop.    *)
Control(c) == c \notin {"a", "nl", "tab"}
Columns(t, n, c) == IF c = "tab" THEN TabStop - (n % TabStop) ELSE IF ~Control(c) THEN 1 ELSE IF t.ctl THEN 2 ELSE 0
NewLine(s) == [s EXCEPT !.shown = 0, !.fixed = 0, !.marks = <<>>, !.skewed = FALSE]
Echoed(s, t, c) == IF t.echo THEN Columns(t, s.shown, c) ELSE 0
tty_echo(s, t, c) ==
  IF c = "nl" THEN IF t.echo THEN NewLine(s) ELSE s
  ELSE [s EXCEPT !.shown = @ + Echoed(s, t, c), !.marks = Append(@, [columns |-> Echoed(s, t, c), echo |-> <<t.echo, t.ctl>>])]
Erased(t, c) == IF Control(c) /\ t.ctl THEN 2 ELSE 1
Uncooked(t) == SubSeq(t.buf, t.cooked + 1, Len(t.buf))
Erasable(t) == Len(t.buf) > t.cooked
(* Characters that are erased as they were echoed: no tab, no control        *)
(* character that did not show, nothing typed with another echo.             *)
Even(s, t, c) == c # "tab" /\ (Control(c) => t.ctl) /\ Last(s.marks).echo = <<t.echo, t.ctl>>
(* The terminal and the screen after the last uncommitted character is erased. *)
tty_erase(x) ==
  LET c == Last(x.t.buf)
  IN IF ~Erasable(x.t) THEN x
     ELSE [t |-> [x.t EXCEPT !.buf = Front(@)],
           s |-> [x.s EXCEPT !.shown = IF x.t.echo THEN @ - Erased(x.t, c) ELSE @, !.marks = Front(@), !.skewed = @ \/ ~Even(x.s, x.t, c)]]
Killed(x) == FoldLeft(LAMBDA y, i : tty_erase(y), x, [i \in 1..(Len(x.t.buf) - x.t.cooked) |-> i])
tty_readable(t) == IF t.canon THEN t.cooked ELSE Len(t.buf)
(* A read returns at once, and poll reports POLLIN. *)
tty_poll(t) == tty_readable(t) > 0 \/ (t.canon /\ t.eof > 0)

(* text after the uncommitted characters of t were committed. *)
Committed(s, t) == [s EXCEPT !.committed = @ \o Uncooked(t), !.fixed = s.shown, !.marks = <<>>, !.skewed = FALSE]
Receives(t, s, rs) == tty' = [t EXCEPT !.unwoken = {r \in @ : rs[r].at = "asleep"}] /\ typing' = s /\ treaders' = rs /\ UNCHANGED <<spawner, shells>>
tty_signal(t) == Receives([t EXCEPT !.buf = SubSeq(@, 1, t.cooked)], NewLine(typing), Woken)
(* The character goes to the buffer if there is room. *)
Queued(t, c) ==
  LET new == [t EXCEPT !.buf = Append(@, c)]
      commits == c = "nl" \/ ~t.canon
      seen == tty_echo(typing, t, c)
  IN IF Len(t.buf) >= TTY_BUFFER THEN Receives(t, typing, treaders)
     ELSE IF commits THEN Receives([new EXCEPT !.cooked = Len(new.buf)], Committed(seen, new), Woken)
     ELSE Receives(new, seen, Woken)
tty_receive(c) ==
  /\ TtyStep("key")
  /\ CASE c = "intr" /\ tty.isig -> tty_signal(tty)
       [] c = "erase" /\ tty.canon -> \E x \in {tty_erase([t |-> tty, s |-> typing])} : Receives(x.t, x.s, treaders)
       [] c = "kill" /\ tty.canon -> \E x \in {Killed([t |-> tty, s |-> typing])} : Receives(x.t, x.s, treaders)
       [] c = "end" /\ tty.canon ->
            Receives([tty EXCEPT !.cooked = Len(tty.buf), !.eof = @ + 1], Committed(typing, tty), Woken)
       [] OTHER -> Queued(tty, c)

(* One read: at most to the end of the first line, at most len characters.   *)
LineEnd(t, n) == LET nls == {i \in 1..n : t.buf[i] = "nl"} IN IF t.canon /\ nls # {} THEN CHOOSE i \in nls : \A j \in nls : i <= j ELSE n
CookedLeft(t, n) == IF t.cooked > n THEN t.cooked - n ELSE 0
StartRead(r) ==
  /\ TtyStep("read") /\ treaders[r] = Out
  /\ \E n \in ttyCase.lens : treaders' = [treaders EXCEPT ![r] = [at |-> "in", len |-> n]]
  /\ tty' = [tty EXCEPT !.unwoken = @ \ {r}] /\ UNCHANGED <<typing, spawner, shells>>
tty_read(r) ==
  LET n == LineEnd(tty, IF tty_readable(tty) < treaders[r].len THEN tty_readable(tty) ELSE treaders[r].len)
  IN /\ treaders[r].at = "in"
     /\ \/ /\ tty_readable(tty) > 0
           /\ tty' = [tty EXCEPT !.buf = SubSeq(@, n + 1, Len(@)), !.cooked = CookedLeft(tty, n)]
           /\ typing' = [typing EXCEPT !.got = @ \o SubSeq(tty.buf, 1, n)]
           /\ treaders' = [treaders EXCEPT ![r] = Out]
        \/ /\ tty_readable(tty) = 0 /\ tty.canon /\ tty.eof > 0
           /\ tty' = [tty EXCEPT !.eof = @ - 1] /\ treaders' = [treaders EXCEPT ![r] = Out] /\ UNCHANGED typing
        \/ /\ ~tty_poll(tty)
           /\ \E at \in {"asleep", "out"} : treaders' = [treaders EXCEPT ![r] = IF at = "out" THEN Out ELSE [@ EXCEPT !.at = at]]  \* O_NONBLOCK: out
           /\ UNCHANGED <<tty, typing>>
     /\ UNCHANGED <<spawner, shells, ttyCase>>
(* A signal ends the sleep, and the call to be restarted. *)
ReadInterrupted(r) ==
  /\ TtyStep("signal") /\ treaders[r].at = "asleep" /\ treaders' = [treaders EXCEPT ![r] = Out]
  /\ UNCHANGED <<tty, typing, spawner, shells>>

(* Modes and flushing.  unwoken: the readers that slept on though            *)
(* their reads would now return: nobody is woken.                            *)
Cleared(t) == [t EXCEPT !.buf = <<>>, !.cooked = 0, !.eof = 0]
Forgotten(s) == [NoText EXCEPT !.shown = s.shown, !.fixed = s.shown]
RawCooks(t) == IF t.canon THEN t ELSE [t EXCEPT !.cooked = Len(t.buf)]
InMode(t, m) == [t EXCEPT !.canon = m.canon, !.isig = m.isig, !.echo = m.echo, !.ctl = m.ctl]
(* TCSETS, TCSETSW; TCSETSF; TCFLSH *)
tty_ioctl ==
  /\ TtyStep("ioctl") /\ UNCHANGED <<treaders, spawner, shells>>
  /\ \/ \E m \in ttyCase.modes :
          LET t == RawCooks(InMode(tty, m))
          IN /\ tty' = [t EXCEPT !.unwoken = IF tty_poll(t) THEN Sleeping ELSE @]
             /\ typing' = IF m.canon THEN typing ELSE Committed(typing, tty)
     \/ \E m \in ttyCase.modes : tty' = Cleared(InMode(tty, m)) /\ typing' = Forgotten(typing)
     \/ tty' = Cleared(tty) /\ typing' = Forgotten(typing)

-----------------------------------------------------------------------------
(* Shells *)

MaySpawn(i) == ~shells[i].spawning /\ shells[i].alive = 0
tty_switch(i) ==
  /\ TtyStep("switch")
  /\ IF ~MaySpawn(i) THEN UNCHANGED <<shells, spawner>>
     ELSE /\ shells' = [shells EXCEPT ![i].spawning = TRUE]
          /\ spawner' = [spawner EXCEPT !.pending = @ \cup {i}, !.at = IF @ = "asleep" THEN "take" ELSE @]
  /\ UNCHANGED <<tty, treaders, typing>>
SleepsWhen(s) == s.pending = {}
(* The spawner takes all requests at once, and sleeps if there are none; its *)
(* sleep also ends after a while.                                            *)
tty_spawner ==
  /\ \/ /\ spawner.at = "take"
        /\ spawner' = [spawner EXCEPT !.work = spawner.pending, !.pending = {}, !.at = IF SleepsWhen(spawner) THEN "asleep" ELSE "next"]
        /\ UNCHANGED <<shells, tty, typing>>
     \/ /\ spawner.at = "next" /\ spawner.work = {} /\ spawner' = [spawner EXCEPT !.at = "take"] /\ UNCHANGED <<shells, tty, typing>>
     \/ /\ spawner.at = "next" /\ spawner.work # {} /\ spawner' = [spawner EXCEPT !.at = "spawn"] /\ UNCHANGED shells
        /\ LET mine == 1 \in spawner.work
           IN tty' = (IF mine THEN Cleared(tty) ELSE tty) /\ typing' = (IF mine THEN Forgotten(typing) ELSE typing)
     \/ /\ spawner.at = "spawn" /\ UNCHANGED <<tty, typing>>
        /\ LET i == CHOOSE x \in spawner.work : \A y \in spawner.work : x <= y
           IN /\ \E ok \in BOOLEAN : shells' = [shells EXCEPT ![i].spawning = FALSE, ![i].alive = IF ok THEN @ + 1 ELSE @]
              /\ spawner' = [spawner EXCEPT !.work = @ \ {i}, !.at = "next"]
  /\ UNCHANGED <<treaders, ttyCase>>
SpawnerTimeout ==
  /\ spawner.at = "asleep" /\ TtyStep("timeout") /\ spawner' = [spawner EXCEPT !.at = "take"] /\ UNCHANGED <<tty, treaders, typing, shells>>
ShellExits(i) ==
  /\ TtyStep("exit") /\ shells[i].alive > 0 /\ shells' = [shells EXCEPT ![i].alive = @ - 1] /\ UNCHANGED <<tty, treaders, typing, spawner>>

TtyNext ==
  \/ \E c \in ttyCase.keys : tty_receive(c)
  \/ \E r \in TReaders : StartRead(r) \/ tty_read(r) \/ ReadInterrupted(r)
  \/ tty_ioctl \/ tty_spawner \/ SpawnerTimeout
  \/ \E i \in Terminals : tty_switch(i) \/ ShellExits(i)

-----------------------------------------------------------------------------
(* What readers got and what they can still get is what was typed and        *)
(* committed, in order: editing never reaches a committed character and none *)
(* is lost or doubled by reads of parts of lines and changes of mode.        *)
TtyText ==
  /\ tty.cooked <= Len(tty.buf) /\ Len(tty.buf) <= TTY_BUFFER /\ (~tty.canon => tty.cooked = Len(tty.buf))
  /\ typing.got \o SubSeq(tty.buf, 1, tty.cooked) = typing.committed

(* The screen shows the line that is being edited: erasing takes back the    *)
(* columns the characters took, unless one was a tab, or a control character *)
(* that does not show, or was typed before the echo was changed.             *)
EchoMatches ==
  /\ Len(typing.marks) = Len(Uncooked(tty))
  /\ typing.skewed \/ typing.shown = typing.fixed + FoldLeft(LAMBDA n, m : n + m.columns, 0, typing.marks)

(* No reader sleeps while there is something to read or an end of file,      *)
(* except after a change of mode, which wakes nobody.                        *)
TtyNoLostWake ==
  tty_poll(tty) => Sleeping \subseteq tty.unwoken

(* A terminal gets one shell at a time, and one that was asked for is being  *)
(* started, or pending while the spawner is awake.                           *)
ShellOnce ==
  \A i \in Terminals :
    /\ shells[i].alive <= 1
    /\ shells[i].spawning => i \in spawner.pending \cup spawner.work
    /\ (spawner.at = "asleep" => spawner.pending = {} /\ spawner.work = {})
=============================================================================
