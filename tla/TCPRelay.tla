------------------------------ MODULE TCPRelay ------------------------------
(***************************************************************************)
(* The relay of one TCP flow: relayTCP, copyHalf and shortenRelayIdle of   *)
(* cmd/socks_adapter.go over the TimeoutConn of models/net.go.             *)
(*                                                                         *)
(* Two goroutines copy, "up" from the client to the upstream and "down"    *)
(* back.  Each Read and Write of a TimeoutConn first arms a deadline,      *)
(* unless it armed one a short while ago; relayTCP lowers the idle bound   *)
(* of both connections under the copying goroutines when the first of them *)
(* ends cleanly.                                                           *)
(*                                                                         *)
(* Time advances in ticks, and only when every goroutine is blocked: the   *)
(* idle bounds are seconds, the steps in between are not.                  *)
(***************************************************************************)
EXTENDS Integers, Sequences

CONSTANTS
    Idle,       \* IdleTimeout, in ticks
    HalfOpen,   \* halfOpenIdle, in ticks; 0 disables it (L3)
    MaxMoves    \* bound: reads that return data, over both directions

\* config.go clamps the half-open bound to the idle bound.
ASSUME RelayAssumption ==
    /\ Idle \in Nat \ {0}
    /\ HalfOpen \in 0..Idle
    /\ MaxMoves \in Nat

Halves == {"up", "down"}
Conns  == {"client", "upstream"}
Ops    == {"read", "write"}

\* The connection that half h reads from and the one that it writes to.  An
\* operation of a connection is used by one half only.
ConnOf(h, op) == IF (h = "up") = (op = "read") THEN "client" ELSE "upstream"

NoDeadline == Idle + 1

VARIABLES
    half,      \* a copying goroutine: its place, operation, and what Read or Write loaded
    ended,     \* how a half ended
    errc,      \* the results sent and not yet received, in order
    main,      \* where relayTCP is
    lowered,   \* idleOverrideNs is set
    gen,       \* idleGen
    age,       \* ticks since lastReadDeadline or lastWriteDeadline; Idle = long ago or never
    deadline,  \* ticks to the deadline of the operation
    open,      \* the connection is not closed
    quiet,     \* observer: ticks since the half last moved data
    moves      \* reads that returned data
relayVars == <<half, ended, errc, main, lowered, gen, age, deadline, open, quiet, moves>>

connVars == <<lowered, gen, age, deadline>>

Places  == {"idle", "gen", "age", "arm", "mark", "recheck", "blocked", "closing", "done"}
Endings == {"no", "eof", "failed", "timeout"}
Stages  == {"override", "bump", "reset", "rebound", "tear", "close"}

RelayTypeOK ==
    /\ half \in [Halves -> [at : Places, op : Ops, idle : 0..Idle, gen : 0..1]]
    /\ ended \in [Halves -> Endings]
    /\ errc \in {<<>>} \cup {<<h>> : h \in Halves} \cup (Halves \X Halves)
    /\ main \in ({"first", "second", "reclaim", "returned"} \X {"-"}) \cup (Stages \X Conns)
    /\ lowered \in [Conns -> BOOLEAN]
    /\ gen \in [Conns -> 0..1]
    /\ age \in [Halves -> [Ops -> 0..Idle]]
    /\ deadline \in [Halves -> [Ops -> 0..NoDeadline]]
    /\ open \in [Conns -> BOOLEAN]
    /\ quiet \in [Halves -> 0..Idle]
    /\ moves \in 0..MaxMoves

Begin(op) == [at |-> "idle", op |-> op, idle |-> 0, gen |-> 0]

RelayInit ==
    /\ half = [h \in Halves |-> Begin("read")]
    /\ ended = [h \in Halves |-> "no"]
    /\ errc = <<>>
    /\ main = <<"first", "-">>
    /\ lowered = [e \in Conns |-> FALSE]
    /\ gen = [e \in Conns |-> 0]
    /\ age = [h \in Halves |-> [o \in Ops |-> Idle]]
    /\ deadline = [h \in Halves |-> [o \in Ops |-> NoDeadline]]
    /\ open = [e \in Conns |-> TRUE]
    /\ quiet = [h \in Halves |-> 0]
    /\ moves = 0

-----------------------------------------------------------------------------
(* TimeoutConn.Read and Write *)

\* TimeoutConn.idle().
IdleOf(e) == IF lowered[e] THEN HalfOpen ELSE Idle

Conn(h)   == ConnOf(h, half[h].op)
At(h, p)  == half[h].at = p
Go(h, p)  == half' = [half EXCEPT ![h].at = p]
Block(h)  == half' = [half EXCEPT ![h] = [Begin(@.op) EXCEPT !.at = "blocked"]]
Arm(h, t) == deadline' = [deadline EXCEPT ![h][half[h].op] = t]
End(h, how) == Go(h, "closing") /\ ended' = [ended EXCEPT ![h] = how]

LoadIdle(h) ==
    /\ At(h, "idle")
    /\ half' = [half EXCEPT ![h].at = "gen", ![h].idle = IdleOf(Conn(h))]
    /\ UNCHANGED <<ended, errc, main, connVars, open, quiet, moves>>

LoadGen(h) ==
    /\ At(h, "gen")
    /\ half' = [half EXCEPT ![h].at = "age", ![h].gen = gen[Conn(h)]]
    /\ UNCHANGED <<ended, errc, main, connVars, open, quiet, moves>>

\* Mutant: a deadline is taken for fresh during half of the bound.
BugRearmsLate(h) ==
    /\ At(h, "age")
    /\ IF 2 * age[h][half[h].op] > half[h].idle THEN Go(h, "arm") ELSE Block(h)
    /\ UNCHANGED <<ended, errc, main, connVars, open, quiet, moves>>

\* Mutant: no deadline is ever armed.
BugNeverArms(h) ==
    /\ At(h, "age")
    /\ Block(h)
    /\ UNCHANGED <<ended, errc, main, connVars, open, quiet, moves>>

\* A deadline armed no longer than a quarter of the bound ago is kept.
LoadAge(h) ==
    /\ At(h, "age")
    /\ IF 4 * age[h][half[h].op] > half[h].idle THEN Go(h, "arm") ELSE Block(h)
    /\ UNCHANGED <<ended, errc, main, connVars, open, quiet, moves>>

\* SetReadDeadline or SetWriteDeadline; on a closed connection it fails.
ArmDeadline(h) ==
    /\ At(h, "arm")
    /\ IF open[Conn(h)]
       THEN Arm(h, half[h].idle) /\ Go(h, "mark") /\ UNCHANGED ended
       ELSE End(h, "failed") /\ UNCHANGED deadline
    /\ UNCHANGED <<errc, main, lowered, gen, age, open, quiet, moves>>

\* lastReadDeadline.Store(now).
MarkArmed(h) ==
    /\ At(h, "mark")
    /\ age' = [age EXCEPT ![h][half[h].op] = 0]
    /\ Go(h, "recheck")
    /\ UNCHANGED <<ended, errc, main, lowered, gen, deadline, open, quiet, moves>>

\* idleGen changed since it was loaded: the deadline is armed again.
Recheck(h) ==
    /\ At(h, "recheck")
    /\ CASE gen[Conn(h)] = half[h].gen -> Block(h) /\ UNCHANGED <<ended, deadline>>
         [] gen[Conn(h)] # half[h].gen /\ open[Conn(h)] ->
              Block(h) /\ Arm(h, IdleOf(Conn(h))) /\ UNCHANGED ended
         [] OTHER -> End(h, "failed") /\ UNCHANGED deadline
    /\ UNCHANGED <<errc, main, lowered, gen, age, open, quiet, moves>>

-----------------------------------------------------------------------------
(* io.CopyBuffer and the rest of copyHalf *)

Pending(h) == deadline[h][half[h].op] > 0

\* The underlying Read returns data, or the Write is done: the half goes on to
\* its other operation.
Move(h) ==
    /\ At(h, "blocked") /\ open[Conn(h)] /\ Pending(h)
    /\ \/ half[h].op = "read" /\ moves < MaxMoves /\ moves' = moves + 1
       \/ half[h].op = "write" /\ UNCHANGED moves
    /\ half' = [half EXCEPT ![h] = Begin(IF @.op = "read" THEN "write" ELSE "read")]
    /\ quiet' = [quiet EXCEPT ![h] = 0]
    /\ UNCHANGED <<ended, errc, main, connVars, open>>

\* The peer finishes (EOF, which io.Copy reports as success) or resets.
PeerEnds(h) ==
    /\ At(h, "blocked") /\ open[Conn(h)]
    /\ \/ End(h, "failed")
       \/ half[h].op = "read" /\ Pending(h) /\ End(h, "eof")
    /\ UNCHANGED <<errc, main, connVars, open, quiet, moves>>

\* The operation fails because the deadline passed, or because the connection
\* was closed under it.
Unblocks(h) ==
    /\ At(h, "blocked")
    /\ \/ ~open[Conn(h)] /\ End(h, "failed")
       \/ open[Conn(h)] /\ ~Pending(h) /\ End(h, "timeout")
    /\ UNCHANGED <<errc, main, connVars, open, quiet, moves>>

\* copyHalf half-closes its destination and sends its result.
SendResult(h) ==
    /\ At(h, "closing")
    /\ Go(h, "done")
    /\ errc' = Append(errc, h)
    /\ UNCHANGED <<ended, main, connVars, open, quiet, moves>>

-----------------------------------------------------------------------------
(* relayTCP *)

\* Mutant: an error of the first half is treated like its EOF.
BugWaitsForSecond ==
    /\ main = <<"first", "-">> /\ errc # <<>>
    /\ main' = <<"second", "-">>
    /\ errc' = Tail(errc)
    /\ UNCHANGED <<half, ended, connVars, open, quiet, moves>>

\* err1 := <-errc.
ReceiveFirst ==
    /\ main = <<"first", "-">> /\ errc # <<>>
    /\ main' = CASE ended[Head(errc)] # "eof" -> <<"tear", "client">>
                 [] ended[Head(errc)] = "eof" /\ HalfOpen > 0 -> <<"override", "client">>
                 [] OTHER -> <<"second", "-">>
    /\ errc' = Tail(errc)
    /\ UNCHANGED <<half, ended, connVars, open, quiet, moves>>

\* shortenRelayIdle, first the client and then the upstream: SetIdleTimeout
\* stores the override, bumps idleGen and forgets the armed deadlines...
StoreOverride(e) ==
    /\ main = <<"override", e>>
    /\ lowered' = [lowered EXCEPT ![e] = TRUE]
    /\ main' = <<"bump", e>>
    /\ UNCHANGED <<half, ended, errc, gen, age, deadline, open, quiet, moves>>

BumpGen(e) ==
    /\ main = <<"bump", e>>
    /\ gen' = [gen EXCEPT ![e] = @ + 1]
    /\ main' = <<"reset", e>>
    /\ UNCHANGED <<half, ended, errc, lowered, age, deadline, open, quiet, moves>>

ResetMarks(e) ==
    /\ main = <<"reset", e>>
    /\ age' = [h \in Halves |-> [o \in Ops |-> IF ConnOf(h, o) = e THEN Idle ELSE age[h][o]]]
    /\ main' = <<"rebound", e>>
    /\ UNCHANGED <<half, ended, errc, lowered, gen, deadline, open, quiet, moves>>

\* ... and SetReadDeadline bounds a Read that is already blocked.
Rebound(e) ==
    /\ main = <<"rebound", e>>
    /\ deadline' = [h \in Halves |->
                       IF ConnOf(h, "read") = e /\ open[e]
                       THEN [deadline[h] EXCEPT !["read"] = HalfOpen] ELSE deadline[h]]
    /\ main' = IF e = "client" THEN <<"override", "upstream">> ELSE <<"second", "-">>
    /\ UNCHANGED <<half, ended, errc, lowered, gen, age, open, quiet, moves>>

\* The two Close calls, after an error of the first half ("tear") or after both.
CloseConn(e) ==
    /\ main \in {<<"tear", e>>, <<"close", e>>}
    /\ open' = [open EXCEPT ![e] = FALSE]
    /\ main' = CASE e = "client" -> <<main[1], "upstream">>
                 [] e = "upstream" /\ main[1] = "tear" -> <<"reclaim", "-">>
                 [] OTHER -> <<"returned", "-">>
    /\ UNCHANGED <<half, ended, errc, connVars, quiet, moves>>

\* Mutant: after an error relayTCP returns without waiting for the other half.
BugReturnsEarly ==
    /\ \/ main = <<"second", "-">> /\ errc # <<>> /\ main' = <<"close", "client">>
       \/ main = <<"reclaim", "-">> /\ main' = <<"returned", "-">>
    /\ UNCHANGED <<half, ended, errc, connVars, open, quiet, moves>>

\* The second result.
ReceiveSecond ==
    /\ errc # <<>>
    /\ \/ main = <<"second", "-">> /\ main' = <<"close", "client">>
       \/ main = <<"reclaim", "-">> /\ main' = <<"returned", "-">>
    /\ errc' = Tail(errc)
    /\ UNCHANGED <<half, ended, connVars, open, quiet, moves>>

-----------------------------------------------------------------------------
(* The environment *)

\* drainActiveConnections closes the client's connection under the relay.
ResetByTunnel ==
    /\ main # <<"returned", "-">> /\ open["client"]
    /\ open' = [open EXCEPT !["client"] = FALSE]
    /\ UNCHANGED <<half, ended, errc, main, connVars, quiet, moves>>

Quiescent ==
    /\ main[1] \in {"first", "second", "reclaim"} /\ errc = <<>>
    /\ \A h \in Halves : At(h, "done") \/ (At(h, "blocked") /\ open[Conn(h)] /\ Pending(h))

Older(n)   == IF n < Idle THEN n + 1 ELSE n
Nearer(n)  == IF n \in {0, NoDeadline} THEN n ELSE n - 1

Tick ==
    /\ Quiescent
    /\ age' = [h \in Halves |-> [o \in Ops |-> Older(age[h][o])]]
    /\ deadline' = [h \in Halves |-> [o \in Ops |-> Nearer(deadline[h][o])]]
    /\ quiet' = [h \in Halves |-> Older(quiet[h])]
    /\ UNCHANGED <<half, ended, errc, main, lowered, gen, open, moves>>

HalfStep(h) ==
    \/ LoadIdle(h) \/ LoadGen(h) \/ LoadAge(h) \/ ArmDeadline(h) \/ MarkArmed(h)
    \/ Recheck(h) \/ Unblocks(h) \/ SendResult(h)

MainStep ==
    \/ ReceiveFirst \/ ReceiveSecond
    \/ \E e \in Conns : StoreOverride(e) \/ BumpGen(e) \/ ResetMarks(e) \/ Rebound(e) \/ CloseConn(e)

RelayNext ==
    \/ \E h \in Halves : HalfStep(h) \/ Move(h) \/ PeerEnds(h)
    \/ MainStep
    \/ ResetByTunnel
    \/ Tick

\* The Go scheduler runs every goroutine that can run; a blocked call returns
\* once its deadline is over or its connection is closed.
RelayFairness == WF_relayVars(MainStep) /\ \A h \in Halves : WF_relayVars(HalfStep(h))

RelaySpec == RelayInit /\ [][RelayNext]_relayVars /\ RelayFairness

-----------------------------------------------------------------------------
(* Properties *)

Returned == main = <<"returned", "-">>

\* relayTCP returns only when both copying goroutines have ended, so that their
\* buffers are back in the pool, and both connections are closed.
ReturnedMeansReclaimed ==
    Returned => (\A h \in Halves : At(h, "done")) /\ (\A e \in Conns : ~open[e])

\* Whatever either direction was doing, a hard failure of one (a reset, the
\* tunnel lost under the flow, the client closed by the reset) ends the relay
\* without waiting for any deadline.
HardFailureEndsRelay == \A h \in Halves : (ended[h] = "failed") ~> Returned

\* As time passes, a relay whose peers have nothing more to say ends, whichever direction went
\* quiet first and wherever the bound was lowered.
SilentRelayEnds == WF_relayVars(Tick) => <>Returned

\* The deadline is not armed anew for every read or write and the bound changes
\* under the copying goroutines, and yet a direction that times out has moved
\* nothing for at least three quarters of the bound in force.
TimeoutMeansQuiet ==
    [][\A h \in Halves :
         ended[h] # "timeout" /\ ended'[h] = "timeout"
         => quiet[h] >= IdleOf(Conn(h)) - IdleOf(Conn(h)) \div 4]_relayVars

\* models/net.go: re-arming after a race with SetIdleTimeout means that "the
\* shorter bound always wins": once the bounds are lowered, a blocked Read is
\* not left with a longer deadline.
ShorterBoundWins ==
    \A h \in Halves :
      main = <<"second", "-">> /\ lowered[ConnOf(h, "read")] /\ At(h, "blocked") /\ half[h].op = "read"
      => deadline[h]["read"] <= HalfOpen

\* config/config.go: the idle bound is a "both-directions-idle baseline" and "an
\* actively transferring flow is never cut": when the relay tears the
\* connections down because one direction timed out, the other one has been
\* quiet for as long.
ActiveFlowNeverCut ==
    [][\A h, g \in Halves :
         main = <<"first", "-">> /\ main' = <<"tear", "client">> /\ ended[h] = "timeout" /\ ended[g] = "no"
         => quiet[g] >= Idle - Idle \div 4]_relayVars
=============================================================================
