--------------------------- MODULE RconSessionProofs ---------------------------
(***************************************************************************)
(* Proofs about RconSession: commands are executed once and in order, the  *)
(* server hears every command as long as no datagram is lost, and the      *)
(* password is what is sent as long as the waits are not too late.         *)
(***************************************************************************)
EXTENDS RconSession, SequenceTheorems, TLAPS

----------------------------------------------------------------------------
(* Commands and packets. *)

Kinds == {"login", "command", "keep alive", "message ack"}

LEMMA CommandsTyped ==
  /\ \A n \in Nat, what \in Texts : Command(n, what) \in Commands
  /\ \A n \in Nat, what \in Texts : Command(n, what).n = n
BY DEF Command, Commands

LEMMA PacketsTyped ==
  /\ \A kind \in Kinds : Sent(kind) \in Packets /\ Sent(kind).kind = kind
  /\ \A intact \in BOOLEAN : LoginPacket(intact) \in Packets /\ LoginPacket(intact).kind = "login"
  /\ \A c \in Commands : /\ CommandPacket(c) \in Packets
                         /\ CommandPacket(c).kind = "command" /\ CommandPacket(c).cmd = c
<1>1. Command(0, "") \in Commands
  BY DEF Command, Commands
<1> QED
  BY <1>1 DEF Sent, LoginPacket, CommandPacket, Packets, Kinds

LEMMA ManyPacketsTyped ==
  ASSUME NEW cs \in Seq(Commands)
  PROVE  /\ CommandPackets(cs) \in Seq(Packets)
         /\ Len(CommandPackets(cs)) = Len(cs)
         /\ \A i \in 1..Len(cs) : /\ CommandPackets(cs)[i].kind = "command"
                                  /\ CommandPackets(cs)[i].cmd = cs[i]
<1>1. DOMAIN cs = 1..Len(cs) /\ Len(cs) \in Nat /\ \A i \in 1..Len(cs) : cs[i] \in Commands
  OBVIOUS
<1>2. CommandPackets(cs) = [i \in 1..Len(cs) |-> CommandPacket(cs[i])]
  BY <1>1 DEF CommandPackets
<1>3. \A i \in 1..Len(cs) : /\ CommandPacket(cs[i]) \in Packets
                            /\ CommandPacket(cs[i]).kind = "command"
                            /\ CommandPacket(cs[i]).cmd = cs[i]
  BY <1>1, PacketsTyped
<1> HIDE DEF CommandPackets
<1> QED
  BY <1>1, <1>2, <1>3

LEMMA WaitsTyped ==
  \A ticks, k \in Nat : /\ Later(ticks, k) \in 0..Cap
                        /\ ticks <= Later(ticks, k) \/ Later(ticks, k) = Cap
                        /\ Later(ticks, k) <= ticks + k
                        /\ ticks + k <= Cap => Later(ticks, k) = ticks + k
BY DEF Later, Cap

----------------------------------------------------------------------------
(* The order of commands.  The numbers rise along the commands that the    *)
(* server has executed, those on their way to it and those queued.         *)

Rises(cs) == \A i, j \in 1..Len(cs) : i < j => cs[i].n < cs[j].n
WireRises(ps) ==
  \A i, j \in 1..Len(ps) :
    i < j /\ ps[i].kind = "command" /\ ps[j].kind = "command" => ps[i].cmd.n < ps[j].cmd.n

Before(S, T) == \A a \in S, b \in T : a < b

InOrder(done, sent, queued, last) ==
  /\ done \in Seq(Commands) /\ sent \in Seq(Packets) /\ queued \in Seq(Commands) /\ last \in Nat
  /\ Rises(done) /\ WireRises(sent) /\ Rises(queued)
  /\ Before(Numbers(done), OnTheWire(sent))
  /\ Before(Numbers(done), Numbers(queued))
  /\ Before(OnTheWire(sent), Numbers(queued))
  /\ Before(Numbers(done) \cup OnTheWire(sent) \cup Numbers(queued), {last + 1})

LEMMA NumbersTyped ==
  /\ \A cs \in Seq(Commands) : Numbers(cs) \subseteq Nat
  /\ \A ps \in Seq(Packets) : OnTheWire(ps) \subseteq Nat
<1>1. ASSUME NEW cs \in Seq(Commands)
      PROVE  Numbers(cs) \subseteq Nat
  <2>1. \A i \in 1..Len(cs) : cs[i] \in Commands
    OBVIOUS
  <2> QED
    BY <2>1 DEF Numbers, Commands
<1>2. ASSUME NEW ps \in Seq(Packets)
      PROVE  OnTheWire(ps) \subseteq Nat
  <2>1. \A i \in 1..Len(ps) : ps[i] \in Packets
    OBVIOUS
  <2> QED
    BY <2>1 DEF OnTheWire, Commands, Packets
<1> QED
  BY <1>1, <1>2

(* One more command at the end. *)
LEMMA NumbersAppend ==
  ASSUME NEW cs \in Seq(Commands), NEW c \in Commands
  PROVE  /\ Append(cs, c) \in Seq(Commands)
         /\ Numbers(Append(cs, c)) = Numbers(cs) \cup {c.n}
         /\ Rises(cs) /\ Before(Numbers(cs), {c.n}) => Rises(Append(cs, c))
<1> DEFINE more == Append(cs, c)
<1>1. /\ more \in Seq(Commands) /\ Len(more) = Len(cs) + 1 /\ Len(cs) \in Nat
      /\ more[Len(cs) + 1] = c /\ \A i \in 1..Len(cs) : more[i] = cs[i]
  OBVIOUS
<1> HIDE DEF more
<1>2. 1..Len(more) = 1..Len(cs) \cup {Len(cs) + 1}
  BY <1>1
<1>3. Numbers(more) = Numbers(cs) \cup {c.n}
  BY <1>1, <1>2 DEF Numbers
<1>4. ASSUME Rises(cs), Before(Numbers(cs), {c.n})
      PROVE  Rises(more)
  <2>1. \A i \in 1..Len(cs) : cs[i].n < c.n
    BY <1>4 DEF Before, Numbers
  <2> QED
    BY <1>1, <1>2, <1>4, <2>1 DEF Rises
<1> QED
  BY <1>1, <1>3, <1>4 DEF more

LEMMA OrderQueued ==
  ASSUME NEW done, NEW sent, NEW queued, NEW last, InOrder(done, sent, queued, last),
         NEW what \in Texts
  PROVE  /\ InOrder(done, sent, Append(queued, Command(last + 1, what)), last + 1)
         /\ Numbers(Append(queued, Command(last + 1, what))) = Numbers(queued) \cup {last + 1}
<1> DEFINE c == Command(last + 1, what)
           more == Append(queued, c)
<1>1. c \in Commands /\ c.n = last + 1 /\ last \in Nat
  BY CommandsTyped DEF InOrder
<1>2. /\ more \in Seq(Commands) /\ Numbers(more) = Numbers(queued) \cup {last + 1}
      /\ Rises(more)
  <2> HIDE DEF c
  <2>1. Before(Numbers(queued), {c.n})
    BY <1>1 DEF InOrder, Before
  <2> QED
    BY <1>1, <2>1, NumbersAppend DEF InOrder
<1> HIDE DEF more, c
<1>3. /\ Before(Numbers(done), Numbers(more))
      /\ Before(OnTheWire(sent), Numbers(more))
  BY <1>2 DEF InOrder, Before
<1>4. Before(Numbers(done) \cup OnTheWire(sent) \cup Numbers(more), {last + 1 + 1})
  <2>1. \A n \in Numbers(done) \cup OnTheWire(sent) \cup Numbers(queued) :
          n \in Nat /\ n < last + 1
    BY NumbersTyped DEF InOrder, Before
  <2> QED
    BY <1>1, <1>2, <2>1 DEF Before
<1> QED
  BY <1>1, <1>2, <1>3, <1>4 DEF InOrder, more, c

(* A packet that is no command. *)
LEMMA OrderSaid ==
  ASSUME NEW done, NEW sent, NEW queued, NEW last, InOrder(done, sent, queued, last),
         NEW p \in Packets, p.kind # "command"
  PROVE  /\ InOrder(done, Append(sent, p), queued, last)
         /\ OnTheWire(Append(sent, p)) = OnTheWire(sent)
<1> DEFINE more == Append(sent, p)
<1>1. /\ more \in Seq(Packets) /\ Len(more) = Len(sent) + 1 /\ Len(sent) \in Nat
      /\ more[Len(sent) + 1] = p /\ \A i \in 1..Len(sent) : more[i] = sent[i]
  BY DEF InOrder
<1> HIDE DEF more
<1>2. {k \in 1..Len(more) : more[k].kind = "command"} = {k \in 1..Len(sent) : sent[k].kind = "command"}
  BY <1>1
<1>3. OnTheWire(more) = OnTheWire(sent)
  BY <1>1, <1>2 DEF OnTheWire
<1>4. WireRises(more)
  BY <1>1, <1>2 DEF InOrder, WireRises
<1>5. InOrder(done, more, queued, last)
  BY <1>1, <1>3, <1>4 DEF InOrder
<1> QED
  BY <1>3, <1>5 DEF more

(* All the commands that are queued go out. *)
LEMMA OrderSent ==
  ASSUME NEW done, NEW sent, NEW queued, NEW last, InOrder(done, sent, queued, last)
  PROVE  /\ InOrder(done, sent \o CommandPackets(queued), <<>>, last)
         /\ OnTheWire(sent \o CommandPackets(queued)) = OnTheWire(sent) \cup Numbers(queued)
<1> DEFINE ps == CommandPackets(queued)
           more == sent \o ps
<1>1. /\ ps \in Seq(Packets) /\ Len(ps) = Len(queued) /\ queued \in Seq(Commands)
      /\ \A i \in 1..Len(queued) : ps[i].kind = "command" /\ ps[i].cmd = queued[i]
  BY ManyPacketsTyped DEF InOrder
<1> HIDE DEF ps
<1>2. /\ more \in Seq(Packets) /\ Len(more) = Len(sent) + Len(ps)
      /\ Len(sent) \in Nat /\ Len(ps) \in Nat
      /\ \A i \in 1..Len(sent) : more[i] = sent[i]
      /\ \A i \in 1..Len(more) : i > Len(sent) => more[i] = ps[i - Len(sent)]
  <2>1. sent \in Seq(Packets)
    BY DEF InOrder
  <2>2. more \in Seq(Packets) /\ Len(more) = Len(sent) + Len(ps)
    BY <1>1, <2>1, ConcatProperties
  <2>3. Len(sent) \in Nat /\ Len(ps) \in Nat
    BY <1>1, <2>1
  <2>4. \A i \in 1..(Len(sent) + Len(ps)) :
          more[i] = IF i <= Len(sent) THEN sent[i] ELSE ps[i - Len(sent)]
    BY <1>1, <2>1, ConcatProperties
  <2> HIDE DEF more
  <2> QED
    BY <2>2, <2>3, <2>4
<1> HIDE DEF more
<1>3. \A i \in 1..Len(more) : i > Len(sent) =>
        /\ i - Len(sent) \in 1..Len(queued) /\ more[i].kind = "command"
        /\ more[i].cmd = queued[i - Len(sent)]
  BY <1>1, <1>2
<1>4. \A i \in 1..Len(more) : i <= Len(sent) => i \in 1..Len(sent) /\ more[i] = sent[i]
  BY <1>2
<1>5. OnTheWire(more) \subseteq OnTheWire(sent) \cup Numbers(queued)
  <2> SUFFICES ASSUME NEW i \in 1..Len(more), more[i].kind = "command"
               PROVE  more[i].cmd.n \in OnTheWire(sent) \cup Numbers(queued)
    BY DEF OnTheWire
  <2>1. CASE i <= Len(sent)
    BY <1>4, <2>1 DEF OnTheWire
  <2>2. CASE i > Len(sent)
    BY <1>3, <2>2 DEF Numbers
  <2> QED
    BY <1>2, <2>1, <2>2
<1>9. OnTheWire(sent) \cup Numbers(queued) \subseteq OnTheWire(more)
  <2>1. \A i \in 1..Len(sent) : i \in 1..Len(more) /\ more[i] = sent[i]
    BY <1>2
  <2>2. \A i \in 1..Len(queued) : /\ i + Len(sent) \in 1..Len(more)
                                  /\ more[i + Len(sent)].kind = "command"
                                  /\ more[i + Len(sent)].cmd = queued[i]
    <3> SUFFICES ASSUME NEW i \in 1..Len(queued)
                 PROVE  /\ i + Len(sent) \in 1..Len(more)
                        /\ more[i + Len(sent)].kind = "command"
                        /\ more[i + Len(sent)].cmd = queued[i]
      OBVIOUS
    <3>1. i \in Nat /\ i >= 1 /\ i <= Len(ps) /\ Len(queued) \in Nat
      BY <1>1, <1>2
    <3>2. i + Len(sent) \in 1..Len(more) /\ i + Len(sent) > Len(sent) /\ (i + Len(sent)) - Len(sent) = i
      BY <1>2, <3>1
    <3> QED
      BY <1>3, <3>2
  <2>3. OnTheWire(sent) \subseteq OnTheWire(more)
    BY <2>1 DEF OnTheWire
  <2>4. Numbers(queued) \subseteq OnTheWire(more)
    <3> SUFFICES ASSUME NEW i \in 1..Len(queued) PROVE queued[i].n \in OnTheWire(more)
      BY DEF Numbers
    <3>1. PICK k \in 1..Len(more) : more[k].kind = "command" /\ more[k].cmd = queued[i]
      BY <2>2
    <3> QED
      BY <3>1 DEF OnTheWire
  <2> QED
    BY <2>3, <2>4
<1>6. WireRises(more)
  <2> SUFFICES ASSUME NEW i \in 1..Len(more), NEW j \in 1..Len(more), i < j,
                      more[i].kind = "command", more[j].kind = "command"
               PROVE  more[i].cmd.n < more[j].cmd.n
    BY DEF WireRises
  <2>1. CASE j <= Len(sent)
    BY <1>2, <1>4, <2>1 DEF InOrder, WireRises
  <2>2. CASE i > Len(sent)
    <3>1. /\ i - Len(sent) \in 1..Len(queued) /\ more[i].cmd = queued[i - Len(sent)]
          /\ j - Len(sent) \in 1..Len(queued) /\ more[j].cmd = queued[j - Len(sent)]
          /\ i - Len(sent) < j - Len(sent)
      BY <1>2, <1>3, <2>2
    <3> QED
      BY <3>1 DEF InOrder, Rises
  <2>3. CASE i <= Len(sent) /\ j > Len(sent)
    <3>1. more[i].cmd.n \in OnTheWire(sent)
      BY <1>4, <2>3 DEF OnTheWire
    <3>2. more[j].cmd.n \in Numbers(queued)
      BY <1>3, <2>3 DEF Numbers
    <3> QED
      BY <3>1, <3>2 DEF InOrder, Before
  <2> QED
    BY <1>2, <2>1, <2>2, <2>3
<1>7. Numbers(<<>>) = {} /\ Rises(<<>>) /\ <<>> \in Seq(Commands)
  BY DEF Numbers, Rises
<1>8. InOrder(done, more, <<>>, last)
  BY <1>2, <1>5, <1>6, <1>7 DEF InOrder, Before
<1> QED
  BY <1>5, <1>8, <1>9 DEF more, ps

(* The first packet arrives or is lost; the command in it is executed.     *)
LEMMA OrderTaken ==
  ASSUME NEW done, NEW sent, NEW queued, NEW last, InOrder(done, sent, queued, last),
         sent # <<>>
  PROVE  /\ InOrder(done, Tail(sent), queued, last)
         /\ Head(sent).kind = "command" =>
              /\ InOrder(Append(done, Head(sent).cmd), Tail(sent), queued, last)
              /\ Numbers(Append(done, Head(sent).cmd)) = Numbers(done) \cup {Head(sent).cmd.n}
              /\ OnTheWire(sent) \subseteq OnTheWire(Tail(sent)) \cup {Head(sent).cmd.n}
         /\ Head(sent).kind # "command" => OnTheWire(sent) \subseteq OnTheWire(Tail(sent))
<1> DEFINE rest == Tail(sent)
           first == Head(sent)
<1>1. /\ rest \in Seq(Packets) /\ Len(rest) = Len(sent) - 1 /\ Len(sent) \in Nat
      /\ first = sent[1] /\ first \in Packets /\ 1 \in 1..Len(sent)
      /\ \A i \in 1..Len(rest) : rest[i] = sent[i + 1] /\ i + 1 \in 1..Len(sent)
  BY DEF InOrder
<1> HIDE DEF rest, first
<1>2. OnTheWire(rest) \subseteq OnTheWire(sent)
  BY <1>1 DEF OnTheWire
<1>3. WireRises(rest)
  <2> SUFFICES ASSUME NEW i \in 1..Len(rest), NEW j \in 1..Len(rest), i < j,
                      rest[i].kind = "command", rest[j].kind = "command"
               PROVE  rest[i].cmd.n < rest[j].cmd.n
    BY DEF WireRises
  <2>1. /\ rest[i] = sent[i + 1] /\ i + 1 \in 1..Len(sent)
        /\ rest[j] = sent[j + 1] /\ j + 1 \in 1..Len(sent) /\ i + 1 < j + 1
    BY <1>1
  <2> QED
    BY <2>1 DEF InOrder, WireRises
<1>4. InOrder(done, rest, queued, last)
  BY <1>1, <1>2, <1>3 DEF InOrder, Before
<1>6. \A i \in 1..Len(sent) : i = 1 \/ (i - 1 \in 1..Len(rest) /\ rest[i - 1] = sent[i])
  <2> SUFFICES ASSUME NEW i \in 1..Len(sent), i # 1
               PROVE  i - 1 \in 1..Len(rest) /\ rest[i - 1] = sent[i]
    OBVIOUS
  <2>1. i - 1 \in 1..Len(rest) /\ (i - 1) + 1 = i
    BY <1>1
  <2> QED
    BY <1>1, <2>1
<1>7. \A n \in OnTheWire(sent) : n \in OnTheWire(rest) \/ (first.kind = "command" /\ n = first.cmd.n)
  <2> SUFFICES ASSUME NEW i \in 1..Len(sent), sent[i].kind = "command"
               PROVE  \/ sent[i].cmd.n \in OnTheWire(rest)
                      \/ first.kind = "command" /\ sent[i].cmd.n = first.cmd.n
    BY DEF OnTheWire
  <2>1. CASE i = 1
    BY <1>1, <2>1
  <2>2. CASE i - 1 \in 1..Len(rest) /\ rest[i - 1] = sent[i]
    <3>1. PICK k \in 1..Len(rest) : rest[k] = sent[i]
      BY <2>2
    <3> QED
      BY <3>1 DEF OnTheWire
  <2> QED
    BY <1>6, <2>1, <2>2
<1>5. ASSUME first.kind = "command"
      PROVE  /\ InOrder(Append(done, first.cmd), rest, queued, last)
             /\ Numbers(Append(done, first.cmd)) = Numbers(done) \cup {first.cmd.n}
  <2>1. first.cmd \in Commands /\ first.cmd.n \in OnTheWire(sent)
    BY <1>1, <1>5 DEF Packets, OnTheWire
  <2>2. Before({first.cmd.n}, OnTheWire(rest))
    BY <1>1, <1>5 DEF Before, OnTheWire, InOrder, WireRises
  <2>3. Before(Numbers(done), {first.cmd.n})
    BY <2>1 DEF InOrder, Before
  <2>4. /\ Append(done, first.cmd) \in Seq(Commands)
        /\ Numbers(Append(done, first.cmd)) = Numbers(done) \cup {first.cmd.n}
        /\ Rises(Append(done, first.cmd))
    BY <2>1, <2>3, NumbersAppend DEF InOrder
  <2> QED
    BY <1>4, <2>1, <2>2, <2>4 DEF InOrder, Before
<1> QED
  BY <1>4, <1>5, <1>7 DEF rest, first

Order == InOrder(executed, toServer, rcon_commands, issued)

LEMMA OrderUntouched ==
  Order /\ UNCHANGED <<executed, toServer, rcon_commands, issued>> => Order'
BY DEF Order

LEMMA OrderAdded ==
  ASSUME Order, NEW what \in Texts, addCommand(what), UNCHANGED <<executed, toServer>>
  PROVE  Order'
<1>1. CASE run_flag
  BY <1>1, OrderQueued DEF Order, addCommand
<1>2. CASE ~run_flag
  BY <1>2 DEF Order, addCommand
<1> QED
  BY <1>1, <1>2

LEMMA OrderFlushed ==
  ASSUME Order, SendCommands, UNCHANGED <<executed, issued>>
  PROVE  Order'
BY OrderSent DEF Order, SendCommands

LEMMA OrderKept == Order /\ [Next]_vars => Order'
<1> SUFFICES ASSUME Order, [Next]_vars PROVE Order'
  OBVIOUS
<1>1. CASE Connect
  BY <1>1, OrderUntouched DEF Connect, LoopGoes
<1>2. CASE Login
  <2>1. PICK intact \in BOOLEAN : toServer' = Append(toServer, LoginPacket(intact))
    BY <1>2 DEF Login
  <2>2. UNCHANGED <<executed, rcon_commands, issued>>
    BY <1>2 DEF Login, LoopGoes
  <2> QED
    BY <2>1, <2>2, PacketsTyped, OrderSaid DEF Order
<1>3. CASE Warn
  <2>1. UNCHANGED <<executed, toServer>>
    BY <1>3 DEF Warn, LoopGoes
  <2>2. addCommand("shutdown warning") \/ UNCHANGED <<rcon_commands, issued>>
    BY <1>3 DEF Warn
  <2> QED
    BY <2>1, <2>2, OrderAdded, OrderUntouched DEF Texts
<1>4. CASE Restart
  <2>1. UNCHANGED <<executed, toServer>> /\ addCommand("restarting now")
    BY <1>4 DEF Restart, LoopGoes
  <2> QED
    BY <2>1, OrderAdded DEF Texts
<1>5. CASE LoggedIn \/ LoginFailed \/ Acked
  BY <1>5, OrderUntouched DEF LoggedIn, LoginFailed, Acked, Received, LoopGoes
<1>6. ASSUME NEW m, Message(m) PROVE Order'
  <2>1. executed' = executed
    BY <1>6 DEF Message, Received, LoopGoes
  <2>2. toServer' = Append(toServer, Sent("message ack")) \/ toServer' = toServer
    BY <1>6 DEF Message
  <2>3. InOrder(executed, toServer', rcon_commands, issued)
    <3>1. Sent("message ack") \in Packets /\ Sent("message ack").kind # "command"
      BY PacketsTyped DEF Kinds
    <3> QED
      BY <2>2, <3>1, OrderSaid DEF Order
  <2>4. addCommand("kick") \/ UNCHANGED <<rcon_commands, issued>>
    BY <1>6 DEF Message
  <2>5. CASE addCommand("kick") /\ run_flag
    BY <2>1, <2>3, <2>5, OrderQueued DEF Order, addCommand, Texts
  <2>6. CASE UNCHANGED <<rcon_commands, issued>>
    BY <2>1, <2>3, <2>6 DEF Order
  <2> QED
    BY <2>4, <2>5, <2>6 DEF addCommand
<1>7. CASE Flush \/ TimeoutFlush
  <2>1. UNCHANGED <<executed, issued>>
    BY <1>7 DEF Flush, TimeoutFlush, LoopGoes
  <2>2. SendCommands \/ UNCHANGED <<toServer, rcon_commands>>
    BY <1>7 DEF Flush, TimeoutFlush
  <2> QED
    BY <2>1, <2>2, OrderFlushed, OrderUntouched
<1>8. CASE TimeoutStop \/ Reconnect \/ TimeoutGoesOn \/ Refused
  BY <1>8, OrderUntouched DEF TimeoutStop, Reconnect, TimeoutGoesOn, Refused, LoopGoes
<1>9. CASE KeepAlive
  <2>1. /\ UNCHANGED <<executed, rcon_commands, issued>>
        /\ toServer' = Append(toServer, Sent("keep alive"))
    BY <1>9 DEF KeepAlive, LoopGoes
  <2> QED
    BY <2>1, PacketsTyped, OrderSaid DEF Order, Kinds
<1>10. ASSUME NEW k \in 1..(1 + MaxStall), Wait(k) PROVE Order'
  BY <1>10, OrderUntouched DEF Wait, server, wires
<1>11. ASSUME NEW v \in BOOLEAN, CallLock(v) PROVE Order'
  BY <1>11, OrderUntouched DEF CallLock, Calls, server, wires
<1>12. CASE CallPush
  <2>1. /\ UNCHANGED <<executed, toServer>> /\ issued' = issued + 1
        /\ rcon_commands' = Append(rcon_commands,
             Command(issued + 1, IF want THEN "lock" ELSE "unlock"))
    BY <1>12 DEF CallPush, Calls, server, wires
  <2>2. (IF want THEN "lock" ELSE "unlock") \in Texts
    BY DEF Texts
  <2> QED
    BY <2>1, <2>2, OrderQueued DEF Order
<1>13. CASE CallFlag \/ Disconnect \/ ExitProcess \/ PortOpens \/ NextMinute \/ Terminated
  BY <1>13, OrderUntouched
     DEF CallFlag, Calls, Disconnect, ExitProcess, Unloads, PortOpens, NextMinute, Terminated, Elsewhere,
         server, wires, vars
<1>14. CASE ServerReceives
  <2>1. /\ UNCHANGED <<rcon_commands, issued>>
        /\ toServer # <<>> /\ toServer' = Tail(toServer)
    BY <1>14 DEF ServerReceives, Elsewhere
  <2>2. \/ executed' = executed
        \/ /\ Head(toServer).kind = "command"
           /\ executed' = Append(executed, Head(toServer).cmd)
    BY <1>14 DEF ServerReceives
  <2> QED
    BY <2>1, <2>2, OrderTaken DEF Order
<1>15. CASE Lose
  <2>1. /\ UNCHANGED <<rcon_commands, issued, executed>>
        /\ toServer' = toServer \/ (toServer # <<>> /\ toServer' = Tail(toServer))
    BY <1>15 DEF Lose, Elsewhere, server
  <2> QED
    BY <2>1, OrderTaken DEF Order
<1>16. ASSUME NEW m, ServerSays(m) PROVE Order'
  BY <1>16, OrderUntouched DEF ServerSays, Elsewhere, server
<1>17. CASE UNCHANGED vars
  BY <1>17, OrderUntouched DEF vars, server, wires
<1> QED
  BY <1>1, <1>2, <1>3, <1>4, <1>5, <1>6, <1>7, <1>8, <1>9, <1>10, <1>11, <1>12, <1>13,
     <1>14, <1>15, <1>16, <1>17 DEF Next, LoopStep

LEMMA OrderAtFirst == Init => Order
<1> SUFFICES ASSUME Init PROVE Order
  OBVIOUS
<1>1. executed = <<>> /\ toServer = <<>> /\ rcon_commands = <<>> /\ issued = 0
  BY DEF Init
<1>2. Numbers(<<>>) = {} /\ Rises(<<>>) /\ WireRises(<<>>) /\ OnTheWire(<<>>) = {}
  BY DEF Numbers, Rises, WireRises, OnTheWire
<1> QED
  BY <1>1, <1>2 DEF Order, InOrder, Before

LEMMA OrderInvariance == Spec => []Order
BY OrderAtFirst, OrderKept, PTL DEF Spec

(* Of Spec: the server executes each command at most once, and commands in *)
(* the order in which they were queued, however many there are and however *)
(* many datagrams are lost.                                                *)
THEOREM CommandsRunInOrder == Spec => []ExecutedOnceInOrder
<1>1. Order => ExecutedOnceInOrder
  BY DEF Order, InOrder, Rises, ExecutedOnceInOrder
<1> QED
  BY <1>1, OrderInvariance, PTL

----------------------------------------------------------------------------
(* The session.  While nothing has been lost the two ends agree: the RCON  *)
(* thread is about to log in (ToLogin), has asked (Asked), has been turned *)
(* down (Rejected), gets no answer and will send nothing more (Deaf), or   *)
(* is known to the server (Met).  The server's patience does not run out   *)
(* unnoticed, since it has heard from the thread after the stopwatch was   *)
(* restarted.                                                              *)

Answered == \E i \in 1..Len(toClient) : toClient[i] \in {"ack", "logged in"}
Silent == ~session /\ toServer = <<>> /\ toClient = <<>>

ToLogin == /\ Silent
           /\ lpc \in {"connect", "login"} \/ (lpc = "timeout" /\ rcon_timer >= 9)
Asked == /\ ~session /\ lpc \in {"loop", "receive", "ended"}
         /\ toClient = <<>> /\ Len(toServer) = 1 /\ toServer[1].kind = "login"
Rejected == /\ ~session /\ lpc \in {"loop", "receive", "ended"}
            /\ toServer = <<>> /\ Len(toClient) = 1 /\ toClient[1] = "login failed"
Deaf == /\ Silent
        /\ \/ lpc = "ended"
           \/ lpc \in {"loop", "receive"} /\ (refused \/ ~run_flag)
           \/ lpc = "timeout" /\ ~run_flag
Met == /\ session /\ up
       /\ toServer = <<>> /\ lpc \notin {"connect", "login"} =>
            quiet <= rcon_timer /\ (Answered => quiet = 0)

Agrees == ~ignored /\ (ToLogin \/ Asked \/ Rejected \/ Deaf \/ Met)
Measures == /\ toServer \in Seq(Packets) /\ toClient \in Seq(Replies)
            /\ rcon_timer \in 0..Cap /\ quiet \in 0..Cap /\ lost \in Nat
Hearing == Measures /\ (lost = 0 => Agrees)

LEMMA Tails ==
  ASSUME NEW S, NEW s \in Seq(S)
  PROVE  /\ Len(s) = 0 <=> s = <<>>
         /\ s # <<>> => /\ Head(s) = s[1] /\ 1 \in 1..Len(s)
                        /\ Tail(s) \in Seq(S) /\ Len(Tail(s)) = Len(s) - 1
                        /\ \A i \in 1..Len(Tail(s)) : i + 1 \in 1..Len(s) /\ Tail(s)[i] = s[i + 1]
OBVIOUS

LEMMA OneTyped ==
  ASSUME NEW S, NEW r \in S
  PROVE  <<r>> \in Seq(S)
OBVIOUS

(* What the server does with a datagram. *)
LEMMA ServerAnswers ==
  ASSUME ServerReceives
  PROVE  /\ toClient' = toClient \/ \E reply \in Replies : toClient' = Append(toClient, reply)
         /\ session /\ up => session' /\ quiet' = 0 /\ ignored' = ignored
         /\ ~session /\ Head(toServer).kind = "login" =>
              /\ ignored' = ignored
              /\ \/ ~session' /\ refused' /\ toClient' = toClient
                 \/ ~session' /\ toClient' = Append(toClient, "login failed")
                 \/ session' /\ up' /\ quiet' = 0
<1>1. toClient' = toClient \/ \E reply \in Replies : toClient' = Append(toClient, reply)
  BY DEF ServerReceives, Replies
<1>2. session /\ up => session' /\ quiet' = 0 /\ ignored' = ignored
  BY DEF ServerReceives
<1>3. ASSUME ~session, Head(toServer).kind = "login"
      PROVE  /\ ignored' = ignored
             /\ \/ ~session' /\ refused' /\ toClient' = toClient
                \/ ~session' /\ toClient' = Append(toClient, "login failed")
                \/ session' /\ up' /\ quiet' = 0
  <2>1. CASE ~up
    <3>1. refused' = TRUE /\ UNCHANGED <<session, ignored, toClient>>
      BY <2>1 DEF ServerReceives
    <3> QED
      BY <1>3, <3>1
  <2>2. CASE up
    <3>1. /\ session' = (session \/ Head(toServer).intact) /\ quiet' = 0 /\ ignored' = ignored
          /\ up' = up
          /\ toClient' = Append(toClient,
               IF Head(toServer).intact THEN "logged in" ELSE "login failed")
      BY <1>3, <2>2 DEF ServerReceives
    <3>2. CASE Head(toServer).intact
      BY <2>2, <3>1, <3>2
    <3>3. CASE ~Head(toServer).intact
      BY <1>3, <3>1, <3>3
    <3> QED
      BY <3>2, <3>3
  <2> QED
    BY <2>1, <2>2
<1> QED
  BY <1>1, <1>2, <1>3

LEMMA MeasuresKept == Order /\ Measures /\ [Next]_vars => Measures'
<1> SUFFICES ASSUME Order, Measures, [Next]_vars PROVE Measures'
  OBVIOUS
<1>1. toServer' \in Seq(Packets)
  BY OrderKept DEF Order, InOrder
<1>2. lost' \in Nat
  <2>1. lost \in Nat
    BY DEF Measures
  <2>2. lost' = lost \/ lost' = lost + 1
    BY DEF Next, LoopStep, Connect, Login, Warn, Restart, LoggedIn, LoginFailed, Acked,
     Message, Received, Flush, TimeoutStop, Reconnect, KeepAlive, TimeoutGoesOn, TimeoutFlush,
     Refused, Wait, LoopGoes, CallLock, CallPush, CallFlag, Calls, Disconnect, ExitProcess, Unloads, PortOpens,
     NextMinute, Terminated, vars, wires, ServerReceives, Lose, ServerSays, Elsewhere
  <2> QED
    BY <2>1, <2>2
<1>6. toClient' \in Seq(Replies)
  <2>1. CASE toClient' = toClient
    BY <2>1 DEF Measures
  <2>2. CASE toClient # <<>> /\ toClient' = Tail(toClient)
    BY <2>2 DEF Measures
  <2>3. CASE ServerReceives
    <3>1. toClient' = toClient \/ \E reply \in Replies : toClient' = Append(toClient, reply)
      BY <2>3, ServerAnswers
    <3> QED
      BY <3>1 DEF Measures
  <2>4. ASSUME NEW m \in {"player verified", "chat"}, ServerSays(m)
        PROVE  toClient' \in Seq(Replies)
    <3>1. toClient' = <<m>> /\ m \in Replies
      BY <2>4 DEF ServerSays, Replies
    <3> QED
      BY <3>1, OneTyped
  <2> QED
    BY <2>1, <2>2, <2>3, <2>4
       DEF Next, LoopStep, Connect, Login, Warn, Restart, LoggedIn, LoginFailed, Acked,
       Message, Received, Flush, TimeoutStop, Reconnect, KeepAlive, TimeoutGoesOn, TimeoutFlush,
       Refused, Wait, LoopGoes, CallLock, CallPush, CallFlag, Calls, Disconnect, ExitProcess, Unloads, PortOpens,
       NextMinute, Terminated, vars, wires, Lose
<1>3. rcon_timer' \in 0..Cap
  <2>1. CASE rcon_timer' \in {0, rcon_timer}
    BY <2>1 DEF Measures, Cap
  <2>2. ASSUME NEW k \in 1..(1 + MaxStall), Wait(k) PROVE rcon_timer' \in 0..Cap
    <3>1. k \in Nat /\ rcon_timer \in Nat /\ 0 \in 0..Cap
      BY BoundsAssumption DEF Measures, Cap
    <3> QED
      BY <2>2, <3>1, WaitsTyped DEF Wait
  <2> QED
    BY <2>1, <2>2 DEF Next, LoopStep, Connect, Login, Warn, Restart, LoggedIn, LoginFailed, Acked,
       Message, Received, Flush, TimeoutStop, Reconnect, KeepAlive, TimeoutGoesOn, TimeoutFlush,
       Refused, LoopGoes, local, CallLock, CallPush, CallFlag, Calls, Disconnect, ExitProcess, Unloads, PortOpens,
       NextMinute, Terminated, vars, ServerReceives, Lose, ServerSays, Elsewhere
<1>4. quiet' \in 0..Cap
  <2>1. CASE quiet' \in {0, quiet}
    BY <2>1 DEF Measures, Cap
  <2>2. ASSUME NEW k \in 1..(1 + MaxStall), Wait(k) PROVE quiet' \in 0..Cap
    <3>1. k \in Nat /\ quiet \in Nat /\ 0 \in 0..Cap
      BY BoundsAssumption DEF Measures, Cap
    <3> QED
      BY <2>2, <3>1, WaitsTyped DEF Wait
  <2> QED
    BY <2>1, <2>2 DEF Next, LoopStep, Connect, Login, Warn, Restart, LoggedIn, LoginFailed, Acked,
       Message, Received, Flush, TimeoutStop, Reconnect, KeepAlive, TimeoutGoesOn, TimeoutFlush,
       Refused, LoopGoes, server, CallLock, CallPush, CallFlag, Calls, Disconnect, ExitProcess, Unloads, PortOpens,
       NextMinute, Terminated, vars, ServerReceives, Lose, ServerSays, Elsewhere
<1> QED
  BY <1>1, <1>2, <1>3, <1>4, <1>6 DEF Measures

(* Neither end does anything. *)
LEMMA AgreesUntouched ==
  Agrees /\ UNCHANGED <<ignored, session, up, quiet, toServer, toClient, lpc, refused, run_flag, rcon_timer>>
    => Agrees'
<1> SUFFICES ASSUME Agrees,
                    UNCHANGED <<ignored, session, up, quiet, toServer, toClient, lpc, refused>>,
                    UNCHANGED <<run_flag, rcon_timer>>
             PROVE  Agrees'
  OBVIOUS
<1>1. Silent' = Silent /\ Answered' = Answered
  BY DEF Silent, Answered
<1>2. ToLogin' = ToLogin /\ Asked' = Asked /\ Rejected' = Rejected
  BY <1>1 DEF ToLogin, Asked, Rejected
<1>3. Deaf' = Deaf /\ Met' = Met
  BY <1>1 DEF Deaf, Met
<1> QED
  BY <1>2, <1>3 DEF Agrees

(* The loop goes on and touches neither the wires nor the clocks. *)
LEMMA AgreesWhenLooping ==
  ASSUME Agrees, Measures, NEW here, NEW there, LoopGoes(here, there),
         UNCHANGED <<toServer, toClient, refused, run_flag, rcon_timer>>,
         \/ here = "loop" /\ there \in {"receive", "ended"}
         \/ here = "timeout" /\ there = "timeoutFlush" /\ run_flag /\ rcon_timer < 9
         \/ here = "timeout" /\ there = "ended" /\ ~run_flag
  PROVE  Agrees'
<1>1. /\ lpc = here /\ lpc' = there
      /\ UNCHANGED <<session, up, ignored, quiet, toServer, toClient>>
      /\ UNCHANGED <<refused, run_flag, rcon_timer>>
  BY DEF LoopGoes
<1>2. Silent' = Silent /\ Answered' = Answered
  BY <1>1 DEF Silent, Answered
<1>3. ToLogin => Deaf'
  <2>1. rcon_timer \in Nat
    BY DEF Measures, Cap
  <2> QED
    BY <1>1, <1>2, <2>1 DEF ToLogin, Deaf
<1>4. Asked => Asked'
  BY <1>1 DEF Asked
<1>5. Rejected => Rejected'
  BY <1>1 DEF Rejected
<1>6. Deaf => Deaf'
  BY <1>1, <1>2 DEF Deaf
<1>7. Met => Met'
  BY <1>1, <1>2 DEF Met
<1> QED
  BY <1>1, <1>3, <1>4, <1>5, <1>6, <1>7 DEF Agrees

(* The thread sends, or may do so. *)
LEMMA AgreesWhenSending ==
  ASSUME Agrees, Measures, NEW here, NEW there, LoopGoes(here, there),
         UNCHANGED <<toClient, refused, run_flag, rcon_timer>>,
         here \in {"flush", "timeoutFlush"}, there \notin {"connect", "login"},
         SendCommands \/ UNCHANGED toServer, rcon_commands \in Seq(Commands)
  PROVE  Agrees'
<1>1. Met /\ ~ignored
  BY DEF Agrees, LoopGoes, ToLogin, Asked, Rejected, Deaf, Silent
<1>2. toServer' = <<>> => toServer = <<>>
  <2>1. CommandPackets(rcon_commands) \in Seq(Packets) /\ toServer \in Seq(Packets)
    BY ManyPacketsTyped DEF Measures
  <2>2. toServer' = toServer \/ toServer' = toServer \o CommandPackets(rcon_commands)
    BY DEF SendCommands
  <2> QED
    <3>1. toServer \o CommandPackets(rcon_commands) = <<>> => toServer = <<>>
      BY <2>1, ConcatEqualIffEmpty
    <3> QED
      BY <2>2, <3>1
<1>3. Met'
  BY <1>1, <1>2 DEF Met, LoopGoes, Answered
<1> QED
  BY <1>1, <1>3 DEF Agrees, LoopGoes

(* A datagram arrives.  The stopwatch is restarted by an answer, or when   *)
(* something is sent.                                                      *)
Takes(there) ==
  /\ Received(there) /\ there \in {"flush", "ended"}
  /\ Head(toClient) = "login failed" => there = "ended" /\ UNCHANGED toServer
  /\ \/ UNCHANGED <<toServer, rcon_timer>>
     \/ /\ UNCHANGED toServer /\ rcon_timer' = 0
        /\ Head(toClient) \in {"ack", "logged in"}
     \/ toServer' # <<>>

LEMMA Times == Measures => quiet \in Nat /\ rcon_timer \in Nat
BY DEF Measures, Cap

LEMMA TakenAnswer ==
  ASSUME toClient \in Seq(Replies), toClient # <<>>, toClient' = Tail(toClient)
  PROVE  /\ Head(toClient) = toClient[1] /\ 1 \in 1..Len(toClient)
         /\ Len(toClient) = 1 => toClient' = <<>>
         /\ \A i \in 1..Len(toClient') : i + 1 \in 1..Len(toClient) /\ toClient'[i] = toClient[i + 1]
BY Tails

LEMMA Impatience == \A q \in Nat : ~(Seconds(q) < ServerPatience) => q >= 9
BY DEF Seconds, ServerPatience

LEMMA AgreesWhenReceiving ==
  ASSUME Agrees, Measures, NEW there, Takes(there)
  PROVE  Agrees'
<1>1. /\ toClient # <<>> /\ toClient' = Tail(toClient) /\ toClient \in Seq(Replies)
      /\ lpc = "receive" /\ lpc' = there /\ UNCHANGED <<session, up, ignored, quiet>>
      /\ there \notin {"connect", "login"}
  BY DEF Takes, Received, LoopGoes, Measures
<1>2. /\ Head(toClient) = toClient[1] /\ 1 \in 1..Len(toClient)
      /\ Len(toClient) = 1 => toClient' = <<>>
      /\ \A i \in 1..Len(toClient') : i + 1 \in 1..Len(toClient) /\ toClient'[i] = toClient[i + 1]
  BY <1>1, TakenAnswer
<1>3. Answered' => Answered
  BY <1>2 DEF Answered
<1>4. Rejected => Agrees'
  <2> SUFFICES ASSUME Rejected PROVE Agrees'
    OBVIOUS
  <2>1. Head(toClient) = "login failed" /\ toClient' = <<>> /\ toServer = <<>> /\ ~session
    BY <1>2 DEF Rejected
  <2>2. there = "ended" /\ toServer' = <<>>
    BY <2>1 DEF Takes
  <2> QED
    BY <1>1, <2>1, <2>2 DEF Agrees, Deaf, Silent
<1>5. Met => Agrees'
  <2> SUFFICES ASSUME Met PROVE Agrees'
    OBVIOUS
  <2>1. Head(toClient) \in {"ack", "logged in"} => Answered
    BY <1>2 DEF Answered
  <2>2. toServer' = <<>> => quiet <= rcon_timer' /\ (Answered' => quiet = 0)
    <3>1. lpc \notin {"connect", "login"}
      BY <1>1
    <3>2. CASE UNCHANGED <<toServer, rcon_timer>>
      BY <1>3, <3>1, <3>2 DEF Met
    <3>3. CASE UNCHANGED toServer /\ rcon_timer' = 0 /\ Answered
      <4>1. toServer' = <<>> => quiet = 0
        BY <3>1, <3>3 DEF Met
      <4>2. 0 <= 0
        OBVIOUS
      <4> QED
        BY <3>3, <4>1, <4>2
    <3>4. CASE toServer' # <<>>
      BY <3>4
    <3> QED
      BY <2>1, <3>2, <3>3, <3>4 DEF Takes
  <2> QED
    BY <1>1, <2>2 DEF Agrees, Met
<1> QED
  BY <1>1, <1>4, <1>5 DEF Agrees, ToLogin, Asked, Deaf, Silent

LEMMA AgreesWhenWaiting ==
  ASSUME Agrees, Measures, NEW k \in 1..(1 + MaxStall), Wait(k)
  PROVE  Agrees'
<1>1. /\ lpc = "receive" /\ lpc' = "timeout" /\ toClient = <<>> /\ toServer = <<>> /\ ~refused
      /\ UNCHANGED <<toClient, toServer, refused, run_flag, up, ignored>>
      /\ rcon_timer' = Later(rcon_timer, k) /\ quiet' = IF session THEN Later(quiet, k) ELSE 0
      /\ session' = (session /\ Seconds(quiet') < ServerPatience)
  BY DEF Wait, wires, flags, server
<1>2. rcon_timer \in 0..Cap /\ quiet \in 0..Cap /\ k \in Nat
  BY BoundsAssumption DEF Measures
<1>3. CASE Deaf
  BY <1>1, <1>3 DEF Agrees, Deaf, Silent
<1>4. CASE Met
  <2>1. quiet <= rcon_timer /\ session /\ ~ignored
    BY <1>1, <1>4 DEF Met, Agrees
  <2>2. quiet' <= rcon_timer' /\ quiet' \in Nat /\ rcon_timer' \in Nat
    BY <1>1, <1>2, <2>1 DEF Later, Cap
  <2>3. Len(toClient') = 0
    BY <1>1
  <2>4. CASE session'
    BY <1>1, <1>4, <2>1, <2>2, <2>3, <2>4 DEF Met, Agrees, Answered
  <2>5. CASE ~session'
    <3>1. quiet' >= 9
      BY <1>1, <2>1, <2>2, <2>5, Impatience
    <3> QED
      BY <1>1, <2>1, <2>2, <2>5, <3>1 DEF Agrees, ToLogin, Silent
  <2> QED
    BY <2>4, <2>5
<1> QED
  BY <1>1, <1>3, <1>4 DEF Agrees, ToLogin, Asked, Rejected, Silent

LEMMA Appended ==
  ASSUME NEW S, NEW s \in Seq(S), NEW e \in S
  PROVE  /\ Append(s, e) # <<>>
         /\ s = <<>> => Len(Append(s, e)) = 1 /\ Append(s, e)[1] = e
BY AppendProperties

LEMMA Alone == \A x : \A i \in 1..Len(<<x>>) : <<x>>[i] = x
OBVIOUS

LEMMA Patience == \A t \in Nat : /\ Seconds(t) < 45 <=> ~(t >= 9)
                                 /\ Seconds(t) < 30 => t < 9
BY DEF Seconds

(* The thread logs in, for the first time or anew. *)
LEMMA AgreesWhenConnecting ==
  ASSUME Agrees, Measures, Connect \/ Login \/ Reconnect
  PROVE  Agrees'
<1>1. /\ UNCHANGED <<session, up, ignored, quiet, toClient, refused>>
      /\ \/ lpc = "connect" /\ lpc' = "login" /\ UNCHANGED toServer
         \/ lpc = "login" /\ lpc' = "loop" /\ \E p \in Packets : p.kind = "login" /\ toServer' = Append(toServer, p)
         \/ /\ lpc = "timeout" /\ lpc' = "connect" /\ UNCHANGED toServer /\ run_flag
            /\ Seconds(rcon_timer) >= 45
  BY PacketsTyped DEF Connect, Login, Reconnect, LoopGoes
<1>2. Met => Met'
  <2>1. toServer \in Seq(Packets)
    BY DEF Measures
  <2>2. lpc' = "loop" => toServer' # <<>>
    BY <1>1, <2>1
  <2> QED
    BY <1>1, <2>2 DEF Met
<1>3. ToLogin => ToLogin' \/ Asked'
  <2> SUFFICES ASSUME ToLogin PROVE ToLogin' \/ Asked'
    OBVIOUS
  <2>1. CASE lpc' \in {"login", "connect"}
    BY <1>1, <2>1 DEF ToLogin, Silent
  <2>2. CASE lpc' = "loop"
    <3>1. PICK p \in Packets : p.kind = "login" /\ toServer' = Append(toServer, p)
      BY <1>1, <2>2
    <3>2. Len(toServer') = 1 /\ toServer'[1] = p
      BY <3>1 DEF ToLogin, Silent
    <3> QED
      BY <1>1, <2>2, <3>1, <3>2 DEF ToLogin, Asked, Silent
  <2> QED
    BY <1>1, <2>1, <2>2
<1>4. ~Asked /\ ~Rejected /\ ~Deaf
  BY <1>1 DEF Asked, Rejected, Deaf
<1> QED
  BY <1>1, <1>2, <1>3, <1>4 DEF Agrees

(* The keep alive goes out before the server's patience has come to an end. *)
LEMMA AgreesWhenKept ==
  ASSUME Agrees, Measures, KeepAlive
  PROVE  Agrees'
<1>1. /\ UNCHANGED <<session, up, ignored, quiet, toClient, refused>>
      /\ lpc = "timeout" /\ lpc' = "loop" /\ run_flag
      /\ Seconds(rcon_timer) < 45 /\ toServer' = Append(toServer, Sent("keep alive"))
  BY DEF KeepAlive, LoopGoes
<1>2. ~ToLogin
  <2>1. ~(rcon_timer >= 9)
    BY <1>1, Times, Patience
  <2> QED
    BY <1>1, <2>1 DEF ToLogin
<1>3. toServer' # <<>>
  <2>1. toServer \in Seq(Packets) /\ Sent("keep alive") \in Packets
    BY PacketsTyped DEF Measures, Kinds
  <2> QED
    BY <1>1, <2>1, Appended
<1> QED
  BY <1>1, <1>2, <1>3 DEF Agrees, Asked, Rejected, Deaf, Met

LEMMA AgreesWhenRefused ==
  ASSUME Agrees, Refused
  PROVE  Agrees'
<1>1. /\ UNCHANGED <<session, up, ignored, quiet, toClient, toServer, rcon_timer>>
      /\ lpc = "receive" /\ lpc' = "loop" /\ run_flag' = FALSE
  BY DEF Refused, LoopGoes, local
<1>2. Silent' = Silent /\ Answered' = Answered
  BY <1>1 DEF Silent, Answered
<1>3. ~ToLogin
  BY <1>1 DEF ToLogin
<1>4. (Asked => Asked') /\ (Rejected => Rejected')
  BY <1>1 DEF Asked, Rejected
<1>5. Deaf => Deaf'
  BY <1>1, <1>2 DEF Deaf
<1>6. Met => Met'
  BY <1>1, <1>2 DEF Met
<1> QED
  BY <1>1, <1>3, <1>4, <1>5, <1>6 DEF Agrees

(* What the server receives from a client it does not know is a login. *)
LEMMA AgreesWhenReceived ==
  ASSUME Agrees, Measures, ServerReceives
  PROVE  Agrees'
<1>1. /\ toServer # <<>> /\ toServer' = Tail(toServer) /\ toServer \in Seq(Packets)
      /\ UNCHANGED <<lpc, run_flag, rcon_timer>> /\ up' = up
      /\ toClient \in Seq(Replies)
  BY DEF ServerReceives, Elsewhere, flags, local, Measures
<1>2. ~ToLogin /\ ~Rejected /\ ~Deaf
  BY <1>1 DEF ToLogin, Rejected, Deaf, Silent
<1>3. CASE Met
  <2>1. session' /\ quiet' = 0 /\ ignored' = ignored /\ 0 <= rcon_timer
    BY <1>3, ServerAnswers, Times DEF Met
  <2> QED
    BY <1>1, <1>3, <2>1 DEF Agrees, Met
<1>4. CASE Asked
  <2>1. Head(toServer).kind = "login" /\ toServer' = <<>> /\ ~session /\ toClient = <<>>
    BY <1>1, <1>4, Tails DEF Asked
  <2>2. ignored' = ignored /\ lpc' \in {"loop", "receive", "ended"}
    BY <1>1, <1>4, <2>1, ServerAnswers DEF Asked
  <2>3. CASE ~session' /\ refused' /\ toClient' = toClient
    BY <2>1, <2>2, <2>3 DEF Agrees, Deaf, Silent
  <2>4. CASE ~session' /\ toClient' = Append(toClient, "login failed")
    <3>1. Len(toClient') = 1 /\ toClient'[1] = "login failed"
      <4>1. "login failed" \in Replies
        BY DEF Replies
      <4> QED
        BY <1>1, <2>1, <2>4, <4>1, Appended
    <3> QED
      BY <2>1, <2>2, <2>4, <3>1 DEF Agrees, Rejected
  <2>5. CASE session' /\ up' /\ quiet' = 0
    <3>1. quiet' <= rcon_timer'
      BY <1>1, <2>5, Times
    <3> QED
      BY <2>2, <2>5, <3>1 DEF Agrees, Met
  <2> QED
    BY <2>1, <2>3, <2>4, <2>5, ServerAnswers
<1> QED
  BY <1>2, <1>3, <1>4 DEF Agrees

LEMMA AgreesWhenTold ==
  ASSUME Agrees, NEW m \in {"player verified", "chat"}, ServerSays(m)
  PROVE  Agrees'
<1>1. /\ session /\ up /\ toServer = <<>> /\ toClient' = <<m>>
      /\ UNCHANGED <<session, up, ignored, quiet, toServer, lpc, rcon_timer>>
  BY DEF ServerSays, Elsewhere, server, local
<1>2. Met /\ ~ignored
  BY <1>1 DEF Agrees, ToLogin, Asked, Rejected, Deaf, Silent
<1>3. ~Answered'
  <2>1. \A i \in 1..Len(toClient') : toClient'[i] \notin {"ack", "logged in"}
    BY <1>1, Alone
  <2> QED
    BY <2>1 DEF Answered
<1> QED
  BY <1>1, <1>2, <1>3 DEF Agrees, Met

LEMMA AgreesWhenLooped == ASSUME Agrees, Measures, Order, LoopStep PROVE Agrees'
<1>1. CASE Connect \/ Login \/ Reconnect
  BY <1>1, AgreesWhenConnecting
<1>2. CASE Warn
  <2>1. LoopGoes("loop", "receive") /\ UNCHANGED <<toServer, toClient, refused, run_flag, rcon_timer>>
    BY <1>2 DEF Warn, flags
  <2> QED
    BY <2>1, AgreesWhenLooping
<1>3. CASE Restart
  <2>1. LoopGoes("loop", "ended") /\ UNCHANGED <<toServer, toClient, refused, run_flag, rcon_timer>>
    BY <1>3 DEF Restart, flags, local
  <2> QED
    BY <2>1, AgreesWhenLooping
<1>4. CASE LoggedIn \/ LoginFailed \/ Acked
  <2>1. Takes("flush") \/ Takes("ended")
    BY <1>4 DEF Takes, LoggedIn, LoginFailed, Acked
  <2> QED
    BY <2>1, AgreesWhenReceiving
<1>5. ASSUME NEW m, Message(m) PROVE Agrees'
  <2>1. (toServer' = toServer /\ rcon_timer' = rcon_timer) \/ toServer' = Append(toServer, Sent("message ack"))
    BY <1>5 DEF Message
  <2>2. Append(toServer, Sent("message ack")) # <<>>
    <3>1. toServer \in Seq(Packets) /\ Sent("message ack") \in Packets
      BY PacketsTyped DEF Measures, Kinds
    <3> QED
      BY <3>1, Appended
  <2>3. Takes("flush")
    BY <1>5, <2>1, <2>2 DEF Takes, Message
  <2> QED
    BY <2>3, AgreesWhenReceiving
<1>6. CASE Flush \/ TimeoutFlush
  <2>1. /\ \E here \in {"flush", "timeoutFlush"}, there \in {"loop", "ended"} : LoopGoes(here, there)
        /\ UNCHANGED <<toClient, refused, run_flag, rcon_timer>>
        /\ SendCommands \/ UNCHANGED toServer
    BY <1>6 DEF Flush, TimeoutFlush, flags
  <2>2. rcon_commands \in Seq(Commands)
    BY DEF Order, InOrder
  <2> QED
    BY <2>1, <2>2, AgreesWhenSending
<1>7. CASE TimeoutStop
  <2>1. LoopGoes("timeout", "ended") /\ UNCHANGED <<toServer, toClient, refused, run_flag, rcon_timer>> /\ ~run_flag
    BY <1>7 DEF TimeoutStop, flags, local
  <2> QED
    BY <2>1, AgreesWhenLooping
<1>8. CASE TimeoutGoesOn
  <2>1. /\ LoopGoes("timeout", "timeoutFlush") /\ UNCHANGED <<toServer, toClient, refused, run_flag, rcon_timer>>
        /\ run_flag /\ Seconds(rcon_timer) < 30
    BY <1>8 DEF TimeoutGoesOn, flags, local
  <2>2. rcon_timer < 9
    BY <2>1, Times, Patience
  <2> QED
    BY <2>1, <2>2, AgreesWhenLooping
<1>9. CASE KeepAlive
  BY <1>9, AgreesWhenKept
<1>10. CASE Refused
  BY <1>10, AgreesWhenRefused
<1>11. ASSUME NEW k \in 1..(1 + MaxStall), Wait(k) PROVE Agrees'
  BY <1>11, AgreesWhenWaiting
<1> QED
  BY <1>1, <1>2, <1>3, <1>4, <1>5, <1>6, <1>7, <1>8, <1>9, <1>10, <1>11 DEF LoopStep

LEMMA AgreesKept ==
  ASSUME Agrees, Measures, Order, [Next]_vars, lost' = lost
  PROVE  Agrees'
<1> USE DEF flags, local, wires, server
<1>1. CASE LoopStep
  BY <1>1, AgreesWhenLooped
<1>2. ASSUME NEW v \in BOOLEAN, CallLock(v) PROVE Agrees'
  BY <1>2, AgreesUntouched DEF CallLock, Calls
<1>3. CASE CallPush \/ CallFlag
  BY <1>3, AgreesUntouched DEF CallPush, CallFlag, Calls
<1>4. CASE Disconnect \/ ExitProcess
  <2>1. /\ UNCHANGED <<ignored, session, up, quiet, toServer, toClient, lpc, refused, rcon_timer>>
        /\ run_flag' = FALSE
    BY <1>4 DEF Disconnect, ExitProcess, Unloads
  <2>2. Silent' = Silent /\ Answered' = Answered
    BY <2>1 DEF Silent, Answered
  <2>3. ToLogin' = ToLogin /\ Asked' = Asked /\ Rejected' = Rejected
    BY <2>1, <2>2 DEF ToLogin, Asked, Rejected
  <2>4. (Deaf => Deaf') /\ Met' = Met
    BY <2>1, <2>2 DEF Deaf, Met
  <2> QED
    BY <2>1, <2>3, <2>4 DEF Agrees
<1>5. CASE NextMinute \/ UNCHANGED vars
  BY <1>5, AgreesUntouched DEF NextMinute, vars
<1>6. CASE PortOpens
  <2>1. /\ UNCHANGED <<ignored, session, quiet, toServer, toClient, lpc, refused, run_flag, rcon_timer>>
        /\ up' = TRUE
    BY <1>6 DEF PortOpens, Elsewhere
  <2>2. Silent' = Silent /\ Answered' = Answered
    BY <2>1 DEF Silent, Answered
  <2>3. ToLogin' = ToLogin /\ Asked' = Asked /\ Rejected' = Rejected
    BY <2>1, <2>2 DEF ToLogin, Asked, Rejected
  <2>4. Deaf' = Deaf /\ (Met => Met')
    BY <2>1, <2>2 DEF Deaf, Met
  <2> QED
    BY <2>1, <2>3, <2>4 DEF Agrees
<1>7. CASE ServerReceives
  BY <1>7, AgreesWhenReceived
<1>8. ASSUME NEW m \in {"player verified", "chat"}, ServerSays(m) PROVE Agrees'
  BY <1>8, AgreesWhenTold
<1>9. ~Lose
  <2>1. lost + 1 # lost
    BY DEF Measures
  <2> QED
    BY <2>1 DEF Lose
<1> QED
  BY <1>1, <1>2, <1>3, <1>4, <1>5, <1>6, <1>7, <1>8, <1>9 DEF Next, Terminated

LEMMA LossesStay ==
  ASSUME Measures, [Next]_vars, lost' = 0
  PROVE  lost = 0 /\ lost' = lost
<1>1. lost' = lost \/ Lose
  BY DEF Next, LoopStep, Connect, Login, Warn, Restart, LoggedIn, LoginFailed, Acked,
     Message, Received, Flush, TimeoutStop, Reconnect, KeepAlive, TimeoutGoesOn,
     TimeoutFlush, Refused, Wait, LoopGoes, CallLock, CallPush, CallFlag, Calls,
     Disconnect, ExitProcess, Unloads, PortOpens, NextMinute, Terminated, vars, wires,
     ServerReceives, ServerSays
<1>2. lost + 1 # 0
  BY DEF Measures
<1> QED
  BY <1>1, <1>2 DEF Lose

LEMMA HearingInvariance == Spec => []Hearing
<1>1. Init => Hearing
  <2> SUFFICES ASSUME Init PROVE Hearing
    OBVIOUS
  <2>1. /\ toServer = <<>> /\ toClient = <<>> /\ rcon_timer = 0 /\ quiet = 0 /\ lost = 0
        /\ lpc = "connect" /\ ~session /\ ~ignored
    BY DEF Init
  <2> QED
    BY <2>1, EmptySeq DEF Hearing, Measures, Agrees, ToLogin, Silent, Cap
<1>2. Order /\ Hearing /\ [Next]_vars => Hearing'
  <2> SUFFICES ASSUME Order, Hearing, [Next]_vars PROVE Hearing'
    OBVIOUS
  <2>1. Measures'
    BY MeasuresKept DEF Hearing
  <2>2. lost' = 0 => lost' = lost
    BY LossesStay DEF Hearing
  <2>3. lost' = 0 => Agrees'
    BY <2>2, AgreesKept DEF Hearing
  <2> QED
    BY <2>1, <2>3 DEF Hearing
<1> QED
  BY <1>1, <1>2, OrderInvariance, PTL DEF Spec

(* Every command that was queued is somewhere, and a command on the wire   *)
(* finds the server listening.                                             *)
Accounted == 1..issued \subseteq Numbers(executed) \cup OnTheWire(toServer) \cup Numbers(rcon_commands)

LEMMA AccountedUntouched ==
  Accounted /\ UNCHANGED <<executed, toServer, rcon_commands, issued>> => Accounted'
BY DEF Accounted

LEMMA OneMore == ASSUME NEW n \in Nat PROVE 1..(n + 1) = 1..n \cup {n + 1}
OBVIOUS

LEMMA AccountedQueued ==
  ASSUME Order, Accounted, NEW what \in Texts, issued' = issued + 1,
         rcon_commands' = Append(rcon_commands, Command(issued + 1, what)),
         executed' = executed, OnTheWire(toServer') = OnTheWire(toServer)
  PROVE  Accounted'
<1>1. Numbers(rcon_commands') = Numbers(rcon_commands) \cup {issued + 1}
  BY OrderQueued DEF Order
<1>2. 1..issued' = 1..issued \cup {issued + 1}
  BY OneMore DEF Order, InOrder
<1>3. /\ Numbers(executed') = Numbers(executed)
      /\ OnTheWire(toServer)' = OnTheWire(toServer')
      /\ Numbers(executed)' = Numbers(executed') /\ Numbers(rcon_commands)' = Numbers(rcon_commands')
  OBVIOUS
<1> QED
  BY <1>1, <1>2, <1>3 DEF Accounted

LEMMA AccountedAdded ==
  ASSUME Order, Accounted, NEW what \in Texts, addCommand(what),
         executed' = executed, OnTheWire(toServer') = OnTheWire(toServer)
  PROVE  Accounted'
<1>1. CASE run_flag
  BY <1>1, AccountedQueued DEF addCommand
<1>2. CASE ~run_flag
  BY <1>2 DEF Accounted, addCommand
<1> QED
  BY <1>1, <1>2

(* A packet that is no command has been sent. *)
LEMMA WireSaid ==
  ASSUME Order, NEW p \in Packets, p.kind # "command", toServer' = Append(toServer, p)
  PROVE  OnTheWire(toServer') = OnTheWire(toServer)
BY OrderSaid DEF Order

LEMMA AccountedFlushed ==
  ASSUME Order, Accounted, SendCommands, UNCHANGED <<executed, issued>>
  PROVE  Accounted'
<1>1. OnTheWire(toServer') = OnTheWire(toServer) \cup Numbers(rcon_commands)
  BY OrderSent DEF Order, SendCommands
<1> QED
  BY <1>1 DEF Accounted

LEMMA AccountedReceived ==
  ASSUME Order, Measures, Agrees, Accounted, ServerReceives
  PROVE  Accounted'
<1>1. /\ UNCHANGED <<rcon_commands, issued>>
      /\ toServer # <<>> /\ toServer' = Tail(toServer)
  BY DEF ServerReceives, Elsewhere
<1>2. CASE Head(toServer).kind # "command"
  <2>1. OnTheWire(toServer) \subseteq OnTheWire(toServer')
    BY <1>1, <1>2, OrderTaken DEF Order
  <2>2. executed' = executed
    BY <1>2 DEF ServerReceives
  <2> QED
    BY <1>1, <2>1, <2>2 DEF Accounted
<1>3. CASE Head(toServer).kind = "command"
  <2>1. toServer \in Seq(Packets) /\ Head(toServer) = toServer[1]
    BY <1>1, Tails DEF Measures
  <2>2. session /\ up
    BY <1>1, <1>3, <2>1 DEF Agrees, ToLogin, Asked, Rejected, Deaf, Silent, Met
  <2>3. executed' = Append(executed, Head(toServer).cmd)
    BY <1>3, <2>2 DEF ServerReceives
  <2>4. /\ Numbers(executed') = Numbers(executed) \cup {Head(toServer).cmd.n}
        /\ OnTheWire(toServer) \subseteq OnTheWire(toServer') \cup {Head(toServer).cmd.n}
    BY <1>1, <1>3, <2>3, OrderTaken DEF Order
  <2> QED
    BY <1>1, <2>4 DEF Accounted
<1> QED
  BY <1>2, <1>3

LEMMA AccountedKept ==
  ASSUME Order, Measures, Agrees, Accounted, [Next]_vars, lost' = lost
  PROVE  Accounted'
<1>1. CASE Login
  <2>1. PICK intact \in BOOLEAN : toServer' = Append(toServer, LoginPacket(intact))
    BY <1>1 DEF Login
  <2>2. UNCHANGED <<executed, rcon_commands, issued>>
    BY <1>1 DEF Login, LoopGoes
  <2>3. OnTheWire(toServer') = OnTheWire(toServer)
    BY <2>1, PacketsTyped, WireSaid
  <2> QED
    BY <2>2, <2>3 DEF Accounted
<1>2. CASE Warn \/ Restart
  <2>1. UNCHANGED <<executed, toServer>>
    BY <1>2 DEF Warn, Restart, LoopGoes
  <2>2. \/ \E what \in Texts : addCommand(what)
        \/ UNCHANGED <<rcon_commands, issued>>
    BY <1>2 DEF Warn, Restart, Texts
  <2> QED
    BY <2>1, <2>2, AccountedAdded, AccountedUntouched
<1>3. CASE Connect \/ LoggedIn \/ LoginFailed \/ Acked \/ TimeoutStop \/ Reconnect
           \/ TimeoutGoesOn \/ Refused
  BY <1>3, AccountedUntouched
     DEF Connect, LoggedIn, LoginFailed, Acked, Received, TimeoutStop, Reconnect, TimeoutGoesOn,
         Refused, LoopGoes
<1>4. ASSUME NEW m, Message(m) PROVE Accounted'
  <2>1. executed' = executed
    BY <1>4 DEF Message, Received, LoopGoes
  <2>2. toServer' = Append(toServer, Sent("message ack")) \/ toServer' = toServer
    BY <1>4 DEF Message
  <2>3. OnTheWire(toServer') = OnTheWire(toServer)
    <3>1. Sent("message ack") \in Packets /\ Sent("message ack").kind # "command"
      BY PacketsTyped DEF Kinds
    <3> QED
      BY <2>2, <3>1, WireSaid
  <2>4. addCommand("kick") \/ UNCHANGED <<rcon_commands, issued>>
    BY <1>4 DEF Message
  <2>5. CASE addCommand("kick")
    BY <2>1, <2>3, <2>5, AccountedAdded DEF Texts
  <2>6. CASE UNCHANGED <<rcon_commands, issued>>
    BY <2>1, <2>3, <2>6 DEF Accounted
  <2> QED
    BY <2>4, <2>5, <2>6
<1>5. CASE Flush \/ TimeoutFlush
  <2>1. UNCHANGED <<executed, issued>>
    BY <1>5 DEF Flush, TimeoutFlush, LoopGoes
  <2>2. SendCommands \/ UNCHANGED <<toServer, rcon_commands>>
    BY <1>5 DEF Flush, TimeoutFlush
  <2> QED
    BY <2>1, <2>2, AccountedFlushed, AccountedUntouched
<1>6. CASE KeepAlive
  <2>1. /\ UNCHANGED <<executed, rcon_commands, issued>>
        /\ toServer' = Append(toServer, Sent("keep alive"))
    BY <1>6 DEF KeepAlive, LoopGoes
  <2>2. OnTheWire(toServer') = OnTheWire(toServer)
    BY <2>1, PacketsTyped, WireSaid DEF Kinds
  <2> QED
    BY <2>1, <2>2 DEF Accounted
<1>7. ASSUME NEW k \in 1..(1 + MaxStall), Wait(k) PROVE Accounted'
  BY <1>7, AccountedUntouched DEF Wait, server, wires
<1>8. CASE CallPush
  <2>1. /\ UNCHANGED <<executed, toServer>> /\ issued' = issued + 1
        /\ \E what \in Texts : rcon_commands' = Append(rcon_commands, Command(issued + 1, what))
    BY <1>8 DEF CallPush, Calls, server, wires, Texts
  <2> QED
    BY <2>1, AccountedQueued
<1>9. CASE (\E v \in BOOLEAN : CallLock(v)) \/ CallFlag \/ Disconnect \/ ExitProcess \/ PortOpens
           \/ NextMinute \/ UNCHANGED vars
  BY <1>9, AccountedUntouched
     DEF CallLock, CallFlag, Calls, Disconnect, ExitProcess, Unloads, PortOpens, NextMinute,
         Elsewhere, server, wires, vars
<1>10. CASE ServerReceives
  BY <1>10, AccountedReceived
<1>11. ASSUME NEW m, ServerSays(m) PROVE Accounted'
  BY <1>11, AccountedUntouched DEF ServerSays, Elsewhere, server
<1>12. ~Lose
  <2>1. lost + 1 # lost
    BY DEF Measures
  <2> QED
    BY <2>1 DEF Lose
<1> QED
  BY <1>1, <1>2, <1>3, <1>4, <1>5, <1>6, <1>7, <1>8, <1>9, <1>10, <1>11, <1>12
     DEF Next, LoopStep, Terminated

(* Of Spec: as long as no datagram is lost, every command that was queued  *)
(* has been executed by the server, is on its way to it, or is queued      *)
(* still, however late the waits are.                                      *)
THEOREM EveryCommandIsHeard == Spec => []CommandsHeard
<1>1. Init => CommandsHeard
  BY DEF Init, CommandsHeard
<1>2. Order /\ Hearing /\ CommandsHeard /\ [Next]_vars => CommandsHeard'
  <2> SUFFICES ASSUME Order, Hearing, CommandsHeard, [Next]_vars, lost' = 0 PROVE Accounted'
    BY DEF CommandsHeard, Accounted
  <2>1. lost = 0
    BY LossesStay DEF Hearing
  <2> QED
    BY <2>1, AccountedKept DEF Hearing, CommandsHeard, Accounted
<1> QED
  BY <1>1, <1>2, OrderInvariance, HearingInvariance, PTL DEF Spec

----------------------------------------------------------------------------
(* The password.  It has been freed when the first command was sent, and   *)
(* is read again by a second login.  The stopwatch reaches that only at    *)
(* the end of a wait that was late, since the keep alive restarts it.      *)

InTime == /\ lpc \notin {"timeout", "ended"} => rcon_timer <= 5
          /\ lpc = "timeout" => late \/ rcon_timer <= 8
          /\ lpc \in {"connect", "login"} => late \/ password = "intact"

LEMMA InTimeKept ==
  ASSUME InTime, Measures, [Next]_vars
  PROVE  InTime'
<1> USE DEF InTime, LoopGoes
<1>1. rcon_timer \in Nat
  BY Times
<1>2. CASE rcon_timer' \in {0, rcon_timer} /\ lpc' = lpc /\ UNCHANGED <<password, late>>
  BY <1>1, <1>2
<1>3. CASE Connect \/ Login
  BY <1>1, <1>3 DEF Connect, Login, local, packet
<1>4. CASE Warn \/ Restart
  <2>1. rcon_timer' = rcon_timer /\ lpc = "loop" /\ lpc' \in {"receive", "ended"}
    BY <1>4 DEF Warn, Restart, local
  <2> QED
    BY <1>1, <2>1
<1>5. CASE \E there \in {"flush", "ended"} : Received(there) /\ rcon_timer' \in {0, rcon_timer}
  BY <1>1, <1>5 DEF Received
<1>6. CASE Flush \/ TimeoutFlush
  BY <1>1, <1>6 DEF Flush, TimeoutFlush
<1>7. CASE TimeoutStop \/ Refused
  BY <1>1, <1>7 DEF TimeoutStop, Refused, local
<1>8. CASE TimeoutGoesOn
  BY <1>1, <1>8 DEF TimeoutGoesOn, local, Seconds
<1>9. CASE KeepAlive
  <2>1. rcon_timer' = 0 /\ lpc' = "loop"
    BY <1>9 DEF KeepAlive
  <2> QED
    BY <2>1
<1>10. CASE Reconnect
  <2>1. /\ lpc = "timeout" /\ lpc' = "connect" /\ rcon_timer' = 0
        /\ late' = (late /\ "connect" \in {"connect", "login"})
        /\ Seconds(rcon_timer) >= 45
    BY <1>10 DEF Reconnect
  <2>2. late
    BY <1>1, <2>1 DEF Seconds
  <2>3. late'
    BY <2>1, <2>2, Zenon
  <2> QED
    BY <2>1, <2>3
<1>11. ASSUME NEW k \in 1..(1 + MaxStall), Wait(k) PROVE InTime'
  <2>1. /\ lpc = "receive" /\ lpc' = "timeout" /\ rcon_timer' = Later(rcon_timer, k)
        /\ late' = (k > 3)
    BY <1>11 DEF Wait
  <2>2. rcon_timer <= 5 /\ k \in Nat
    BY <2>1, BoundsAssumption
  <2>3. CASE k > 3
    BY <2>1, <2>3
  <2>4. CASE k <= 3
    BY <1>1, <2>1, <2>2, <2>4 DEF Later, Cap
  <2> QED
    BY <2>2, <2>3, <2>4
<1>12. CASE LoopStep
  BY <1>3, <1>4, <1>5, <1>6, <1>7, <1>8, <1>9, <1>10, <1>11, <1>12
     DEF LoopStep, LoggedIn, LoginFailed, Acked, Message
<1>13. CASE ~LoopStep
  BY <1>2, <1>13 DEF Next, CallLock, CallPush, CallFlag, Calls, Disconnect, ExitProcess, Unloads,
     PortOpens, NextMinute, Terminated, vars, ServerReceives, Lose, ServerSays, Elsewhere, local,
     packet
<1> QED
  BY <1>12, <1>13

(* Of Spec: a login packet carries the configured password, unless a wait  *)
(* of five seconds has just ended fifteen seconds late or more.            *)
THEOREM PasswordIsSent == Spec => []PasswordIntact
<1>1. Init => InTime
  BY DEF Init, InTime
<1>2. InTime /\ Hearing /\ [Next]_vars => InTime'
  BY InTimeKept DEF Hearing
<1>3. InTime => PasswordIntact
  BY DEF InTime, PasswordIntact
<1> QED
  BY <1>1, <1>2, <1>3, HearingInvariance, PTL DEF Spec
----------------------------------------------------------------------------
(* Types: what Order and Measures leave out. *)
Modes ==
  /\ run_flag \in BOOLEAN /\ login_flag \in BOOLEAN /\ locked \in BOOLEAN
  /\ packet_cmd \in {"nothing", "password", "command"}
  /\ password \in {"intact", "freed"}
  /\ lpc \in LoopStates
  /\ cpc \in {"idle", "push", "flag"} /\ want \in BOOLEAN
  /\ unload \in {"no", "joining", "done", "exited"} /\ late \in BOOLEAN
  /\ refused \in BOOLEAN /\ up \in BOOLEAN /\ session \in BOOLEAN
  /\ server_locked \in BOOLEAN
  /\ looked \in BOOLEAN /\ ignored \in BOOLEAN /\ restarted \in BOOLEAN
Minutes == until \in 1..61 /\ lastWarningMinute \in -3..54
Losses == lost \in 0..MaxLost

LEMMA MinutesKept == Minutes /\ [Next]_vars => Minutes'
<1> SUFFICES ASSUME Minutes, [Next]_vars PROVE Minutes'
  OBVIOUS
<1>1. CASE Warn
  <2>1. WarningDue(until, lastWarningMinute) => timeUntilShutdownMode(until) \in -3..54
    BY DEF Minutes, WarningDue, RestartDue, timeUntilShutdownMode
  <2> QED
    BY <1>1, <2>1 DEF Warn, LoopGoes, Minutes
<1>2. CASE NextMinute
  BY <1>2 DEF NextMinute, local, Minutes
<1>3. CASE UNCHANGED <<until, lastWarningMinute>>
  BY <1>3 DEF Minutes
<1> QED
  BY <1>1, <1>2, <1>3
     DEF Next, LoopStep, Connect, Login, Restart, LoggedIn, LoginFailed, Acked, Message, Received,
         Flush, TimeoutStop, Reconnect, KeepAlive, TimeoutGoesOn, TimeoutFlush, Refused, Wait,
         LoopGoes, local, clock, CallLock, CallPush, CallFlag, Calls, Disconnect, ExitProcess, Unloads, PortOpens,
         Terminated, vars, ServerReceives, Lose, ServerSays, Elsewhere

LEMMA LossesKept == Losses /\ [Next]_vars => Losses'
<1> SUFFICES ASSUME Losses, [Next]_vars PROVE Losses'
  OBVIOUS
<1>1. CASE Lose
  BY <1>1, BoundsAssumption DEF Lose, Losses
<1>2. CASE lost' = lost
  BY <1>2 DEF Losses
<1> QED
  BY <1>1, <1>2
     DEF Next, LoopStep, Connect, Login, Warn, Restart, LoggedIn, LoginFailed, Acked, Message,
         Received, Flush, TimeoutStop, Reconnect, KeepAlive, TimeoutGoesOn, TimeoutFlush, Refused,
         Wait, LoopGoes, CallLock, CallPush, CallFlag, Calls, Disconnect, ExitProcess, Unloads, PortOpens,
         NextMinute, Terminated, vars, wires, ServerReceives, ServerSays, Elsewhere

LEMMA ModesKept == Modes /\ [Next]_vars => Modes'
<1> SUFFICES ASSUME Modes, [Next]_vars PROVE Modes'
  OBVIOUS
<1> USE DEF Next, LoopStep, Connect, Login, Warn, Restart, LoggedIn, LoginFailed, Acked, Message, Received,
         Flush, TimeoutStop, Reconnect, KeepAlive, TimeoutGoesOn, TimeoutFlush, Refused, Wait,
         LoopGoes, CallLock, CallPush, CallFlag, Calls, Disconnect, ExitProcess, Unloads, PortOpens, NextMinute,
         Terminated, ServerReceives, Lose, ServerSays, Elsewhere, flags, packet, local, caller,
         server, clock, wires, vars
<1>1. run_flag' \in BOOLEAN
  BY DEF Modes
<1>2. login_flag' \in BOOLEAN
  BY DEF Modes
<1>3. locked' \in BOOLEAN
  BY DEF Modes
<1>4. looked' \in BOOLEAN
  BY DEF Modes
<1>5. restarted' \in BOOLEAN
  BY DEF Modes
<1>6. refused' \in BOOLEAN
  BY DEF Modes
<1>7. up' \in BOOLEAN
  BY DEF Modes
<1>8. server_locked' \in BOOLEAN
  BY DEF Modes
<1>9. want' \in BOOLEAN
  BY DEF Modes
<1>10. session' \in BOOLEAN
  BY DEF Modes
<1>11. ignored' \in BOOLEAN
  BY DEF Modes
<1>12. lpc' \in LoopStates
  BY DEF Modes, LoopStates
<1>13. cpc' \in {"idle", "push", "flag"}
  BY DEF Modes
<1>14. unload' \in {"no", "joining", "done", "exited"}
  BY DEF Modes
<1>16. late' \in BOOLEAN
  <2>2. \A here, there : LoopGoes(here, there) => late' \in BOOLEAN
    BY Zenon DEF LoopGoes
  <2>3. \A k \in 1..(1 + MaxStall) : Wait(k) => late' \in BOOLEAN
    <3> SUFFICES ASSUME NEW k \in 1..(1 + MaxStall), Wait(k) PROVE late' \in BOOLEAN
      OBVIOUS
    <3>1. late' = (k > 3)
      BY Zenon DEF Wait
    <3>2. CASE k > 3
      BY <3>1, <3>2, SMT
    <3>3. CASE ~(k > 3)
      BY <3>1, <3>3, SMT
    <3> QED
      BY <3>2, <3>3
  <2>4. late' = late => late' \in BOOLEAN
    BY DEF Modes
  <2>5. \/ late' = late \/ (\E k \in 1..(1 + MaxStall) : Wait(k)) \/ \E here, there : LoopGoes(here, there)
    <3> HIDE DEF LoopGoes, Wait
    <3>1. CASE LoopStep
      BY <3>1, Zenon
    <3>2. CASE ~LoopStep
      BY <3>2, Zenon
    <3> QED
      BY <3>1, <3>2
  <2> QED
    BY <2>2, <2>3, <2>4, <2>5
<1>15. /\ packet_cmd' \in {"nothing", "password", "command"}
      /\ password' \in {"intact", "freed"}
  BY DEF Modes, SendCommands
<1> QED
  BY <1>1, <1>2, <1>3, <1>4, <1>5, <1>6, <1>7, <1>8, <1>9, <1>10, <1>11, <1>12, <1>13, <1>14, <1>15, <1>16,
     Zenon DEF Modes

(* Of Spec: commands and packets are what they should be, the stopwatch    *)
(* and the minutes keep their ranges, and each thread is at a position of  *)
(* its own.                                                                *)
THEOREM SessionTypeCorrect == Spec => []TypeOK
<1>1. Init => Modes /\ Minutes /\ Losses
  <2> SUFFICES ASSUME Init PROVE Modes /\ Minutes /\ Losses
    OBVIOUS
  <2>1. Modes
    BY BoundsAssumption, Zenon DEF Init, Modes, LoopStates
  <2>2. Minutes /\ Losses
    BY BoundsAssumption, MinuteAssumption DEF Init, Minutes, Losses
  <2> QED
    BY <2>1, <2>2
<1>2. Modes /\ Minutes /\ Losses /\ [Next]_vars => Modes' /\ Minutes' /\ Losses'
  BY ModesKept, MinutesKept, LossesKept
<1>3. Order /\ Hearing /\ Modes /\ Minutes /\ Losses => TypeOK
  BY Zenon DEF Order, InOrder, Hearing, Measures, Modes, Minutes, Losses, TypeOK
<1> QED
  BY <1>1, <1>2, <1>3, OrderInvariance, HearingInvariance, PTL DEF Spec
================================================================================
