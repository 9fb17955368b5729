------------------------------- MODULE Tunnel -------------------------------
(***************************************************************************)
(* WireGuard over WebSocket: a tunnel client (src/tunnel/client.py), the   *)
(* tunnel server (src/tunnel/ws_bridge.py), the TCP connections between     *)
(* them, one after the other, and WireGuard at both ends.                   *)
(*                                                                         *)
(* A datagram is its number on its connection.  A frame is two units of the *)
(* byte stream, and TCP hands out any number of units at a time: a read may *)
(* end inside a frame.  A step is what runs between two awaits.             *)
(***************************************************************************)
EXTENDS Integers, Sequences

CONSTANTS
  MaxConns,   \* connections there may be
  MaxFrames,  \* frames written on a connection, in each direction
  MaxFaults   \* connections that break or are refused, sockets that do not open

ASSUME TunnelAssumption ==
  /\ MaxFrames \in Nat
  /\ MaxFaults \in Nat
  /\ MaxConns \in Nat
  /\ MaxConns > MaxFaults

Conns == 1..MaxConns

VARIABLES
  at,        \* where the client's run() is
  listening, \* is the client's UDP listener open?
  opened,    \* connections opened so far; the last one is the current one
  writer,    \* the connection of the client's _writer, or 0
  buf,       \* units in the client's _buf
  session,   \* the server's protocol object for each connection, and its bridge
  up,        \* each connection's stream from client to server
  down,      \* each connection's stream from server to client
  upGot,     \* the numbers that reached the server's WireGuard
  downGot,   \* what reached the client's WireGuard; 0 is what is no datagram
  endpoint,  \* the connection whose socket the server's WireGuard answers to, or 0
  broken,    \* the connections that are cut
  faults,    \* what has gone wrong so far
  torn       \* the connections begun with something left in _buf

client == <<at, listening, opened, writer, buf, torn>>
server == <<session, up, upGot, endpoint>>
vars == <<at, listening, opened, writer, buf, session, up, down, upGot, downGot,
          endpoint, broken, faults, torn>>

(* transport is the UDP socket of the bridge, task a pending _handle_frames. *)
Session == [upgraded : BOOLEAN, bridge : {"none", "starting", "ready", "failed"},
            closed : BOOLEAN, transport : BOOLEAN, task : BOOLEAN, lost : BOOLEAN]

NewSession == [upgraded |-> FALSE, bridge |-> "none", closed |-> FALSE,
               transport |-> FALSE, task |-> FALSE, lost |-> FALSE]

Init ==
  /\ at = "connect" /\ listening = FALSE /\ opened = 0 /\ writer = 0 /\ buf = 0
  /\ session = [c \in Conns |-> NewSession]
  /\ up = [c \in Conns |-> [written |-> 0, arrived |-> 0, parsed |-> 0]]
  /\ down = [c \in Conns |-> [written |-> 0, read |-> 0]]
  /\ upGot = [c \in Conns |-> <<>>] /\ downGot = [c \in Conns |-> <<>>]
  /\ endpoint = 0 /\ broken = {} /\ faults = 0 /\ torn = {}

-----------------------------------------------------------------------------
(* The server *)

(* The request is there: the reply goes out and _start_bridge is scheduled.  *)
(* When writing the reply fails, connection_lost is ahead of it in the loop  *)
(* and finds no bridge to close.                                             *)
TryUpgrade(c) ==
  /\ c <= opened
  /\ ~session[c].upgraded
  /\ ~session[c].lost
  /\ \E fails \in BOOLEAN :
       /\ fails => c \in broken
       /\ session' = [session EXCEPT ![c].upgraded = TRUE, ![c].bridge = "starting",
                                     ![c].lost = fails]
  /\ UNCHANGED <<client, up, down, upGot, downGot, endpoint, broken, faults>>

(* A slip for TLC to find: a closed bridge still relays. *)
FromClientOpen(s) == s.bridge = "ready"

(* WsUdpBridge.from_client passes a datagram on, or drops it. *)
FromClient(s) == s.bridge = "ready" /\ ~s.closed

(* The frames m + 1, ..., n *)
Run(m, n) == [i \in 1..n - m |-> m + i]

(* Slips for TLC to find: a frame is handled before all of it is there, and  *)
(* the frames are not taken out of the buffer.                               *)
HandleEarly(c, s) ==
  /\ session' = [session EXCEPT ![c] = s]
  /\ up' = [up EXCEPT ![c].parsed = (up[c].arrived + 1) \div 2]
  /\ UNCHANGED <<upGot, endpoint>>

HandleAgain(c, s) ==
  /\ session' = [session EXCEPT ![c] = s]
  /\ upGot' = [upGot EXCEPT ![c] = @ \o Run(0, up[c].arrived \div 2)]
  /\ UNCHANGED <<up, endpoint>>

(* _handle_frames with the session become s: all whole frames leave the      *)
(* buffer.  WireGuard answers to where it was last heard from.               *)
Handle(c, s) ==
  LET whole == up[c].arrived \div 2
  IN  /\ session' = [session EXCEPT ![c] = s]
      /\ up' = [up EXCEPT ![c].parsed = whole]
      /\ IF FromClient(s) /\ up[c].parsed < whole
         THEN upGot' = [upGot EXCEPT ![c] = @ \o Run(up[c].parsed, whole)] /\ endpoint' = c
         ELSE UNCHANGED <<upGot, endpoint>>

(* create_datagram_endpoint is done; whether the connection is still there   *)
(* nobody asks.                                                              *)
Started(c) ==
  /\ session[c].bridge = "starting"
  /\ Handle(c, [session[c] EXCEPT !.bridge = "ready", !.transport = TRUE])
  /\ UNCHANGED <<client, down, downGot, broken, faults>>

(* No socket can be had: the task ends, and frames are dropped from now on. *)
StartFails(c) ==
  /\ session[c].bridge = "starting"
  /\ faults < MaxFaults
  /\ faults' = faults + 1
  /\ session' = [session EXCEPT ![c].bridge = "failed"]
  /\ UNCHANGED <<client, up, down, upGot, downGot, endpoint, broken>>

(* A slip for TLC to find: no _handle_frames is scheduled. *)
DataReceivedIdle(c) ==
  /\ ~session[c].lost
  /\ \E n \in up[c].arrived + 1 .. 2 * up[c].written :
       up' = [up EXCEPT ![c].arrived = n]
  /\ UNCHANGED <<client, session, down, upGot, downGot, endpoint, broken, faults>>

DataReceived(c) ==
  /\ ~session[c].lost
  /\ \E n \in up[c].arrived + 1 .. 2 * up[c].written :
       up' = [up EXCEPT ![c].arrived = n]
  /\ session' = [session EXCEPT ![c].task = TRUE]
  /\ UNCHANGED <<client, down, upGot, downGot, endpoint, broken, faults>>

HandleFrames(c) ==
  /\ session[c].task
  /\ Handle(c, [session[c] EXCEPT !.task = FALSE])
  /\ UNCHANGED <<client, down, downGot, broken, faults>>

(* A slip for TLC to find: the bridge is marked closed and keeps its socket. *)
LoseKeepsSocket(s) == [s EXCEPT !.lost = TRUE, !.closed = (s.bridge # "none")]

(* connection_lost, with close() of the bridge if there is one yet. *)
Lose(s) ==
  [s EXCEPT !.lost = TRUE, !.closed = (s.bridge # "none"), !.transport = FALSE]

ConnectionLost(c) ==
  /\ c \in broken
  /\ ~session[c].lost
  /\ session' = [session EXCEPT ![c] = Lose(@)]
  /\ UNCHANGED <<client, up, down, upGot, downGot, endpoint, broken, faults>>

(* WireGuard's datagram reaches the socket it answers to, and from_wg writes *)
(* it as a frame.                                                            *)
FromWg(c) ==
  /\ endpoint = c
  /\ session[c].transport
  /\ ~session[c].closed
  /\ c \notin broken
  /\ down[c].written < MaxFrames
  /\ down' = [down EXCEPT ![c].written = @ + 1]
  /\ UNCHANGED <<client, server, downGot, broken, faults>>

-----------------------------------------------------------------------------
(* The client *)

(* open_connection succeeds, and the request is written.  _buf is not emptied. *)
Connect ==
  /\ at = "connect"
  /\ opened < MaxConns
  /\ at' = "handshake"
  /\ opened' = opened + 1
  /\ torn' = IF buf > 0 THEN torn \cup {opened'} ELSE torn
  /\ UNCHANGED <<listening, writer, buf, server, down, downGot, broken, faults>>

Refused ==
  /\ at = "connect"
  /\ faults < MaxFaults
  /\ faults' = faults + 1
  /\ at' = "backoff"
  /\ UNCHANGED <<listening, opened, writer, buf, torn, server, down, downGot, broken>>

Answered(c) == session[c].upgraded /\ (session[c].lost => session[c].closed)

(* The reply is read: _reader and _writer change over, and the UDP listener  *)
(* is opened if there is none yet.                                           *)
Upgraded ==
  /\ at = "handshake"
  /\ Answered(opened)
  /\ at' = "serve"
  /\ writer' = opened
  /\ listening' = TRUE
  /\ UNCHANGED <<opened, buf, torn, server, down, downGot, broken, faults>>

(* The same, but the listener cannot be opened: run() waits and starts again, *)
(* and the connection stays open with nobody to read it.                     *)
ListenFails ==
  /\ at = "handshake"
  /\ Answered(opened)
  /\ ~listening
  /\ faults < MaxFaults
  /\ faults' = faults + 1
  /\ at' = "backoff"
  /\ writer' = opened
  /\ UNCHANGED <<listening, opened, buf, torn, server, down, downGot, broken>>

(* A slip for TLC to find: the exception ends run(). *)
HandshakeEnds ==
  /\ at = "handshake"
  /\ opened \in broken
  /\ at' = "stopped"
  /\ UNCHANGED <<listening, opened, writer, buf, torn, server, down, downGot, broken, faults>>

HandshakeFails ==
  /\ at = "handshake"
  /\ opened \in broken
  /\ at' = "backoff"
  /\ UNCHANGED <<listening, opened, writer, buf, torn, server, down, downGot, broken, faults>>

(* send_to_server, which also learns the _peer that datagrams go back to.    *)
(* What is written to a connection that is cut is lost.                      *)
Send ==
  /\ listening
  /\ writer \notin broken
  /\ up[writer].written < MaxFrames
  /\ up' = [up EXCEPT ![writer].written = @ + 1]
  /\ UNCHANGED <<client, session, upGot, endpoint, down, downGot, broken, faults>>

(* With read units of the connection taken in and rest of all units still in *)
(* the buffer, does the buffer begin where a frame of the connection begins? *)
InStep(read, rest) == rest <= read /\ (read - rest) % 2 = 0

(* A slip for TLC to find: what is left of a chunk is thrown away. *)
ReadForgets ==
  /\ at = "serve"
  /\ \E read \in down[opened].read + 1 .. 2 * down[opened].written :
       LET full == buf + read - down[opened].read
       IN  \E rest \in IF InStep(down[opened].read, buf) THEN {full} ELSE 0..full :
             LET whole == IF InStep(read, rest)
                          THEN Run((read - rest) \div 2, read \div 2)
                          ELSE <<>>
             IN  /\ buf' = 0
                 /\ \E noise \in IF rest < full THEN {<<>>, <<0>>} ELSE {<<>>} :
                      downGot' = [downGot EXCEPT ![opened] = @ \o noise \o whole]
       /\ down' = [down EXCEPT ![opened].read = read]
  /\ UNCHANGED <<at, listening, opened, writer, torn, server, broken, faults>>

(* A chunk is read and _parse_server_frame called until it finds nothing.    *)
(* In step it takes the whole frames.  Out of step lengths and payloads are  *)
(* arbitrary: it takes any part of the buffer for frames, hands WireGuard    *)
(* what it finds in them unless that is empty, and may be in step after it.  *)
Read ==
  /\ at = "serve"
  /\ \E read \in down[opened].read + 1 .. 2 * down[opened].written :
       LET full == buf + read - down[opened].read
       IN  \E rest \in IF InStep(down[opened].read, buf) THEN {full} ELSE 0..full :
             LET whole == IF InStep(read, rest)
                          THEN Run((read - rest) \div 2, read \div 2)
                          ELSE <<>>
             IN  /\ buf' = IF InStep(read, rest) THEN rest % 2 ELSE rest
                 /\ \E noise \in IF rest < full THEN {<<>>, <<0>>} ELSE {<<>>} :
                      downGot' = [downGot EXCEPT ![opened] = @ \o noise \o whole]
       /\ down' = [down EXCEPT ![opened].read = read]
  /\ UNCHANGED <<at, listening, opened, writer, torn, server, broken, faults>>

(* read() returns nothing, and run() connects at once; or it raises, and     *)
(* run() waits.  _buf stays as it is.                                        *)
Gone ==
  /\ at = "serve"
  /\ opened \in broken
  /\ at' \in {"connect", "backoff"}
  /\ UNCHANGED <<listening, opened, writer, buf, torn, server, down, downGot, broken, faults>>

(* asyncio.sleep(RECONNECT_S) is over. *)
Retry ==
  /\ at = "backoff"
  /\ at' = "connect"
  /\ UNCHANGED <<listening, opened, writer, buf, torn, server, down, downGot, broken, faults>>

-----------------------------------------------------------------------------

(* The current connection is cut, by either end or between them. *)
Break ==
  /\ at \in {"handshake", "serve"}
  /\ opened \notin broken
  /\ faults < MaxFaults
  /\ faults' = faults + 1
  /\ broken' = broken \cup {opened}
  /\ UNCHANGED <<client, server, down, downGot>>

(* A connection that ListenFails left behind is closed at some time, with its *)
(* StreamWriter or by the network.                                           *)
Dropped ==
  /\ \E c \in (1..opened) \ broken :
       /\ c < opened \/ at \in {"connect", "backoff"}
       /\ broken' = broken \cup {c}
  /\ UNCHANGED <<client, server, down, downGot, faults>>

Starting(c) == Started(c) \/ StartFails(c)
Connecting == Connect \/ Refused
Handshaking == Upgraded \/ ListenFails \/ HandshakeFails

Next ==
  \/ \E c \in Conns : TryUpgrade(c) \/ Starting(c) \/ DataReceived(c)
                      \/ HandleFrames(c) \/ ConnectionLost(c) \/ FromWg(c)
  \/ Connecting \/ Handshaking \/ Send \/ Read \/ Gone \/ Retry
  \/ Break \/ Dropped

(* Both event loops go on, and TCP delivers while a connection lasts and     *)
(* tells both ends when it is cut.  WireGuard need not say anything.         *)
Fairness ==
  /\ \A c \in Conns :
       /\ WF_vars(TryUpgrade(c)) /\ WF_vars(Starting(c)) /\ WF_vars(DataReceived(c))
       /\ WF_vars(HandleFrames(c)) /\ WF_vars(ConnectionLost(c))
  /\ WF_vars(Connecting) /\ WF_vars(Handshaking) /\ WF_vars(Read)
  /\ WF_vars(Gone) /\ WF_vars(Retry)

Spec == Init /\ [][Next]_vars /\ Fairness

-----------------------------------------------------------------------------

(* Every variable has its type; nothing is parsed before it has arrived or   *)
(* arrives before it is written.                                             *)
TypeOK ==
  /\ at \in {"connect", "handshake", "serve", "backoff"}
  /\ opened \in 0..MaxConns /\ writer \in 0..opened /\ endpoint \in 0..opened
  /\ at \in {"handshake", "serve"} => opened > 0
  /\ listening \in BOOLEAN /\ (listening => writer > 0)
  /\ buf \in Nat
  /\ session \in [Conns -> Session]
  /\ up \in [Conns -> [written : 0..MaxFrames, arrived : Nat, parsed : Nat]]
  /\ down \in [Conns -> [written : 0..MaxFrames, read : Nat]]
  /\ \A c \in Conns :
       /\ 2 * up[c].parsed <= up[c].arrived
       /\ up[c].arrived <= 2 * up[c].written
       /\ down[c].read <= 2 * down[c].written
  /\ upGot \in [Conns -> Seq(1..MaxFrames)]
  /\ downGot \in [Conns -> Seq(0..MaxFrames)]
  /\ broken \subseteq 1..opened
  /\ faults \in 0..MaxFaults
  /\ torn \subseteq 1..opened

(* A socket that was ever used is closed with its connection.  The ones that *)
(* connection_lost misses, because they open later, never carry anything.    *)
UsedSocketsReleased ==
  \A c \in Conns : session[c].lost /\ session[c].transport => upGot[c] = <<>>

(* A connection hands the client's WireGuard only datagrams the server's one *)
(* sent, unless it was begun with something left in _buf: an earlier one was *)
(* given up inside a frame.                                                  *)
WholeUnlessTorn ==
  \A c \in Conns : (\E i \in 1..Len(downGot[c]) : downGot[c][i] = 0) => c \in torn

(* Frames left in the buffer or in a task when the connection goes are not   *)
(* relayed afterwards.                                                       *)
NothingAfterLoss ==
  [][\A c \in Conns : session[c].lost => upGot'[c] = upGot[c]]_vars

(* Once the bridge has its socket no whole frame lies in _buf without a       *)
(* _handle_frames to come for it, which no later chunk need set off.         *)
NothingForgotten ==
  \A c \in Conns :
    session[c].bridge = "ready" /\ 2 * (up[c].parsed + 1) <= up[c].arrived => session[c].task

(* Each direction of each connection implements the contract LossyChannel,   *)
(* whatever the chunks, the delays and the cuts.  Towards the client it may   *)
(* be spoiled from the start, by what _buf still holds; towards the server,  *)
(* whose buffer is made with the connection, never.                          *)
Channels == Conns \X {"up", "down"}
Sent == [h \in Channels |-> IF h[2] = "up" THEN up[h[1]].written ELSE down[h[1]].written]
Got == [h \in Channels |-> IF h[2] = "up" THEN upGot[h[1]] ELSE downGot[h[1]]]
Spoiled == torn \X {"down"}

Contract ==
  INSTANCE LossyChannel
  WITH Fragile <- Conns \X {"down"}, sent <- Sent, got <- Got, spoiled <- Spoiled

ChannelSpec == Contract!Spec

(* The client ends up on a connection that holds, whatever it was waiting    *)
(* for when an earlier one was cut or refused.                               *)
Reconnects == <>[](at = "serve" /\ opened \notin broken)

(* A frame still on its way when the bridge has its socket gets to WireGuard *)
(* unless the connection is cut.  Frames that come before may be dropped.    *)
FramesArrive ==
  \A c \in Conns, n \in 1..MaxFrames :
    (session[c].bridge = "ready" /\ n <= up[c].written /\ up[c].arrived < 2 * n)
      ~> ((\E i \in 1..Len(upGot[c]) : upGot[c][i] = n) \/ c \in broken)
=============================================================================
