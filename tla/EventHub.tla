------------------------------ MODULE EventHub ------------------------------
(***************************************************************************)
(* The WebSocket side of icn-agoranet (websocket.rs): one broadcast channel  *)
(* per organisation scope, the task that simulates events and announces each *)
(* on every enclosing scope, one send at a time, the transfer notices the    *)
(* HTTP handlers put on single channels, and the connections that forward    *)
(* what their channel carries.                                              *)
(*                                                                         *)
(* A channel is a scope path: <<>> is "global", <<f>>, <<f, c>> and          *)
(* <<f, c, m>> are a federation, a cooperative and a community in it.  The   *)
(* tokio channel keeps the last Capacity events; a receiver that has fallen  *)
(* further behind gets an error, which ends its connection.                 *)
(***************************************************************************)
EXTENDS Naturals, Sequences, FiniteSets

CONSTANTS
    Clients,
    Scopes,       \* the scope paths in use, closed under prefixes
    Capacity,     \* MAX_CHANNEL_CAPACITY
    MaxEvents

Organisations == UNION {{s[i] : i \in DOMAIN s} : s \in Scopes}

ASSUME HubAssumption ==
    /\ Scopes \subseteq Seq(Organisations)
    /\ \A s \in Scopes : Len(s) <= 3 /\ \A n \in 0..Len(s) : SubSeq(s, 1, n) \in Scopes
    /\ <<>> \in Scopes
    /\ Capacity \in Nat \ {0} /\ MaxEvents \in Nat

VARIABLES
    sent,      \* channel -> the events sent on it, oldest first
    sending,   \* the sends the simulation task has still to do: [ch, ev]
    events,    \* events made so far
    conn       \* client -> its connection

hvars == <<sent, sending, events, conn>>

Off == [on |-> FALSE, ch |-> <<>>, from |-> 0, got |-> <<>>]

HubInit ==
    /\ sent = [s \in Scopes |-> <<>>]
    /\ sending = <<>>
    /\ events = 0
    /\ conn = [c \in Clients |-> Off]

-----------------------------------------------------------------------------

\* build_channel_name: a scope that leaves out an enclosing organisation is the global one
BuildChannelName(fed, coop, comm) ==
    IF fed = <<>> \/ (coop = <<>> /\ comm # <<>>) THEN <<>>
    ELSE fed \o coop \o comm

\* broadcast_event: the channel itself, its cooperative, its federation, and the global one
BroadcastEvent(scope) ==
    CASE Len(scope) = 3 -> <<scope, SubSeq(scope, 1, 2), SubSeq(scope, 1, 1), <<>>>>
      [] Len(scope) = 2 -> <<scope, SubSeq(scope, 1, 1), <<>>>>
      [] OTHER -> <<scope, <<>>>>

\* start_simulation: a tick makes one of the simulated events for a random scope
Simulate(scope) ==
    /\ sending = <<>> /\ events < MaxEvents
    /\ events' = events + 1
    /\ sending' = [i \in DOMAIN BroadcastEvent(scope) |-> [ch |-> BroadcastEvent(scope)[i], ev |-> events']]
    /\ UNCHANGED <<sent, conn>>

\* broadcast_to_channel: one send; handlers and connections run between two of them
BroadcastToChannel ==
    /\ sending # <<>>
    /\ sent' = [sent EXCEPT ![Head(sending).ch] = Append(@, [ev |-> Head(sending).ev, by |-> "simulation"])]
    /\ sending' = Tail(sending)
    /\ UNCHANGED <<events, conn>>

\* broadcast and send_event_to_channel: the notice of a transfer; of the channels it names
\* only "federation:<id>" is one a client can subscribe to
SendEventToChannel(ch) ==
    /\ Len(ch) = 1 /\ events < MaxEvents
    /\ events' = events + 1
    /\ sent' = [sent EXCEPT ![ch] = Append(@, [ev |-> events', by |-> "handler"])]
    /\ UNCHANGED <<sending, conn>>

-----------------------------------------------------------------------------
(* A connection: websocket_connection subscribes, and sees what comes after. *)

Subscribe(c, ch) ==
    /\ ~ conn[c].on
    /\ conn' = [conn EXCEPT ![c] = [on |-> TRUE, ch |-> ch, from |-> Len(sent[ch]), got |-> <<>>]]
    /\ UNCHANGED <<sent, sending, events>>

Position(c) == conn[c].from + Len(conn[c].got)

Behind(c) == Len(sent[conn[c].ch]) - Position(c)

\* recv answers with the oldest event not yet seen, and it goes out on the socket
Forward(c) ==
    /\ conn[c].on /\ Behind(c) \in 1..Capacity
    /\ conn' = [conn EXCEPT ![c].got = Append(@, sent[conn[c].ch][Position(c) + 1])]
    /\ UNCHANGED <<sent, sending, events>>

\* mutant: the lost events are skipped and the connection goes on
LaggedSkips(c) ==
    /\ conn[c].on /\ Behind(c) > Capacity
    /\ conn' = [conn EXCEPT ![c].got = Append(@, sent[conn[c].ch][Len(sent[conn[c].ch])])]
    /\ UNCHANGED <<sent, sending, events>>

\* recv answers Lagged: the loop ends, and the connection with it
Lagged(c) ==
    /\ conn[c].on /\ Behind(c) > Capacity
    /\ conn' = [conn EXCEPT ![c] = Off]
    /\ UNCHANGED <<sent, sending, events>>

\* the client closes the connection or its socket fails
Disconnect(c) ==
    /\ conn[c].on
    /\ conn' = [conn EXCEPT ![c] = Off]
    /\ UNCHANGED <<sent, sending, events>>

-----------------------------------------------------------------------------
(* Properties. *)

HubTypeOK ==
    /\ \A s \in Scopes : Len(sent[s]) <= 2 * MaxEvents
    /\ \A c \in Clients : conn[c].ch \in Scopes /\ Position(c) <= Len(sent[conn[c].ch])

\* What a connection forwarded is, without a gap, what its channel carried since it
\* subscribed: one that falls further behind than the buffer is ended, not resumed later
\* (websocket_connection, `while let Ok(event) = rx.recv().await`).
NoGaps ==
    \A c \in Clients :
        conn[c].got = SubSeq(sent[conn[c].ch], conn[c].from + 1, Position(c))

Copies(e, ch) == Cardinality({i \in DOMAIN sent[ch] : sent[ch][i].ev = e})

Simulated(e, ch) == \E i \in DOMAIN sent[ch] : sent[ch][i] = [ev |-> e, by |-> "simulation"]

\* Once a simulated event is out, every enclosing scope of a channel that carried it has
\* carried it exactly once, except that an event of global scope is on "global" twice
\* (broadcast_event sends to the most specific channel and then to "global" again).
ReachesAncestors ==
    sending = <<>> =>
        \A ch \in Scopes \ {<<>>}, e \in 1..events :
            Simulated(e, ch) => /\ Copies(e, ch) = 1
                                /\ \A n \in 0..Len(ch) : Copies(e, SubSeq(ch, 1, n)) = 1

\* What is published reaches the scopes around it, and a connection shows its
\* channel without a gap (websocket.rs).
HubSound == HubTypeOK /\ NoGaps /\ ReachesAncestors

=============================================================================
