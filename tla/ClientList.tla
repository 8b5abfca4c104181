----------------------------- MODULE ClientList ------------------------------
(***************************************************************************)
(* The natives of a WebSocketServer that look at its connected clients     *)
(* (ws_natives_server.cpp, ws_server.cpp).  Each takes a snapshot of its   *)
(* own of the library's list, which the threads of the connections change  *)
(* in between.  The plugin goes through the list by index and sends to, or *)
(* disconnects, each client by its id.                                     *)
(*                                                                         *)
(* The library orders its list by the address of the sockets, so a new     *)
(* connection may be anywhere in it; ids are numbers that only grow.       *)
(***************************************************************************)
EXTENDS Integers, FiniteSets, Sequences, SequencesExt

CONSTANTS
  Ids,        \* of the connections that ever come
  Length(_),  \* of an id, as a string
  Cut(_, _)   \* what is left of an id in a buffer for so many characters

ASSUME ListAssumption ==
  /\ Ids \subseteq Nat
  /\ \A c \in Ids : Length(c) \in Nat
  /\ \E n \in {Length(c) : c \in Ids} : \A c \in Ids : Length(c) <= n
  /\ \A c \in Ids : \A n \in {0} \cup {Length(d) : d \in Ids} :
       Cut(c, n) \in Nat /\ (Length(c) <= n => Cut(c, n) = c)

VARIABLES
  clients,  \* getClients()
  came,     \* the connections that have come
  at,       \* where the plugin's loop is
  room,     \* characters in its buffer
  i,        \* its index
  seen,     \* for each index, the client there and the id the plugin got
  socket,   \* the client getClientById gave, 0 for none
  reached,  \* which client each call by id acted on
  arrived,  \* the connections that came during the loop
  left      \* those that went during the loop

loop == <<at, room, i, seen, socket, reached>>
vars == <<clients, came, loop, arrived, left>>

Init ==
  /\ clients = <<>>
  /\ came = {}
  /\ at = "outside"
  /\ room = 0
  /\ i = 0
  /\ seen = <<>>
  /\ socket = 0
  /\ reached = {}
  /\ arrived = {}
  /\ left = {}

-----------------------------------------------------------------------------
(* The threads of the connections. *)

Arrive(c) ==
  /\ c \notin came
  /\ \A d \in came : d < c
  /\ \E n \in 1..(Len(clients) + 1) : clients' = InsertAt(clients, n, c)
  /\ came' = came \cup {c}
  /\ arrived' = IF at = "outside" THEN arrived ELSE arrived \cup {c}
  /\ UNCHANGED <<loop, left>>

Leave(c) ==
  /\ \E n \in DOMAIN clients : clients[n] = c /\ clients' = RemoveAt(clients, n)
  /\ left' = IF at = "outside" THEN left ELSE left \cup {c}
  /\ UNCHANGED <<came, loop, arrived>>

-----------------------------------------------------------------------------
(* The plugin's loop, one native at a time. *)

(* Mutant: the first client is stepped over. *)
getClientIdsRest == IF clients = <<>> THEN <<>> ELSE Tail(clients)

(* WebSocketServer::getClientIds, in the library's order. *)
getClientIds == clients

(* The longest id now, without its terminator. *)
MaxClientIdLength ==
  CHOOSE n \in {0} \cup {Length(c) : c \in ToSet(getClientIds)} :
    \A c \in ToSet(getClientIds) : Length(c) <= n

LongestEver == CHOOSE n \in {Length(c) : c \in Ids} : \A c \in Ids : Length(c) <= n

(* The plugin's buffer is for MaxClientIdLength, or larger than any id.    *)
Begin ==
  /\ at = "outside"
  /\ at' = "count"
  /\ room' \in {MaxClientIdLength, LongestEver}
  /\ i' = 0
  /\ seen' = <<>>
  /\ reached' = {}
  /\ arrived' = {}
  /\ left' = {}
  /\ UNCHANGED <<clients, came, socket>>

(* i < ClientsCount *)
ClientsCount ==
  /\ at = "count"
  /\ at' = IF i < Len(clients) THEN "index" ELSE "outside"
  /\ UNCHANGED <<clients, came, room, i, seen, socket, reached, arrived, left>>

(* Mutant: the index taken to count from one. *)
GetClientIdByIndexFromOne ==
  /\ at = "index"
  /\ \/ /\ i >= Len(getClientIds)
        /\ at' = "count"
        /\ i' = i + 1
        /\ UNCHANGED seen
     \/ /\ i < Len(getClientIds)
        /\ at' = "call"
        /\ LET c == getClientIds[IF i = 0 THEN 1 ELSE i]
           IN seen' = Append(seen, [client |-> c, id |-> Cut(c, room)])
        /\ UNCHANGED i
  /\ UNCHANGED <<clients, came, room, socket, reached, arrived, left>>

(* Out of range: false, and the plugin goes on with the next index. *)
GetClientIdByIndex ==
  /\ at = "index"
  /\ \/ /\ i >= Len(getClientIds)
        /\ at' = "count"
        /\ i' = i + 1
        /\ UNCHANGED seen
     \/ /\ i < Len(getClientIds)
        /\ at' = "call"
        /\ LET c == getClientIds[i + 1]
           IN seen' = Append(seen, [client |-> c, id |-> Cut(c, room)])
        /\ UNCHANGED i
  /\ UNCHANGED <<clients, came, room, socket, reached, arrived, left>>

(* Mutant: the client is looked up by its place in the list. *)
getClientByPlace ==
  /\ at = "call"
  /\ at' = "act"
  /\ socket' = IF i < Len(clients) THEN clients[i + 1] ELSE 0
  /\ UNCHANGED <<clients, came, room, i, seen, reached, arrived, left>>

(* The first half of sendToClient and disconnectClient.  A socket that is  *)
(* found is kept alive to the end of the native.                           *)
getClientById ==
  /\ at = "call"
  /\ at' = "act"
  /\ socket' = IF Last(seen).id \in ToSet(clients) THEN Last(seen).id ELSE 0
  /\ UNCHANGED <<clients, came, room, i, seen, reached, arrived, left>>

(* The second half: send, or stop.  The answer is whether it was found. *)
Act ==
  /\ at = "act"
  /\ at' = "count"
  /\ i' = i + 1
  /\ reached' = IF socket = 0 THEN reached
                ELSE reached \cup {[meant |-> Last(seen).client, got |-> socket]}
  /\ socket' = 0
  /\ UNCHANGED <<clients, came, room, seen, arrived, left>>

-----------------------------------------------------------------------------
Game == Begin \/ ClientsCount \/ GetClientIdByIndex \/ getClientById \/ Act

Next == Game \/ \E c \in Ids : Arrive(c) \/ Leave(c)

Spec == Init /\ [][Next]_vars

-----------------------------------------------------------------------------
Found == {seen[n].client : n \in DOMAIN seen}

(* "Gets a client ID by index" (ws_server.inc:137): of the ids reported at *)
(* the indices of one loop no more are repetitions than clients connected  *)
(* meanwhile, which may move others up (ws_natives_server.cpp:264).        *)
RepeatsNeedArrivals == Len(seen) - Cardinality(Found) <= Cardinality(arrived)

(* "Retrieves connected clients" (ws_server.inc:174): a loop up to         *)
(* ClientsCount (ws_natives_server.cpp:201) that has come to its end has   *)
(* missed no more of the clients connected from its beginning on than      *)
(* there are clients that disconnected meanwhile, which may move others    *)
(* down.                                                                   *)
MissesNeedDepartures ==
  [][at = "count" /\ at' = "outside" =>
       Cardinality(ToSet(clients) \ (arrived \cup Found)) <= Cardinality(left)]_vars

(* SendMessageToClient and DisconnectClient act on the client whose id was *)
(* reported, or on none: ids are not places in a list that has changed     *)
(* since (ws_server.cpp:122, 132).  The one exception is a client that     *)
(* came after the plugin asked for MaxClientIdLength: its id may be longer *)
(* than all of those before, and is cut (ws_natives_server.cpp:271, 293).  *)
MistakesNeedArrivals ==
  \A r \in reached : r.got = r.meant \/ r.meant \in arrived
-----------------------------------------------------------------------------
(* Why the natives keep this: the inductive invariant.                     *)

InLoop == at # "outside"

(* The places of the list that the index has gone by. *)
Passed == IF at \in {"call", "act"} THEN i + 1 ELSE i

(* The clients seen that have moved up and will be seen again. *)
Ahead == {c \in Found : \E n \in DOMAIN clients : n > Passed /\ clients[n] = c}

(* The clients there from the beginning that have moved down, unseen. *)
Missed ==
  {c \in ToSet(clients) \ (arrived \cup Found) :
     \E n \in DOMAIN clients : n <= Passed /\ clients[n] = c}

TypeOK ==
  /\ clients \in Seq(came)
  /\ came \subseteq Ids /\ IsFiniteSet(came)
  /\ at \in {"outside", "count", "index", "call", "act"}
  /\ room \in {0} \cup {Length(c) : c \in Ids}
  /\ i \in Nat
  /\ seen \in Seq([client : came, id : Nat])
  /\ socket \in Nat
  /\ reached \subseteq [meant : came, got : Nat]
  /\ arrived \subseteq came
  /\ left \subseteq came \ ToSet(clients)

(* A connection is in the library's list once. *)
EachOnce == \A m, n \in DOMAIN clients : clients[m] = clients[n] => m = n

(* The buffer has room for the id of every client that was there when the  *)
(* plugin asked how large it must be.                                      *)
RoomForAll == InLoop => \A c \in ToSet(clients) \ arrived : Length(c) <= room

(* What the plugin got for such a client is its id.                        *)
IdsWhole ==
  /\ \A n \in DOMAIN seen :
       seen[n].client \in arrived \/ seen[n].id = seen[n].client
  /\ at \in {"call", "act"} => seen # <<>>
  /\ at = "act" => socket \in {0, Last(seen).id}

(* A client is seen again, or will be, for one that came before it.        *)
RepeatsPaid ==
  InLoop => Cardinality(Ahead) + Len(seen) <= Cardinality(Found) + Cardinality(arrived)

(* A client goes unseen for one that left before it.                       *)
MissesPaid == InLoop => Cardinality(Missed) <= Cardinality(left)

(* Whatever connects and disconnects between two calls of a loop           *)
(* (ws_natives_server.cpp:195-294), repeats, misses and mistakes have been *)
(* paid for by an arrival or a departure.                                  *)
ListInv ==
  /\ TypeOK
  /\ EachOnce
  /\ RoomForAll
  /\ IdsWhole
  /\ RepeatsPaid
  /\ MissesPaid
  /\ RepeatsNeedArrivals
  /\ MistakesNeedArrivals
=============================================================================
