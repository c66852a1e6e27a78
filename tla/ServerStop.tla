----------------------------- MODULE ServerStop -----------------------------
(***************************************************************************)
(* The server being stopped.  main() calls chat_server::stop() from the    *)
(* console thread while the other thread is still inside io_service.run(); *)
(* no lock is shared.  The io thread's handlers are the atomic actions of  *)
(* ChatServer; the console thread takes stop_all() one container at a      *)
(* time, so a handler can run between any two of its steps.                *)
(*                                                                         *)
(* Taking each std::set and std::map access as atomic, and a handler as    *)
(* one step, is the mildest reading of the data race: what goes wrong here *)
(* goes wrong without any torn access.  Walking a set whose current        *)
(* element was erased is undefined; the walk then goes on anywhere.        *)
(***************************************************************************)
EXTENDS ChatServer

VARIABLES
  console,  \* where the console thread is, see ConsoleStates
  walk,     \* users still ahead of the iterator of stop_all()
  visited,  \* users the walk has been at
  cur,      \* the user being stopped
  chans,    \* what is left of leave_all_channels' copy of channels_
  chan      \* the channel being left

svars == <<console, walk, visited, cur, chans, chan>>
allvars == <<vars, svars>>

(***************************************************************************)
(* prompt: reading std::cin.  walk: in the loop of stop_all().  leave: in  *)
(* the loop of leave_all_channels.  unjoin, expel, test, remove: inside    *)
(* chat_channel::leave, before channels_.erase, before users_.erase,       *)
(* before users_.empty() and before remove_channel.  clear: before         *)
(* channels_.clear().  join: stop() has returned, t.join().  done: joined. *)
(***************************************************************************)
ConsoleStates == {"prompt", "walk", "leave", "unjoin", "expel", "test", "remove", "clear",
                  "join", "done"}

SInit ==
  /\ Init
  /\ console = "prompt"
  /\ walk = {} /\ visited = {} /\ chans = {}
  /\ cur = null /\ chan = null

\* Fault: the accept handler does not ask is_open().
AcceptorIgnored == TRUE

AcceptorOpen == console = "prompt"

-----------------------------------------------------------------------------
(***************************************************************************)
(* The io thread.  An accept handler that finds the acceptor closed        *)
(* returns; the other handlers do not look.  The console thread holds the  *)
(* user it is stopping and its copy of channels_, so that no new object    *)
(* gets their memory.  (A channel it has left already is let go of here    *)
(* although the copy lasts until leave_all_channels returns: the console   *)
(* thread does not come back to it, and cannot tell.)                      *)
(***************************************************************************)
IoStep(u) ==
  /\ (AcceptorOpen /\ u # cur /\ Accept(u)) \/ Handler(u)
  /\ \A n \in Names : channels'[n] # channels[n] => channels'[n] \notin chans
  /\ UNCHANGED svars

-----------------------------------------------------------------------------
(***************************************************************************)
(* The console thread.                                                     *)
(***************************************************************************)

\* "/q", "/quit" or the end of std::cin; the acceptor is closed.
StopBegin ==
  /\ console = "prompt"
  /\ console' = "walk"
  /\ walk' = connections
  /\ sent' = {}
  /\ UNCHANGED <<phase, connections, name, joined, channels, users, visited, cur, chans, chan>>

\* c->stop() for the next user: leave_all_channels copies its channels_.
StopUser(u) ==
  /\ console = "walk"
  /\ u \in walk \cap connections
  /\ console' = "leave"
  /\ cur' = u
  /\ chans' = joined[u]
  /\ sent' = {}
  /\ UNCHANGED <<phase, connections, name, joined, channels, users, walk, visited, chan>>

\* Fault: channels_ itself is iterated over, not a copy.
RemainingLive == joined[cur]

\* What leave_all_channels still iterates over.
Remaining == chans

(***************************************************************************)
(* chat_channel::leave for the next channel.  What publish() writes to     *)
(* each member is posted; the members are read once.                       *)
(***************************************************************************)
LeaveNotice(c) ==
  /\ console = "leave"
  /\ c \in Remaining
  /\ sent' = Post(users[c], "left", server, chan_name(c))
  /\ chan' = c
  /\ console' = "unjoin"
  /\ UNCHANGED <<phase, connections, name, joined, channels, users, walk, visited, cur, chans>>

\* u->channels_.erase
EraseChannel ==
  /\ console = "unjoin"
  /\ joined' = [joined EXCEPT ![cur] = @ \ {chan}]
  /\ console' = "expel"
  /\ sent' = {}
  /\ UNCHANGED <<phase, connections, name, channels, users, walk, visited, cur, chans, chan>>

\* users_.erase
EraseUser ==
  /\ console = "expel"
  /\ users' = [users EXCEPT ![chan] = @ \ {cur}]
  /\ console' = "test"
  /\ sent' = {}
  /\ UNCHANGED <<phase, connections, name, joined, channels, walk, visited, cur, chans, chan>>

\* if (users_.empty())
LeaveTest ==
  /\ console = "test"
  /\ IF users[chan] = {}
     THEN console' = "remove" /\ UNCHANGED <<chans, chan>>
     ELSE console' = "leave" /\ chans' = chans \ {chan} /\ chan' = null
  /\ sent' = {}
  /\ UNCHANGED <<phase, connections, name, joined, channels, users, walk, visited, cur>>

\* remove_channel erases whatever is in the map under the channel's name.
LeaveRemove ==
  /\ console = "remove"
  /\ channels' = [channels EXCEPT ![chan_name(chan)] = null]
  /\ console' = "leave"
  /\ chans' = chans \ {chan}
  /\ chan' = null
  /\ sent' = {}
  /\ UNCHANGED <<phase, connections, name, joined, users, walk, visited, cur>>

LeaveEnd ==
  /\ console = "leave"
  /\ Remaining = {}
  /\ console' = "clear"
  /\ sent' = {}
  /\ UNCHANGED <<phase, connections, name, joined, channels, users,
                 walk, visited, cur, chans, chan>>

\* Fault: channels_.clear() is left out, as channels_ "ought to be empty here".
ClearChannelsKept ==
  /\ console = "clear"
  /\ visited' = visited \cup {cur}
  /\ walk' \in SUBSET (connections \ visited')
  /\ cur \in connections => (walk \cap connections) \ {cur} \subseteq walk'
  /\ console' = "walk"
  /\ cur' = null
  /\ sent' = {}
  /\ UNCHANGED <<phase, connections, name, joined, channels, users, chans, chan>>

(***************************************************************************)
(* channels_.clear(), ping_timer_.cancel() and ++ on the iterator.  A user *)
(* registered meanwhile may lie ahead of the iterator or behind it.  If    *)
(* cur was erased meanwhile the iterator is dangling.                      *)
(***************************************************************************)
ClearChannels ==
  /\ console = "clear"
  /\ joined' = [joined EXCEPT ![cur] = {}]
  /\ visited' = visited \cup {cur}
  /\ walk' \in SUBSET (connections \ visited')
  /\ cur \in connections => (walk \cap connections) \ {cur} \subseteq walk'
  /\ console' = "walk"
  /\ cur' = null
  /\ sent' = {}
  /\ UNCHANGED <<phase, connections, name, channels, users, chans, chan>>

\* connections_.clear() and the return from stop().
StopEnd ==
  /\ console = "walk"
  /\ walk \cap connections = {}
  /\ connections' = {}
  /\ console' = "join"
  /\ walk' = {} /\ visited' = {}
  /\ sent' = {}
  /\ UNCHANGED <<phase, name, joined, channels, users, cur, chans, chan>>

\* run() returns once no handler is outstanding; then t.join() returns.
Exit ==
  /\ console = "join"
  /\ \A u \in Users : phase[u] = "free"
  /\ console' = "done"
  /\ sent' = {}
  /\ UNCHANGED <<phase, connections, name, joined, channels, users,
                 walk, visited, cur, chans, chan>>

Terminated == console = "done" /\ UNCHANGED allvars

\* The steps stop() consists of.
StopStep ==
  \/ \E u \in Users : StopUser(u)
  \/ \E c \in Chans : LeaveNotice(c)
  \/ EraseChannel \/ EraseUser \/ LeaveTest \/ LeaveRemove \/ LeaveEnd \/ ClearChannels \/ StopEnd

SNext ==
  \/ \E u \in Users : IoStep(u)
  \/ StopBegin \/ StopStep \/ Exit \/ Terminated

(***************************************************************************)
(* The operating system runs both threads.  Nothing obliges a client to    *)
(* send or to hang up, or an operator to type /quit.                       *)
(***************************************************************************)
SSpec == SInit /\ [][SNext]_allvars /\ WF_allvars(StopStep) /\ WF_allvars(Exit)

\* A client hangs up.
HangUp(u) == (NicknameReadError(u) \/ ReadError(u)) /\ UNCHANGED svars

-----------------------------------------------------------------------------
(***************************************************************************)
(* Properties.                                                             *)
(***************************************************************************)

(***************************************************************************)
(* A /join handled while the console thread stops the user that joins may  *)
(* be halved: between the two erasures of leave it is undone in users_     *)
(* only.  channels_.clear() makes up for that, so the halves left behind   *)
(* are all of one kind: once the console thread is done with a user, and   *)
(* for every user it is not at, what is in channels_ has the user, and     *)
(* leaving it takes the user out.                                          *)
(***************************************************************************)
JoinedIsMember ==
  \A u \in Users \ {cur} : \A c \in joined[u] : u \in users[c]

(***************************************************************************)
(* stop() returns, however busy the clients keep the io thread: joining    *)
(* channels while being stopped cannot keep leave_all_channels going, as   *)
(* it iterates over a copy.                                                *)
(***************************************************************************)
StopReturns == console = "walk" ~> console = "join"

(***************************************************************************)
(* If every client hangs up at some time, a stopped server process ends:   *)
(* no accept handler re-arms itself behind the closed acceptor.            *)
(***************************************************************************)
EndsOnceClientsLeave ==
  (\A u \in Users : WF_allvars(HangUp(u))) => (console = "walk" ~> console = "done")

(***************************************************************************)
(* README.md on /quit: "Quit (stopping the server)".  The process ends     *)
(* whatever the clients do.                                                *)
(***************************************************************************)
QuitEndsServer == console = "walk" ~> console = "done"

=============================================================================
