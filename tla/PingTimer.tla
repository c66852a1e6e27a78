----------------------------- MODULE PingTimer ------------------------------
(***************************************************************************)
(* ping_timer_ of one chat_user against the clock.  The user object, and   *)
(* with it the timer's first expiry, is made when do_accept starts to wait *)
(* for a client, which may come much later.  Every further expiry is       *)
(* counted from the last one, not from the time at which it was handled.   *)
(*                                                                         *)
(* Time is in ticks.  The io thread is prompt: a tick does not pass while  *)
(* an expired timer is not handled.                                        *)
(***************************************************************************)
EXTENDS Integers

CONSTANTS
  ping_frequency,  \* ping_frequency_s_, in ticks
  ping_retry_max,  \* ping_retry_max_
  Latency,         \* a prompt peer's pong arrives this many ticks after a ping, or sooner
  MaxTime          \* bound: the last tick

ASSUME TimerAssumption ==
  /\ ping_frequency \in Nat \ {0} /\ ping_retry_max \in Nat
  /\ Latency \in Nat /\ MaxTime \in Nat

VARIABLES
  now,
  user,           \* waiting for a client, on, or off (closed by the timeout)
  accepted,       \* when the client came
  expires_at,     \* the timer's expiry
  pong_received,  \* pong_received_
  retries,        \* current_ping_retries_
  prompt,         \* the peer answers every ping within Latency
  pinged,          \* when the oldest ping that is not answered was sent, or -1
  heard           \* when the last pong came; before the first, when the client came

vars == <<now, user, accepted, expires_at, pong_received, retries, prompt, pinged, heard>>

retry_interval == ping_frequency \div 2

Init ==
  /\ now = 0
  /\ user = "waiting"
  /\ accepted = 0 /\ heard = 0
  /\ expires_at = ping_frequency
  /\ pong_received = FALSE
  /\ retries = 0
  /\ prompt \in BOOLEAN
  /\ pinged = -1

\* write() of a ping; a second one does not make the peer answer later.
ping == pinged' = IF pinged = -1 THEN now ELSE pinged

\* The client is accepted and named: start() sends a ping and waits.
Start ==
  /\ user = "waiting"
  /\ user' = "on"
  /\ accepted' = now /\ heard' = now
  /\ ping
  /\ UNCHANGED <<now, expires_at, pong_received, retries, prompt>>

\* do_read_message gets a pong.
Pong ==
  /\ user = "on" /\ pinged # -1
  /\ pong_received' = TRUE
  /\ pinged' = -1
  /\ heard' = now
  /\ UNCHANGED <<now, user, accepted, expires_at, retries, prompt>>

Expired == user = "on" /\ expires_at <= now

\* Fault: pong_received_ is not reset.
AnsweredForever ==
  /\ Expired /\ pong_received
  /\ retries' = 0
  /\ expires_at' = expires_at + ping_frequency
  /\ ping
  /\ UNCHANGED <<now, user, accepted, pong_received, prompt, heard>>

Answered ==
  /\ Expired /\ pong_received
  /\ retries' = 0
  /\ pong_received' = FALSE
  /\ expires_at' = expires_at + ping_frequency
  /\ ping
  /\ UNCHANGED <<now, user, accepted, prompt, heard>>

\* Fault: the expiry is not moved.
RetryAtOnce ==
  /\ Expired /\ ~pong_received /\ retries < ping_retry_max
  /\ retries' = retries + 1
  /\ ping
  /\ UNCHANGED <<now, user, accepted, expires_at, pong_received, prompt, heard>>

\* Fault: one more retry.
RetryOnceMore ==
  /\ Expired /\ ~pong_received /\ retries <= ping_retry_max
  /\ retries' = retries + 1
  /\ expires_at' = expires_at + retry_interval
  /\ ping
  /\ UNCHANGED <<now, user, accepted, pong_received, prompt, heard>>

Retry ==
  /\ Expired /\ ~pong_received /\ retries < ping_retry_max
  /\ retries' = retries + 1
  /\ expires_at' = expires_at + retry_interval
  /\ ping
  /\ UNCHANGED <<now, user, accepted, pong_received, prompt, heard>>

\* "Ping Timeout!": the socket is closed.
Timeout ==
  /\ Expired /\ ~pong_received /\ ~(retries < ping_retry_max)
  /\ user' = "off"
  /\ UNCHANGED <<now, accepted, expires_at, pong_received, retries, prompt, pinged, heard>>

Tick ==
  /\ now < MaxTime
  /\ ~Expired
  /\ prompt /\ user = "on" /\ pinged # -1 => now < pinged + Latency
  /\ now' = now + 1
  /\ UNCHANGED <<user, accepted, expires_at, pong_received, retries, prompt, pinged, heard>>

Next == Start \/ Pong \/ Answered \/ Retry \/ Timeout \/ Tick

Spec == Init /\ [][Next]_vars

-----------------------------------------------------------------------------
(***************************************************************************)
(* Properties.                                                             *)
(***************************************************************************)

\* When the last retry expires if no pong ever comes.
LastExpiry == ping_frequency + ping_retry_max * retry_interval

\* Times are times, retries are counted up to their limit, and no more.
TypeOK ==
  /\ now \in 0..MaxTime /\ accepted \in 0..now /\ heard \in accepted..now
  /\ user \in {"waiting", "on", "off"}
  /\ expires_at \in Nat /\ pinged \in {-1} \cup 0..now
  /\ pong_received \in BOOLEAN /\ prompt \in BOOLEAN
  /\ retries \in 0..ping_retry_max

(***************************************************************************)
(* A client that answers promptly is not timed out, provided it came       *)
(* before the retries counted from the making of the object are used up.   *)
(* (A client that comes later finds them all expired, and is disconnected  *)
(* before it can answer.)                                                  *)
(***************************************************************************)
PromptPeerKept ==
  user = "off" /\ prompt => accepted + Latency >= LastExpiry

(***************************************************************************)
(* A client that is connected was heard of not too long ago: the expiry    *)
(* that sees its pong is at most one interval later, the next one asks     *)
(* again, and then the retries run.                                        *)
(***************************************************************************)
SilenceBounded ==
  user = "on" => now <= heard + ping_frequency + LastExpiry

\* The timer keeps those that answer and ends those that do not, each within its time.
OnlySilentTimedOut == TypeOK /\ PromptPeerKept /\ SilenceBounded

=============================================================================
