----------------------------- MODULE MessageLog -----------------------------
(***************************************************************************)
(* What the write path promises: per chat an append-only log whose entries *)
(* are numbered without gaps, in which every operation of a device occurs  *)
(* at most once, and receipts that are given only for entries of the log.  *)
(***************************************************************************)
EXTENDS Integers

CONSTANT NoMessage
VARIABLES
  log,       \* set of rows [chat, seq, msg, ...]
  receipts   \* set of [asked, msg, seq]

Numbered(rows) ==
  \A r, s \in rows : (r.chat = s.chat /\ r.seq = s.seq) => r = s

Dense(rows) ==
  \A r \in rows : \A n \in 1..r.seq : \E s \in rows : s.chat = r.chat /\ s.seq = n

Once(rows) ==
  \A r, s \in rows :
    (r.msg # NoMessage /\ s.msg # NoMessage /\ r.msg.dev = s.msg.dev /\ r.msg.op = s.msg.op) => r = s

Init == log = {} /\ receipts = {}

\* One transaction appends rows behind those its chats already have.
AppendRows ==
  /\ log \subseteq log' /\ log' # log
  /\ \A r \in log' \ log : \A s \in log : r.chat = s.chat => r.seq > s.seq
  /\ Numbered(log') /\ Dense(log') /\ Once(log')
  /\ UNCHANGED receipts

\* Receipts that return what was asked for, an entry of the log.
Acknowledge ==
  /\ receipts \subseteq receipts' /\ receipts' # receipts
  /\ \A a \in receipts' \ receipts :
       /\ a.msg = a.asked
       /\ \E r \in log : r.chat = a.asked.chat /\ r.seq = a.seq /\ r.msg = a.asked
  /\ UNCHANGED log

Next == AppendRows \/ Acknowledge
Spec == Init /\ [][Next]_<<log, receipts>>
=============================================================================
