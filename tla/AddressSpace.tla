---------------------------- MODULE AddressSpace ----------------------------
(***************************************************************************)
(* What an address allocator promises, address by address: an address is   *)
(* handed to one node at a time, it never passes from one node to another  *)
(* without being given back in between, and an address that was given back *)
(* under quarantine is neither free nor handed out again before its time.  *)
(***************************************************************************)
EXTENDS Integers

CONSTANTS
  Addrs,    \* the addresses
  Owners,   \* who can hold one
  Unused,   \* the holder of an address nobody has
  Withheld  \* the holder of an address in quarantine

VARIABLES
  holder,   \* holder[a]: an owner, Unused or Withheld
  until,    \* until[a]: when the quarantine of a held address ends, else 0
  clock

asVars == <<holder, until, clock>>

ASInit ==
  /\ holder = [a \in Addrs |-> Unused]
  /\ until = [a \in Addrs |-> 0]
  /\ clock = 0

Keeps(a) == holder'[a] = holder[a] /\ until'[a] = until[a]

\* a can be used now: it is free, or its quarantine has ended.
Available(a) == holder[a] = Unused \/ (holder[a] = Withheld /\ until[a] <= clock)

BecomesFree(a) == Available(a) /\ holder'[a] = Unused /\ until'[a] = 0

\* Expired addresses may become free and available ones may go to o.
Grant(o) ==
  /\ \A a \in Addrs :
       \/ Keeps(a)
       \/ BecomesFree(a)
       \/ Available(a) /\ holder'[a] = o /\ until'[a] = 0
  /\ clock' = clock

\* o gives addresses back, either at once or into a quarantine.
GiveBack(o) ==
  /\ \/ \A a \in Addrs :
          \/ Keeps(a)
          \/ holder[a] = o /\ holder'[a] = Unused /\ until'[a] = 0
     \/ \E a \in Addrs : \A c \in Addrs :
          \/ Keeps(c)
          \/ /\ holder[c] = o /\ holder'[c] = Withheld
             /\ until'[c] = until'[a] /\ until'[c] > clock
  /\ clock' = clock

TimePasses == clock' > clock /\ UNCHANGED <<holder, until>>

ASNext == TimePasses \/ \E o \in Owners : Grant(o) \/ GiveBack(o)

ASSpec == ASInit /\ [][ASNext]_asVars
=============================================================================
