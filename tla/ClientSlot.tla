----------------------------- MODULE ClientSlot -----------------------------
(***************************************************************************)
(* What the control server promises to clients that come one after the     *)
(* other: it has one place for a client, a connection gets it at most once *)
(* and only after the previous client's session is over, and being logged  *)
(* in belongs to the client that holds the place.                          *)
(***************************************************************************)
CONSTANTS Conns, NoConn

VARIABLES
  client,       \* the connection that holds the place
  past,         \* the connections that held it before
  loggedIn      \* whether the client that holds it is logged in

slotVars == <<client, past, loggedIn>>

SlotInit == client = NoConn /\ past = {} /\ loggedIn = FALSE

Admit(c) ==
  /\ client = NoConn /\ c \notin past /\ ~loggedIn
  /\ client' = c
  /\ UNCHANGED <<past, loggedIn>>

Login ==
  /\ client # NoConn /\ loggedIn' = TRUE
  /\ UNCHANGED <<client, past>>

EndLogin ==
  /\ client # NoConn /\ loggedIn' = FALSE
  /\ UNCHANGED <<client, past>>

Leave ==
  /\ client # NoConn /\ ~loggedIn
  /\ past' = past \cup {client} /\ client' = NoConn
  /\ UNCHANGED loggedIn

SlotNext == (\E c \in Conns : Admit(c)) \/ Login \/ EndLogin \/ Leave

SlotSpec == SlotInit /\ [][SlotNext]_slotVars
=============================================================================
