---------------------------- MODULE PageRequests ----------------------------
(***************************************************************************)
(* The requests in flight of a page of the dashboard that talks to the     *)
(* server on its own: the tunnels page (TunnelEditor) and the access and   *)
(* certificates panel (TransportPanel).  What a request is and how it is   *)
(* answered differs from page to page.                                     *)
(***************************************************************************)
EXTENDS Naturals, Sequences, FiniteSets, SequencesExt

CONSTANTS None,
          MaxInFlight  \* bound: requests in flight when a new one starts

VARIABLES calls,   \* requests in flight, answered ones in the order of their answers
          behind   \* history: the page may be behind the server

Waiting == [kind |-> "wait"]   \* no answer yet
Room == Len(calls) < MaxInFlight
=============================================================================
