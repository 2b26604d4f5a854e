----------------------------- MODULE MCExchanges -----------------------------
(* Small instances of the two exchanges, side by side: a behaviour is one    *)
(* call of a client of UBID or one exchange with a relay.                    *)
EXTENDS UbidExchange, RelayExchange

VARIABLE side   \* which of them this behaviour is about

MCInit == UbidInit /\ RelayInit /\ side \in {"ubid", "relay"}

MCNext ==
  \/ side = "ubid" /\ UbidNext /\ UNCHANGED <<relayVars, side>>
  \/ side = "relay" /\ RelayNext /\ UNCHANGED <<ubidVars, side>>

MCSpec == MCInit /\ [][MCNext]_<<ubidVars, relayVars, side>> /\ UbidFairness /\ RelayFairness

\* A caller is told of UBID's effect, and a user of a relay's receipt, only
\* what has happened there.
OutcomeIsTrue == AnswerIsTrue /\ ReceiptIsTrue

\* An exchange that has ended, well or badly, leaves no socket and no timer.
NothingOpen == SocketsClosed /\ NothingLeft

\* Every call to UBID and every exchange with a relay comes to an end.
Settles == CallSettles /\ RelaySettles
=============================================================================
