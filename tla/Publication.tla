---------------------------- MODULE Publication ----------------------------
(***************************************************************************)
(* What the service promises its editors and its readers, without tables,  *)
(* rowids, leases, workers or clocks.                                      *)
(*                                                                         *)
(* A document has a history of numbered editions that only grows, and at   *)
(* most one public edition.  A promise to publish an edition is kept once  *)
(* or called off, never both; a document has one open promise at a time.   *)
(***************************************************************************)
EXTENDS Integers, Sequences

CONSTANTS Document, Payload, Promise, Nobody

VARIABLES
    history,    \* document -> its editions, numbered from 1
    public,     \* document -> number of its public edition, 0 if none
    promises    \* promise -> [doc, edition, state], or Nobody before it is made

pubVars == <<history, public, promises>>

\* The numbers of the editions of d; none before d exists.
Editions(d) == DOMAIN history[d]

Open(p) == promises[p] # Nobody /\ promises[p].state = "open"

PubInit ==
    /\ history = [d \in Document |-> << >>]
    /\ public = [d \in Document |-> 0]
    /\ promises = [p \in Promise |-> Nobody]

\* A new edition gets the next number.  It does not become public.
Write(d, text) ==
    /\ history' = [history EXCEPT ![d] = Append(history[d], text)]
    /\ UNCHANGED <<public, promises>>

\* Somebody makes an edition public at once.
Release(d, n) ==
    /\ n \in Editions(d)
    /\ public' = [public EXCEPT ![d] = n]
    /\ UNCHANGED <<history, promises>>

Withdraw(d) ==
    /\ public[d] # 0
    /\ public' = [public EXCEPT ![d] = 0]
    /\ UNCHANGED <<history, promises>>

MakePromise(p, d, n) ==
    /\ promises[p] = Nobody
    /\ n \in Editions(d)
    /\ \A q \in Promise : Open(q) => promises[q].doc # d
    /\ promises' = [promises EXCEPT ![p] =
            [doc |-> d, edition |-> n, state |-> "open"]]
    /\ UNCHANGED <<history, public>>

CallOff(p) ==
    /\ Open(p)
    /\ promises' = [promises EXCEPT ![p].state = "off"]
    /\ UNCHANGED <<history, public>>

\* The promise is kept in the very step that makes its edition public.
Keep(p) ==
    /\ Open(p)
    /\ promises' = [promises EXCEPT ![p].state = "kept"]
    /\ public' = [public EXCEPT ![promises[p].doc] = promises[p].edition]
    /\ UNCHANGED history

PubNext ==
    \/ \E d \in Document, text \in Payload : Write(d, text)
    \/ \E d \in Document : \E n \in Editions(d) : Release(d, n)
    \/ \E d \in Document : Withdraw(d)
    \/ \E p \in Promise, d \in Document : \E n \in Editions(d) : MakePromise(p, d, n)
    \/ \E p \in Promise : CallOff(p)
    \/ \E p \in Promise : Keep(p)

PubSpec == PubInit /\ [][PubNext]_pubVars

=============================================================================
