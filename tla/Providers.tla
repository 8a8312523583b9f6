------------------------------ MODULE Providers ------------------------------
(***************************************************************************)
(* Market data from outside: MarketDataClient._get in the research layer,  *)
(* which waits for each of two attempts for thirty seconds, the request it *)
(* makes in the data service, which goes on after the client has given it  *)
(* up, and the providers (registry.py): Yahoo with three tries behind a    *)
(* circuit breaker per feed, news with a second source, FRED.              *)
(*                                                                         *)
(* A slot is a request that the data service can have in hand.  Caches,    *)
(* registry and files of the data service are Ingestion's; here a request  *)
(* has missed them.  The clock is the age of a feed's last failure.        *)
(***************************************************************************)
EXTENDS Integers, FiniteSets

CONSTANTS
    Clients,        \* callers of get_ohlcv, get_news, get_fundamentals and get_macro
    Slots,          \* requests of the data service
    Feeds,          \* what can be asked for (a symbol's bars, a macro series, ...)
    KindOf,         \* feed -> data type
    NewsKey,        \* whether NEWSAPI_KEY is set
    Threshold,      \* CIRCUIT_BREAKER_THRESHOLD
    ResetTimeout    \* CIRCUIT_BREAKER_RESET_TIMEOUT

Kinds == {"ohlcv", "fundamentals", "news", "macro"}
MaxAttempts == 2
MaxTries == 3

ASSUME ProvidersAssumption ==
    /\ IsFiniteSet(Slots)
    /\ KindOf \in [Feeds -> Kinds]
    /\ NewsKey \in BOOLEAN
    /\ Threshold \in Nat \ {0}
    /\ ResetTimeout \in Nat

VARIABLES
    failures,   \* feed -> count and age; a count of 0 is a key that is not in _failures
    call,       \* slot -> the request it serves
    client      \* client -> the get it is in

providersVars == <<failures, call, client>>

FreeSlot == [phase |-> "free"]
Closed == [count |-> 0, age |-> 0]
Nothing == [phase |-> "idle"]

\* get_for_data_type
ProviderOf(feed) ==
    CASE KindOf[feed] \in {"ohlcv", "fundamentals"} -> "yahoo"
      [] KindOf[feed] = "news" -> "news"
      [] OTHER -> "fred"

-----------------------------------------------------------------------------
(***************************************************************************)
(* InMemoryCircuitBreaker                                                  *)
(***************************************************************************)

Expired(feed) == failures[feed].age > ResetTimeout

\* is_open deletes an entry that is too old.
IsOpen(feed) == ~Expired(feed) /\ failures[feed].count >= Threshold
AfterIsOpen(feed) ==
    IF Expired(feed) THEN [failures EXCEPT ![feed] = Closed] ELSE failures

\* record_failure does not ask for the age: an old count goes on.
AfterFailure(feed) ==
    [failures EXCEPT ![feed] = [count |-> failures[feed].count + 1, age |-> 0]]

AfterReset(feed) == [failures EXCEPT ![feed] = Closed]

Tick ==
    /\ \E f \in Feeds : failures[f].count > 0 /\ ~Expired(f)
    /\ failures' = [f \in Feeds |->
           IF failures[f].count > 0 /\ ~Expired(f)
           THEN [failures[f] EXCEPT !.age = @ + 1] ELSE failures[f]]
    /\ UNCHANGED <<call, client>>

-----------------------------------------------------------------------------
(***************************************************************************)
(* The client                                                              *)
(***************************************************************************)

\* An attempt sends a request.
Request(c, feed, attempt) ==
    \E s \in Slots :
       /\ call[s] = FreeSlot
       /\ call' = [call EXCEPT ![s] = [phase |-> "sent", feed |-> feed]]
       /\ client' = [client EXCEPT ![c] = [phase |-> "waiting", feed |-> feed,
                                           attempt |-> attempt, slot |-> s]]

Get(c) ==
    /\ client[c] = Nothing
    /\ \E f \in Feeds : Request(c, f, 1)
    /\ UNCHANGED failures

\* A timeout; the request stays where it is.
Retry(c) ==
    /\ client[c].phase = "waiting" /\ client[c].attempt < MaxAttempts
    /\ Request(c, client[c].feed, client[c].attempt + 1)
    /\ UNCHANGED failures

\* The second timeout ends in "unreachable after 2 attempts"; an error of the connection
\* that is no timeout and no ConnectError (ReadError) is raised in the first attempt too.
GiveUp(c) ==
    /\ client[c].phase = "waiting"
    /\ client' = [client EXCEPT ![c] = Nothing]
    /\ UNCHANGED <<failures, call>>

\* The slot's answer: data, or a 503 for every exception of the pipeline.  The client
\* returns or raises in both cases; an answer to a request it gave up is dropped.
Reply(s) ==
    /\ call' = [call EXCEPT ![s] = FreeSlot]
    /\ client' = [c \in Clients |->
                     IF client[c].phase = "waiting" /\ client[c].slot = s
                     THEN Nothing ELSE client[c]]

-----------------------------------------------------------------------------
(***************************************************************************)
(* The data service                                                        *)
(***************************************************************************)

\* _check_circuit and the start of the fetch, with no await that suspends between them.
\* Mutant: the circuit is not asked.
StartUnasked(s) ==
    /\ call[s].phase = "sent" /\ ProviderOf(call[s].feed) = "yahoo"
    /\ failures' = AfterIsOpen(call[s].feed)
    /\ call' = [call EXCEPT ![s] = [phase |-> "fetching", feed |-> call[s].feed, try |-> 1]]
    /\ UNCHANGED client

Start(s) ==
    /\ call[s].phase = "sent" /\ ProviderOf(call[s].feed) = "yahoo"
    /\ ~IsOpen(call[s].feed)
    /\ failures' = AfterIsOpen(call[s].feed)
    /\ call' = [call EXCEPT ![s] = [phase |-> "fetching", feed |-> call[s].feed, try |-> 1]]
    /\ UNCHANGED client

\* download_ohlcv refuses a timeframe that Yahoo does not have once the circuit is asked:
\* no failure is counted and no count ended.
Unsupported(s) ==
    /\ call[s].phase = "sent" /\ KindOf[call[s].feed] = "ohlcv"
    /\ ~IsOpen(call[s].feed)
    /\ failures' = AfterIsOpen(call[s].feed)
    /\ Reply(s)

\* Mutant: a refusal renews the time stamp.
RefuseRenews(s) ==
    /\ call[s].phase = "sent" /\ ProviderOf(call[s].feed) = "yahoo"
    /\ IsOpen(call[s].feed)
    /\ failures' = [failures EXCEPT ![call[s].feed].age = 0]
    /\ Reply(s)

Refuse(s) ==
    /\ call[s].phase = "sent" /\ ProviderOf(call[s].feed) = "yahoo"
    /\ IsOpen(call[s].feed)
    /\ Reply(s)
    /\ UNCHANGED failures

\* tenacity tries again, whatever the exception was.
TryAgain(s) ==
    /\ call[s].phase = "fetching" /\ ProviderOf(call[s].feed) = "yahoo"
    /\ call[s].try < MaxTries
    /\ call' = [call EXCEPT ![s].try = @ + 1]
    /\ UNCHANGED <<failures, client>>

Fails(s) ==
    /\ call[s].phase = "fetching" /\ ProviderOf(call[s].feed) = "yahoo"
    /\ call[s].try = MaxTries
    /\ failures' = AfterFailure(call[s].feed)
    /\ Reply(s)

Succeeds(s) ==
    /\ call[s].phase = "fetching" /\ ProviderOf(call[s].feed) = "yahoo"
    /\ failures' = AfterReset(call[s].feed)
    /\ Reply(s)

\* download_news: NewsAPI with a key, otherwise RSS.  download_macro: FRED, which ends at
\* once without a key or for an unknown series.
StartOther(s) ==
    /\ call[s].phase = "sent" /\ ProviderOf(call[s].feed) # "yahoo"
    /\ call' = [call EXCEPT ![s] =
                   [phase |-> "fetching", feed |-> call[s].feed,
                    try |-> IF ProviderOf(call[s].feed) = "news" /\ NewsKey THEN 1 ELSE 2]]
    /\ UNCHANGED <<failures, client>>

\* NewsAPI failed or had no article.
FallBack(s) ==
    /\ call[s].phase = "fetching" /\ ProviderOf(call[s].feed) = "news" /\ call[s].try = 1
    /\ call' = [call EXCEPT ![s].try = 2]
    /\ UNCHANGED <<failures, client>>

\* Data or an exception: nothing is counted.
EndOther(s) ==
    /\ call[s].phase = "fetching" /\ ProviderOf(call[s].feed) # "yahoo"
    /\ Reply(s)
    /\ UNCHANGED failures

\* A request that never reaches the data service (ConnectError).
Lose(s) ==
    /\ call[s].phase = "sent"
    /\ call' = [call EXCEPT ![s] = FreeSlot]
    /\ client' = [c \in Clients |->
                     IF client[c].phase = "waiting" /\ client[c].slot = s
                     THEN [client[c] EXCEPT !.slot = "none"] ELSE client[c]]
    /\ UNCHANGED failures

-----------------------------------------------------------------------------
ProvidersInit ==
    /\ failures = [f \in Feeds |-> Closed]
    /\ call = [s \in Slots |-> FreeSlot]
    /\ client = [c \in Clients |-> Nothing]

ProvidersNext ==
    \/ Tick
    \/ \E c \in Clients : Get(c) \/ Retry(c) \/ GiveUp(c)
    \/ \E s \in Slots : \/ Start(s) \/ Refuse(s) \/ Unsupported(s)
                        \/ TryAgain(s) \/ Fails(s) \/ Succeeds(s)
                        \/ StartOther(s) \/ FallBack(s) \/ EndOther(s) \/ Lose(s)

ProvidersSpec == ProvidersInit /\ [][ProvidersNext]_providersVars

\* Time passes.
ProvidersFairSpec == ProvidersSpec /\ WF_providersVars(Tick)

-----------------------------------------------------------------------------
(***************************************************************************)
(* Properties                                                              *)
(***************************************************************************)

ProvidersTypeOK ==
    /\ failures \in [Feeds -> [count : Nat, age : 0 .. ResetTimeout + 1]]
    /\ call \in [Slots -> {FreeSlot} \cup [phase : {"sent"}, feed : Feeds]
                          \cup [phase : {"fetching"}, feed : Feeds, try : 1 .. MaxTries]]
    /\ client \in [Clients -> {Nothing}
                     \cup [phase : {"waiting"}, feed : Feeds, attempt : 1 .. MaxAttempts,
                           slot : Slots \cup {"none"}]]

InFlight(feed) == {s \in Slots : call[s].phase = "fetching" /\ call[s].feed = feed}

\* The circuit opens for every failure above the threshold only once: the failures that are
\* counted, and those that can still come from downloads that began while the circuit was
\* closed, stay below the threshold plus the requests the service can have in hand, those
\* its clients gave up among them.  (yahoo.py, which tests the circuit before a download
\* and counts after it)
Overshoot ==
    \A f \in Feeds :
       failures[f].count > 0 =>
          failures[f].count + Cardinality(InFlight(f)) <= Threshold - 1 + Cardinality(Slots)

\* An open circuit closes again, however many requests come in the meantime and however
\* late the downloads end that were under way.  (is_open, record_failure)
OpenCloses == \A f \in Feeds : IsOpen(f) ~> ~IsOpen(f)
=============================================================================
