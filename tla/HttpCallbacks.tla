---------------------------- MODULE HttpCallbacks ----------------------------
(***************************************************************************)
(* Several HttpResponses in several threads.  A parser calls back through  *)
(* functions that are static in each thread, and the constructor of a      *)
(* response sets those of its own thread: in a thread everything parsed    *)
(* goes to the response that was constructed there last.                   *)
(***************************************************************************)
EXTENDS Integers, Sequences, TLAPS

CONSTANTS Thread, HttpResponse, HttpStatus, NoResponse, MaxParses

VARIABLES
    wrapper,    \* of each thread and callback: the response it is bound to, or NoResponse
    response,   \* of each one constructed: its _status, and the messages in its _body
    given,      \* what each was given to parse, as messages [of, status]
    latest,     \* the response constructed last in each thread, or NoResponse
    disciplined \* whether each was parsed only where it was the latest

callbackVars == <<wrapper, response, given, latest, disciplined>>

Constructed == DOMAIN response

\* A function with one value more, or another.
With(f, x, v) == [y \in DOMAIN f \cup {x} |-> IF y = x THEN v ELSE f[y]]

CallbacksInit ==
    /\ wrapper = [t \in Thread |-> [onBody |-> NoResponse, onHeadersComplete |-> NoResponse]]
    /\ response = << >> /\ given = << >>
    /\ latest = [t \in Thread |-> NoResponse]
    /\ disciplined = TRUE

\* Variant: the static function keeps the first response it was given.
SetOnOnce(f, cb, r) == [f EXCEPT ![cb] = IF @ = NoResponse THEN r ELSE @]

\* setOnBody() or setOnHeadersComplete(), in thread t.
SetOn(f, cb, r) == [f EXCEPT ![cb] = r]

\* The response's constructor, in thread t; its _status is 0 at first.
Construct(t, r) ==
    /\ r \notin Constructed
    /\ response' = With(response, r, [status |-> 0, body |-> <<>>])
    /\ given' = With(given, r, <<>>)
    /\ wrapper' = [wrapper EXCEPT ![t] = SetOn(SetOn(@, "onBody", r), "onHeadersComplete", r)]
    /\ latest' = [latest EXCEPT ![t] = r]
    /\ UNCHANGED disciplined

\* r.parse() of a message of its own, in thread t: the callbacks are those of the thread, of which
\* there are some once a response was constructed in it (calling an empty function would throw).
Parse(t, r, status) ==
    /\ r \in Constructed /\ wrapper[t].onBody # NoResponse /\ wrapper[t].onHeadersComplete # NoResponse
    /\ Len(given[r]) < MaxParses
    /\ LET msg == [of |-> r, status |-> status]
           told == [response EXCEPT ![wrapper[t].onHeadersComplete].status = status]
       IN /\ response' = [told EXCEPT ![wrapper[t].onBody].body = Append(@, msg)]
          /\ given' = [given EXCEPT ![r] = Append(@, msg)]
    /\ disciplined' = (disciplined /\ latest[t] = r)
    /\ UNCHANGED <<wrapper, latest>>

CallbacksNext == \E t \in Thread, r \in HttpResponse :
    \/ Construct(t, r)
    \/ \E status \in HttpStatus : Parse(t, r, status)

CallbacksSpec == CallbacksInit /\ [][CallbacksNext]_callbackVars

-----------------------------------------------------------------------------
\* As long as each response is used only until the next one is constructed in its thread, a response
\* holds what it was given and nothing else, and the status of the last of it: what the TODOs of
\* HttpParser.h:7-8 and HttpResponse.h:7 leave of the class.
ResponsesApart ==
    disciplined =>
        \A r \in Constructed :
            /\ response[r].body = given[r]
            /\ given[r] # <<>> => response[r].status = given[r][Len(given[r])].status

-----------------------------------------------------------------------------
(* ResponsesApart, for any number of threads, of responses and of messages *)

\* Both callbacks of a thread are those of the response constructed there last.
BoundToLatest ==
    /\ latest \in [Thread -> HttpResponse \cup {NoResponse}]
    /\ wrapper = [t \in Thread |-> [onBody |-> latest[t], onHeadersComplete |-> latest[t]]]

Held == [status : HttpStatus \cup {0}, body : Seq([of : HttpResponse, status : HttpStatus])]
Given == Seq([of : HttpResponse, status : HttpStatus])

\* While the responses are used one after the other each has what it was given.
ApartInv ==
    disciplined =>
        /\ Constructed \subseteq HttpResponse
        /\ response \in [Constructed -> Held] /\ given \in [Constructed -> Given]
        /\ \A r \in Constructed :
            /\ response[r].body = given[r]
            /\ given[r] # <<>> => response[r].status = given[r][Len(given[r])].status

\* For any number of threads and of responses, a response that is parsed only until the next one is
\* constructed in its thread holds what it was given, whatever is parsed in other threads.
THEOREM StayApart == CallbacksSpec => []ResponsesApart
<1>1. CallbacksInit => BoundToLatest /\ ApartInv
  BY DEF CallbacksInit, BoundToLatest, ApartInv, Constructed
<1>2. BoundToLatest /\ ApartInv /\ [CallbacksNext]_callbackVars => BoundToLatest' /\ ApartInv'
  <2>. SUFFICES ASSUME BoundToLatest, ApartInv, [CallbacksNext]_callbackVars PROVE BoundToLatest' /\ ApartInv'
    OBVIOUS
  <2>1. ASSUME NEW t \in Thread, NEW r \in HttpResponse, Construct(t, r)
        PROVE  BoundToLatest' /\ ApartInv'
    <3>1. BoundToLatest'
      <4>1. latest' = [latest EXCEPT ![t] = r] /\ latest' \in [Thread -> HttpResponse \cup {NoResponse}]
        BY <2>1 DEF Construct, BoundToLatest
      <4>2. SetOn(SetOn(wrapper[t], "onBody", r), "onHeadersComplete", r) = [onBody |-> r, onHeadersComplete |-> r]
        BY DEF BoundToLatest, SetOn
      <4>3. wrapper' = [wrapper EXCEPT ![t] = [onBody |-> r, onHeadersComplete |-> r]]
        BY <2>1, <4>2 DEF Construct
      <4>. QED
        BY <4>1, <4>3 DEF BoundToLatest
    <3>2. ASSUME disciplined'
          PROVE  /\ Constructed' \subseteq HttpResponse
                 /\ response' \in [Constructed' -> Held] /\ given' \in [Constructed' -> Given]
                 /\ \A q \in Constructed' :
                     /\ response'[q].body = given'[q]
                     /\ given'[q] # <<>> => response'[q].status = given'[q][Len(given'[q])].status
      <4>1. disciplined
        BY <2>1, <3>2 DEF Construct
      <4>2. Constructed' = Constructed \cup {r} /\ r \notin Constructed
        BY <2>1 DEF Construct, Constructed, With
      <4>3. /\ response' = [q \in Constructed' |-> IF q = r THEN [status |-> 0, body |-> <<>>] ELSE response[q]]
            /\ given' = [q \in Constructed' |-> IF q = r THEN <<>> ELSE given[q]]
        BY <2>1, <4>1, <4>2 DEF Construct, Constructed, With, ApartInv
      <4>4. [status |-> 0, body |-> <<>>] \in Held /\ <<>> \in Given
        BY DEF Held, Given
      <4>5. response' \in [Constructed' -> Held] /\ given' \in [Constructed' -> Given]
        BY <4>1, <4>2, <4>3, <4>4 DEF ApartInv
      <4>. QED
        BY <4>1, <4>2, <4>3, <4>5 DEF ApartInv
    <3>. QED
      BY <3>1, <3>2 DEF ApartInv
  <2>2. ASSUME NEW t \in Thread, NEW r \in HttpResponse, NEW status \in HttpStatus, Parse(t, r, status)
        PROVE  BoundToLatest' /\ ApartInv'
    <3>1. BoundToLatest'
      BY <2>2 DEF Parse, BoundToLatest
    <3>2. ASSUME disciplined'
          PROVE  /\ Constructed' \subseteq HttpResponse
                 /\ response' \in [Constructed' -> Held] /\ given' \in [Constructed' -> Given]
                 /\ \A q \in Constructed' :
                     /\ response'[q].body = given'[q]
                     /\ given'[q] # <<>> => response'[q].status = given'[q][Len(given'[q])].status
      <4>1. disciplined /\ latest[t] = r /\ r \in Constructed
        BY <2>2, <3>2 DEF Parse
      <4>2. wrapper[t].onBody = r /\ wrapper[t].onHeadersComplete = r
        BY <4>1 DEF BoundToLatest
      <4>. DEFINE msg == [of |-> r, status |-> status]
                  body == Append(response[r].body, msg)
      <4>3. response \in [Constructed -> Held] /\ given \in [Constructed -> Given] /\ Constructed \subseteq HttpResponse
        BY <4>1 DEF ApartInv
      <4>4. response' = [response EXCEPT ![r] = [status |-> status, body |-> body]]
        BY <2>2, <4>1, <4>2, <4>3 DEF Parse, Held
      <4>5. given' = [given EXCEPT ![r] = Append(given[r], msg)]
        BY <2>2 DEF Parse
      <4>6. response[r].body = given[r]
        BY <4>1 DEF ApartInv
      <4>7. body = Append(given[r], msg) /\ body \in Given /\ body # <<>> /\ body[Len(body)] = msg
        <5>1. given[r] \in Given /\ msg \in [of : HttpResponse, status : HttpStatus]
          BY <4>1, <4>3
        <5>2. \A s \in Given : /\ Append(s, msg) \in Given /\ Append(s, msg) # <<>>
                               /\ Append(s, msg)[Len(Append(s, msg))] = msg
          BY <5>1 DEF Given
        <5>. QED
          BY <4>6, <5>1, <5>2
      <4>8. [status |-> status, body |-> body] \in Held
        BY <4>7 DEF Held, Given
      <4>. HIDE DEF body
      <4>9. /\ Constructed' = Constructed
            /\ response' \in [Constructed -> Held] /\ given' \in [Constructed -> Given]
        BY <4>3, <4>4, <4>5, <4>7, <4>8 DEF Constructed
      <4>10. ASSUME NEW q \in Constructed
             PROVE  /\ response'[q].body = given'[q]
                    /\ given'[q] # <<>> => response'[q].status = given'[q][Len(given'[q])].status
        <5>1. CASE q = r
          BY <4>1, <4>3, <4>4, <4>5, <4>7, <5>1
        <5>2. CASE q # r
          BY <4>1, <4>3, <4>4, <4>5, <5>2 DEF ApartInv
        <5>. QED
          BY <5>1, <5>2
      <4>. QED
        BY <4>3, <4>9, <4>10
    <3>. QED
      BY <3>1, <3>2 DEF ApartInv
  <2>3. CASE UNCHANGED callbackVars
    BY <2>3 DEF callbackVars, BoundToLatest, ApartInv, Constructed
  <2>. QED
    BY <2>1, <2>2, <2>3 DEF CallbacksNext
<1>3. ApartInv => ResponsesApart
  BY DEF ApartInv, ResponsesApart
<1>. QED
  BY <1>1, <1>2, <1>3, PTL DEF CallbacksSpec

=============================================================================
