------------------------------- MODULE RosApi -------------------------------
(***************************************************************************)
(* pkg/rosapi: the client of the ROS API.  Every operation of the API can  *)
(* be called in three ways: and waited for, for two channels, or for a     *)
(* callback and a channel.  The SDK behind it (the call itself and the     *)
(* pool of goroutines for the last two ways) and the callers are external. *)
(*                                                                         *)
(* A channel is its buffer and whether it is closed.                       *)
(***************************************************************************)
EXTENDS Integers, Sequences, FiniteSets

CONSTANTS
  Calls,
  Workers,     \* goroutines of the pool
  TaskQueue    \* the length of the pool's queue

ASSUME PoolAssumption == Workers \in Nat \ {0} /\ TaskQueue \in Nat \ {0}

VARIABLES
  client,   \* "none", "ready", or "async" with a pool
  call,     \* each call: way, op, pc, reply of ROS and what the callback got
  chan,     \* its channels: response, err and result
  read,     \* what its caller received from each: a value, or Closed
  queue     \* tasks that wait for a goroutine

vars == <<client, call, chan, read, queue>>

Nothing == "-"
Closed == "closed"
Channels == {"response", "err", "result"}
Ways == {"sync", "chan", "callback"}

(* make(chan T, 1) *)
Buffer_None == 0
Buffer == 1

NoCall == [way |-> Nothing, op |-> Nothing, pc |-> "new", reply |-> Nothing, heard |-> <<>>]
Made == [buf |-> <<>>, open |-> TRUE]

Init ==
  /\ client = "none"
  /\ call = [c \in Calls |-> NoCall]
  /\ chan = [c \in Calls |-> [ch \in Channels |-> Made]]
  /\ read = [c \in Calls |-> [ch \in Channels |-> Nothing]]
  /\ queue = <<>>

(* NewClient and its like; a caller may open the pool then or later. *)
NewClient ==
  /\ client = "none" /\ client' = "ready"
  /\ UNCHANGED <<call, chan, read, queue>>

EnableAsync ==
  /\ client = "ready" /\ client' = "async"
  /\ UNCHANGED <<call, chan, read, queue>>

(* Tasks that a goroutine took and has not ended. *)
Busy == {c \in Calls : /\ call[c].way # "sync"
                       /\ call[c].pc \in {"asking", "put", "callback", "result",
                                          "closeErr", "closeResponse", "closeResult"}}

Goes(c, pc) == call' = [call EXCEPT ![c].pc = pc]

(* A call begins.  AddAsyncTask refuses without a pool and waits while its *)
(* queue is full.                                                          *)
Call(c, op) ==
  /\ client # "none" /\ call[c].pc = "new"
  /\ \E way \in Ways :
       LET at(pc) == call' = [call EXCEPT ![c] = [@ EXCEPT !.way = way, !.op = op, !.pc = pc]]
       IN \/ way = "sync" /\ at("asking") /\ UNCHANGED queue
          \/ way # "sync" /\ client = "ready" /\ at("refused") /\ UNCHANGED queue
          \/ /\ way # "sync" /\ client = "async" /\ Len(queue) < TaskQueue
             /\ at("queued") /\ queue' = Append(queue, c)
  /\ UNCHANGED <<client, chan, read>>

CancelUpdateStack(c)       == Call(c, "CancelUpdateStack")
ContinueCreateStack(c)     == Call(c, "ContinueCreateStack")
CreateChangeSet(c)         == Call(c, "CreateChangeSet")
CreateStack(c)             == Call(c, "CreateStack")
CreateTemplate(c)          == Call(c, "CreateTemplate")
DeleteChangeSet(c)         == Call(c, "DeleteChangeSet")
DeleteStack(c)             == Call(c, "DeleteStack")
DeleteTemplate(c)          == Call(c, "DeleteTemplate")
DescribeRegions(c)         == Call(c, "DescribeRegions")
ExecuteChangeSet(c)        == Call(c, "ExecuteChangeSet")
GetChangeSet(c)            == Call(c, "GetChangeSet")
GetResourceType(c)         == Call(c, "GetResourceType")
GetResourceTypeTemplate(c) == Call(c, "GetResourceTypeTemplate")
GetStack(c)                == Call(c, "GetStack")
GetStackPolicy(c)          == Call(c, "GetStackPolicy")
GetStackResource(c)        == Call(c, "GetStackResource")
GetTemplate(c)             == Call(c, "GetTemplate")
GetTemplateEstimateCost(c) == Call(c, "GetTemplateEstimateCost")
ListChangeSets(c)          == Call(c, "ListChangeSets")
ListResourceTypes(c)       == Call(c, "ListResourceTypes")
ListStackEvents(c)         == Call(c, "ListStackEvents")
ListStackResources(c)      == Call(c, "ListStackResources")
ListStacks(c)              == Call(c, "ListStacks")
ListTagResources(c)        == Call(c, "ListTagResources")
ListTemplates(c)           == Call(c, "ListTemplates")
PreviewStack(c)            == Call(c, "PreviewStack")
SetStackPolicy(c)          == Call(c, "SetStackPolicy")
SignalResource(c)          == Call(c, "SignalResource")
TagResources(c)            == Call(c, "TagResources")
UntagResources(c)          == Call(c, "UntagResources")
UpdateStack(c)             == Call(c, "UpdateStack")
UpdateTemplate(c)          == Call(c, "UpdateTemplate")
ValidateTemplate(c)        == Call(c, "ValidateTemplate")
-----------------------------------------------------------------------------
(* A goroutine of the pool takes the next task. *)
Take ==
  /\ queue # <<>> /\ Cardinality(Busy) < Workers
  /\ Goes(Head(queue), "asking") /\ queue' = Tail(queue)
  /\ UNCHANGED <<client, chan, read>>

(* DoAction ends: with an answer, an error of ROS or a timeout. *)
Answer(c) ==
  /\ call[c].pc = "asking"
  /\ \E reply \in {"response", "error"} :
       call' = [call EXCEPT ![c] = [@ EXCEPT !.reply = reply, !.op = Nothing,
         !.pc = CASE call[c].way = "sync" -> "done"
                  [] call[c].way = "chan" -> "put"
                  [] OTHER                -> "callback"]]
  /\ UNCHANGED <<client, chan, read, queue>>

(* A sender waits while the buffer is full (without one, for a receiver,   *)
(* and nobody has to be one).                                              *)
Sends(c, ch, value) ==
  /\ Len(chan[c][ch].buf) < Buffer
  /\ chan' = [chan EXCEPT ![c][ch].buf = Append(@, value)]
  /\ UNCHANGED <<client, read, queue>>

Closes(c, ch) ==
  /\ chan' = [chan EXCEPT ![c][ch].open = FALSE]
  /\ UNCHANGED <<client, read, queue>>

(* Variant: the channels are swapped. *)
Put_Swapped(c) ==
  /\ call[c].pc = "put"
  /\ Sends(c, IF call[c].reply = "error" THEN "response" ELSE "err", call[c].reply)
  /\ Goes(c, "closeErr")

(* The task of ...WithChan; its deferred closes run last one first. *)
Put(c) ==
  /\ call[c].pc = "put"
  /\ Sends(c, IF call[c].reply = "error" THEN "err" ELSE "response", call[c].reply)
  /\ Goes(c, "closeErr")

(* Variant: both closes are of the same channel. *)
CloseErr_Response(c) ==
  /\ call[c].pc = "closeErr" /\ Closes(c, "response") /\ Goes(c, "closeResponse")

CloseErr(c) ==
  /\ call[c].pc = "closeErr" /\ Closes(c, "err") /\ Goes(c, "closeResponse")

CloseResponse(c) ==
  /\ call[c].pc = "closeResponse" /\ Closes(c, "response") /\ Goes(c, "done")

(* The task of ...WithCallback. *)
Callback(c) ==
  /\ call[c].pc = "callback"
  /\ call' = [call EXCEPT ![c].heard = Append(@, call[c].reply), ![c].pc = "result"]
  /\ UNCHANGED <<client, chan, read, queue>>

(* Variant: 0 after an error. *)
Result_Success(c) ==
  /\ call[c].pc = "result"
  /\ Sends(c, "result", IF call[c].reply = "response" THEN "1" ELSE "0")
  /\ Goes(c, "closeResult")

Result(c) ==
  /\ call[c].pc = "result" /\ Sends(c, "result", "1") /\ Goes(c, "closeResult")

CloseResult(c) ==
  /\ call[c].pc = "closeResult" /\ Closes(c, "result") /\ Goes(c, "done")

(* A task that the pool refused: the caller's own goroutine does it all,   *)
(* sends included, before it has the channels.                             *)
Refuse(c) ==
  /\ call[c].pc = "refused" /\ Buffer > 0
  /\ IF call[c].way = "chan"
     THEN /\ chan' = [chan EXCEPT ![c]["err"] = [buf |-> <<"refused">>, open |-> FALSE],
                                  ![c]["response"].open = FALSE]
          /\ Goes(c, "done")
     ELSE /\ chan' = [chan EXCEPT ![c]["result"] = [buf |-> <<"0">>, open |-> FALSE]]
          /\ call' = [call EXCEPT ![c].heard = Append(@, "refused"), ![c].pc = "done"]
  /\ UNCHANGED <<client, read, queue>>

(* A caller receives from a channel it was given, or never does. *)
Receive(c, ch) ==
  /\ call[c].pc \notin {"new", "refused"} /\ read[c][ch] = Nothing
  /\ call[c].way = (IF ch = "result" THEN "callback" ELSE "chan")
  /\ LET from == chan[c][ch] IN
       \/ /\ from.buf # <<>>
          /\ read' = [read EXCEPT ![c][ch] = Head(from.buf)]
          /\ chan' = [chan EXCEPT ![c][ch].buf = Tail(@)]
       \/ /\ from.buf = <<>> /\ ~from.open
          /\ read' = [read EXCEPT ![c][ch] = Closed]
          /\ UNCHANGED chan
  /\ UNCHANGED <<client, call, queue>>
-----------------------------------------------------------------------------
Operation(c) ==
  \/ CancelUpdateStack(c) \/ ContinueCreateStack(c) \/ CreateChangeSet(c)
  \/ CreateStack(c) \/ CreateTemplate(c) \/ DeleteChangeSet(c)
  \/ DeleteStack(c) \/ DeleteTemplate(c) \/ DescribeRegions(c)
  \/ ExecuteChangeSet(c) \/ GetChangeSet(c) \/ GetResourceType(c)
  \/ GetResourceTypeTemplate(c) \/ GetStack(c) \/ GetStackPolicy(c)
  \/ GetStackResource(c) \/ GetTemplate(c) \/ GetTemplateEstimateCost(c)
  \/ ListChangeSets(c) \/ ListResourceTypes(c) \/ ListStackEvents(c)
  \/ ListStackResources(c) \/ ListStacks(c) \/ ListTagResources(c)
  \/ ListTemplates(c) \/ PreviewStack(c) \/ SetStackPolicy(c)
  \/ SignalResource(c) \/ TagResources(c) \/ UntagResources(c)
  \/ UpdateStack(c) \/ UpdateTemplate(c) \/ ValidateTemplate(c)

Goroutine(c) ==
  \/ Answer(c) \/ Put(c) \/ CloseErr(c) \/ CloseResponse(c)
  \/ Callback(c) \/ Result(c) \/ CloseResult(c) \/ Refuse(c)

Next ==
  \/ NewClient \/ EnableAsync \/ Take
  \/ \E c \in Calls : Operation(c) \/ Goroutine(c) \/ \E ch \in Channels : Receive(c, ch)

(* Goroutines run, and the SDK ends a call by its timeouts at the latest.  *)
(* No caller has to receive, or to make its next call.                     *)
Fairness == WF_vars(Take) /\ \A c \in Calls : WF_vars(Goroutine(c))

Spec == Init /\ [][Next]_vars /\ Fairness
-----------------------------------------------------------------------------
(* Types; a task is in the queue once; and no channel is sent on or closed *)
(* when it is closed, which panics.                                        *)
TypeOK ==
  /\ client \in {"none", "ready", "async"}
  /\ \A c \in Calls : call[c].way \in Ways \cup {Nothing}
  /\ Len(queue) <= TaskQueue /\ Cardinality(Busy) <= Workers
  /\ \A c \in Calls : /\ call[c].pc \in {"put", "closeErr"} => chan[c]["err"].open
                      /\ call[c].pc \in {"put", "closeResponse"} => chan[c]["response"].open
                      /\ call[c].pc \in {"result", "closeResult"} => chan[c]["result"].open
  /\ \A c \in Calls : Cardinality({i \in DOMAIN queue : queue[i] = c})
                        = (IF call[c].pc = "queued" THEN 1 ELSE 0)

(* What one of the two channels gives decides the call, whichever a caller *)
(* (a select picks any that is ready) receives from first and however far  *)
(* the task is with closing them: a nil error means that the response is   *)
(* there to receive, a nil response that the error is, and never both.     *)
NilErrorMeansResponse ==
  \A c \in Calls :
    LET has(ch, value) == read[c][ch] = value \/ chan[c][ch].buf = <<value>>
        failed == has("err", "error") \/ has("err", "refused")
    IN /\ read[c]["err"] = Closed => has("response", "response")
       /\ read[c]["response"] = Closed => failed
       /\ ~(failed /\ has("response", "response"))

(* The channel of ...WithCallback tells the two ways in which a callback   *)
(* is called apart: 1 after the reply of ROS, 0 when nothing was sent; and *)
(* it is called once.                                                      *)
CallbackOnce ==
  \A c \in Calls :
    /\ read[c]["result"] = "1" => call[c].reply # Nothing /\ call[c].heard = <<call[c].reply>>
    /\ read[c]["result"] = "0" => call[c].reply = Nothing /\ call[c].heard = <<"refused">>
    /\ read[c]["result"] # Closed

(* A caller that never receives keeps no goroutine of the pool: every call *)
(* ends, those behind it in the queue too.                                 *)
EveryCallEnds == \A c \in Calls : call[c].pc # "new" ~> call[c].pc = "done"
=============================================================================
