---------------------------- MODULE RosApiProofs ----------------------------
(***************************************************************************)
(* The safety properties of RosApi for any number of calls, a pool of any  *)
(* size and a queue of any length.                                         *)
(***************************************************************************)
EXTENDS RosApi, FiniteSetTheorems, SequenceTheorems, TLAPS

USE PoolAssumption

Values == {Nothing, Closed, "response", "error", "refused", "0", "1"}
Replies == {"response", "error"}
PCs == {"new", "refused", "queued", "asking", "put", "callback", "result",
        "closeErr", "closeResponse", "closeResult", "done"}

Operations ==
  {"CancelUpdateStack", "ContinueCreateStack", "CreateChangeSet", "CreateStack",
   "CreateTemplate", "DeleteChangeSet", "DeleteStack", "DeleteTemplate",
   "DescribeRegions", "ExecuteChangeSet", "GetChangeSet", "GetResourceType",
   "GetResourceTypeTemplate", "GetStack", "GetStackPolicy", "GetStackResource",
   "GetTemplate", "GetTemplateEstimateCost", "ListChangeSets", "ListResourceTypes",
   "ListStackEvents", "ListStackResources", "ListStacks", "ListTagResources",
   "ListTemplates", "PreviewStack", "SetStackPolicy", "SignalResource", "TagResources",
   "UntagResources", "UpdateStack", "UpdateTemplate", "ValidateTemplate"}

CallRecords == [way : Ways \cup {Nothing}, op : Operations \cup {Nothing}, pc : PCs,
                reply : Replies \cup {Nothing}, heard : Seq(Values)]

Types ==
  /\ client \in {"none", "ready", "async"}
  /\ call \in [Calls -> CallRecords]
  /\ chan \in [Calls -> [Channels -> [buf : Seq(Values), open : BOOLEAN]]]
  /\ read \in [Calls -> [Channels -> Values]]
  /\ queue \in Seq(Calls)

(* A channel is silent, or what was sent is in it or with its caller.      *)
Silent(c, ch) ==
  /\ chan[c][ch].buf = <<>> /\ read[c][ch] \in {Nothing, Closed}
  /\ chan[c][ch].open => read[c][ch] = Nothing

Delivered(c, ch, value) ==
  \/ chan[c][ch].buf = <<value>> /\ read[c][ch] = Nothing
  \/ chan[c][ch].buf = <<>> /\ read[c][ch] = value

Unused(c, ch) == Silent(c, ch) /\ chan[c][ch].open

AllUnused(c) == Unused(c, "err") /\ Unused(c, "response") /\ Unused(c, "result")

(* A call before its answer, one of each way after it, and one the pool    *)
(* refused.                                                                *)
Asked(c) ==
  /\ \/ call[c].pc = "new" /\ call[c].way = Nothing
     \/ call[c].pc = "asking" /\ call[c].way \in Ways
     \/ call[c].pc \in {"queued", "refused"} /\ call[c].way \in {"chan", "callback"}
  /\ call[c].reply = Nothing /\ call[c].heard = <<>> /\ AllUnused(c)

Waited(c) == call[c].pc = "done" /\ call[c].way = "sync" /\ AllUnused(c)

TwoChannels(c) ==
  /\ call[c].way = "chan" /\ call[c].pc \in {"put", "closeErr", "closeResponse", "done"}
  /\ call[c].reply \in Replies /\ Unused(c, "result")
  /\ \/ call[c].pc = "put" /\ Unused(c, "err") /\ Unused(c, "response")
     \/ call[c].pc # "put" /\ call[c].reply = "response"
        /\ Delivered(c, "response", "response") /\ Silent(c, "err")
     \/ call[c].pc # "put" /\ call[c].reply = "error"
        /\ Delivered(c, "err", "error") /\ Silent(c, "response")
  /\ call[c].pc # "done" => chan[c]["response"].open
  /\ call[c].pc = "closeErr" => chan[c]["err"].open

WithCallback(c) ==
  /\ call[c].way = "callback" /\ call[c].pc \in {"callback", "result", "closeResult", "done"}
  /\ call[c].reply \in Replies /\ Unused(c, "err") /\ Unused(c, "response")
  /\ call[c].heard = (IF call[c].pc = "callback" THEN <<>> ELSE <<call[c].reply>>)
  /\ IF call[c].pc \in {"callback", "result"} THEN Unused(c, "result")
                                              ELSE Delivered(c, "result", "1")
  /\ call[c].pc = "closeResult" => chan[c]["result"].open

RefusedCall(c) ==
  /\ call[c].pc = "done" /\ call[c].reply = Nothing
  /\ \/ /\ call[c].way = "chan" /\ Unused(c, "result")
        /\ Delivered(c, "err", "refused") /\ Silent(c, "response")
     \/ /\ call[c].way = "callback" /\ Unused(c, "err") /\ Unused(c, "response")
        /\ call[c].heard = <<"refused">> /\ Delivered(c, "result", "0")

CallOK(c) == Asked(c) \/ Waited(c) \/ TwoChannels(c) \/ WithCallback(c) \/ RefusedCall(c)

(* The queue holds the calls that are queued, each once. *)
QueueOK ==
  /\ Len(queue) <= TaskQueue
  /\ \A i, j \in 1..Len(queue) : queue[i] = queue[j] => i = j
  /\ \A c \in Calls : call[c].pc = "queued" <=> \E i \in 1..Len(queue) : queue[i] = c

(* The calls that take a place in the pool: Busy, and no more than it has. *)
InPool(c) == /\ call[c].way # "sync"
             /\ call[c].pc \in {"asking", "put", "callback", "result",
                                "closeErr", "closeResponse", "closeResult"}

PoolOK == IsFiniteSet(Busy) /\ Cardinality(Busy) <= Workers

IInv == Types /\ (\A c \in Calls : CallOK(c)) /\ QueueOK /\ PoolOK
-----------------------------------------------------------------------------
(* What a step does to the calls: to c as it says, to the others nothing.  *)
OthersSame(c) ==
  \A d \in Calls \ {c} : call'[d] = call[d] /\ chan'[d] = chan[d] /\ read'[d] = read[d]

LEMMA CallsStay ==
  ASSUME NEW d \in Calls, CallOK(d),
         call'[d] = call[d], chan'[d] = chan[d], read'[d] = read[d]
  PROVE  CallOK(d)'
  BY DEF CallOK, Asked, Waited, TwoChannels, WithCallback, RefusedCall, AllUnused, Unused,
     Silent, Delivered

LEMMA CallsOK ==
  ASSUME \A d \in Calls : CallOK(d), NEW c \in Calls, OthersSame(c), CallOK(c)'
  PROVE  \A d \in Calls : CallOK(d)'
  BY CallsStay DEF OthersSame

(* A step that gives c another record. *)
LEMMA CallChanges ==
  ASSUME call \in [Calls -> CallRecords], NEW c \in Calls, NEW r \in CallRecords,
         call' = [call EXCEPT ![c] = r]
  PROVE  /\ call' \in [Calls -> CallRecords] /\ call'[c] = r
         /\ \A d \in Calls \ {c} : call'[d] = call[d]
  OBVIOUS

LEMMA GoesChanges ==
  ASSUME call \in [Calls -> CallRecords], NEW c \in Calls, NEW next \in PCs, Goes(c, next)
  PROVE  /\ call' \in [Calls -> CallRecords]
         /\ call'[c].pc = next /\ call'[c].way = call[c].way
         /\ call'[c].reply = call[c].reply /\ call'[c].heard = call[c].heard
         /\ \A d \in Calls \ {c} : call'[d] = call[d]
  <1> DEFINE r == [call[c] EXCEPT !.pc = next]
  <1>1. r \in CallRecords /\ r.pc = next /\ r.way = call[c].way /\ r.reply = call[c].reply
        /\ r.heard = call[c].heard
    BY DEF CallRecords
  <1>2. call' = [call EXCEPT ![c] = r]
    BY DEF Goes
  <1> HIDE DEF r
  <1> QED BY <1>1, <1>2, CallChanges

(* create_stack.go:23-74, and the same of every other operation. *)
LEMMA OperationIsCall ==
  ASSUME NEW c \in Calls, Operation(c)
  PROVE  \E op \in Operations : Call(c, op)
  <1> DEFINE Called == \E op \in Operations : Call(c, op)
  <1>1. \A op \in Operations : Call(c, op) => Called
    OBVIOUS
  <1> HIDE DEF Called
  <1> USE DEF Operations
  <1>2. CancelUpdateStack(c) \/ ContinueCreateStack(c) \/ CreateChangeSet(c) \/
       CreateStack(c) \/ CreateTemplate(c) \/ DeleteChangeSet(c) \/ DeleteStack(c) \/
       DeleteTemplate(c) \/ DescribeRegions(c) \/ ExecuteChangeSet(c) \/
       GetChangeSet(c)
       => Called
    BY <1>1
       DEF CancelUpdateStack, ContinueCreateStack, CreateChangeSet, CreateStack,
           CreateTemplate, DeleteChangeSet, DeleteStack, DeleteTemplate,
           DescribeRegions, ExecuteChangeSet, GetChangeSet
  <1>3. GetResourceType(c) \/ GetResourceTypeTemplate(c) \/ GetStack(c) \/
       GetStackPolicy(c) \/ GetStackResource(c) \/ GetTemplate(c) \/
       GetTemplateEstimateCost(c) \/ ListChangeSets(c) \/ ListResourceTypes(c) \/
       ListStackEvents(c) \/ ListStackResources(c)
       => Called
    BY <1>1
       DEF GetResourceType, GetResourceTypeTemplate, GetStack, GetStackPolicy,
           GetStackResource, GetTemplate, GetTemplateEstimateCost, ListChangeSets,
           ListResourceTypes, ListStackEvents, ListStackResources
  <1>4. ListStacks(c) \/ ListTagResources(c) \/ ListTemplates(c) \/
       PreviewStack(c) \/ SetStackPolicy(c) \/ SignalResource(c) \/
       TagResources(c) \/ UntagResources(c) \/ UpdateStack(c) \/ UpdateTemplate(c) \/
       ValidateTemplate(c)
       => Called
    BY <1>1
       DEF ListStacks, ListTagResources, ListTemplates, PreviewStack,
           SetStackPolicy, SignalResource, TagResources, UntagResources, UpdateStack,
           UpdateTemplate, ValidateTemplate
  <1> QED BY <1>2, <1>3, <1>4 DEF Operation, Called

(* A new call: waited for, refused, or queued. *)
LEMMA CallCalls ==
  ASSUME Types, NEW c \in Calls, CallOK(c), NEW op \in Operations, Call(c, op)
  PROVE  /\ Types' /\ OthersSame(c) /\ CallOK(c)' /\ ~InPool(c)'
         /\ call[c].pc = "new"
         /\ \/ queue' = queue /\ call'[c].pc # "queued"
            \/ /\ queue' = Append(queue, c) /\ Len(queue) < TaskQueue
               /\ call'[c].pc = "queued"
  <1>1. Asked(c) /\ call[c].pc = "new"
    BY DEF Call, CallOK, Asked, Waited, TwoChannels, WithCallback, RefusedCall
  <1> DEFINE moves(way, at) ==
        call' = [call EXCEPT ![c] = [@ EXCEPT !.way = way, !.op = op, !.pc = at]]
  <1>2. PICK way \in Ways, at \in {"asking", "refused", "queued"} :
          /\ moves(way, at)
          /\ \/ at = "asking" /\ way = "sync" /\ queue' = queue
             \/ at = "refused" /\ way # "sync" /\ queue' = queue
             \/ /\ at = "queued" /\ way # "sync" /\ Len(queue) < TaskQueue
                /\ queue' = Append(queue, c)
    BY DEF Call
  <1> HIDE DEF moves
  <1> DEFINE r == [call[c] EXCEPT !.way = way, !.op = op, !.pc = at]
  <1>3. /\ r \in CallRecords /\ r.way = way /\ r.pc = at
        /\ r.reply = Nothing /\ r.heard = <<>>
    BY <1>1 DEF Types, CallRecords, PCs, Asked
  <1>4. call' = [call EXCEPT ![c] = r]
    BY <1>2 DEF moves
  <1> HIDE DEF r
  <1>5. call' \in [Calls -> CallRecords] /\ call'[c] = r /\ \A d \in Calls \ {c} : call'[d] = call[d]
    BY <1>3, <1>4, CallChanges DEF Types
  <1>6. UNCHANGED <<client, chan, read>>
    BY DEF Call
  <1>7. \/ at = "asking" /\ way = "sync" /\ queue' = queue
        \/ at = "refused" /\ way # "sync" /\ queue' = queue
        \/ /\ at = "queued" /\ way # "sync" /\ Len(queue) < TaskQueue
           /\ queue' = Append(queue, c)
    BY <1>2
  <1>8. queue' \in Seq(Calls)
    <2>1. queue \in Seq(Calls)
      BY DEF Types
    <2>2. Append(queue, c) \in Seq(Calls)
      BY <2>1, AppendProperties
    <2> QED BY <1>7, <2>1, <2>2
  <1>9. AllUnused(c)'
    BY <1>1, <1>6 DEF Asked, AllUnused, Unused, Silent
  <1>10. Asked(c)'
    BY <1>3, <1>5, <1>7, <1>9 DEF Asked, Ways
  <1>11. ~InPool(c)'
    BY <1>3, <1>5, <1>7 DEF InPool
  <1> QED BY <1>1, <1>3, <1>5, <1>6, <1>7, <1>8, <1>10, <1>11 DEF OthersSame, Types, CallOK

(* What the step of a goroutine does: it is about one call, which is not   *)
(* in the queue and takes no place in the pool that it did not have.       *)
StepOK(c) ==
  /\ Types' /\ OthersSame(c) /\ CallOK(c)' /\ UNCHANGED <<client, queue>>
  /\ call[c].pc # "queued" /\ call'[c].pc # "queued"
  /\ InPool(c)' => InPool(c)

(* The reply of ROS (create_stack.go:25, 39, 62). *)
LEMMA AnswerCalls ==
  ASSUME Types, NEW c \in Calls, CallOK(c), Answer(c)
  PROVE  StepOK(c)
  <1>1. Asked(c) /\ call[c].way \in Ways /\ call[c].pc = "asking"
    BY DEF Answer, CallOK, Asked, Waited, TwoChannels, WithCallback, RefusedCall
  <1> DEFINE moves(reply, next) ==
        call' = [call EXCEPT ![c] = [@ EXCEPT !.reply = reply, !.op = Nothing, !.pc = next]]
  <1>2. PICK reply \in Replies, next \in {"done", "put", "callback"} :
          /\ moves(reply, next)
          /\ next = CASE call[c].way = "sync" -> "done"
                      [] call[c].way = "chan" -> "put"
                      [] OTHER                -> "callback"
    BY DEF Answer, Replies
  <1> HIDE DEF moves
  <1> DEFINE r == [call[c] EXCEPT !.reply = reply, !.op = Nothing, !.pc = next]
  <1>3. /\ r \in CallRecords /\ r.way = call[c].way /\ r.pc = next
        /\ r.reply = reply /\ r.heard = <<>>
    BY <1>1 DEF Types, CallRecords, PCs, Asked
  <1>4. call' = [call EXCEPT ![c] = r]
    BY <1>2 DEF moves
  <1> HIDE DEF r
  <1>5. call' \in [Calls -> CallRecords] /\ call'[c] = r /\ \A d \in Calls \ {c} : call'[d] = call[d]
    BY <1>3, <1>4, CallChanges DEF Types
  <1>6. UNCHANGED <<client, chan, read, queue>>
    BY DEF Answer
  <1>7. AllUnused(c)'
    BY <1>1, <1>6 DEF Asked, AllUnused, Unused, Silent
  <1>8. CallOK(c)'
    <2>1. CASE call[c].way = "sync"
      BY <1>2, <1>3, <1>5, <1>7, <2>1 DEF CallOK, Waited
    <2>2. CASE call[c].way = "chan"
      BY <1>2, <1>3, <1>5, <1>7, <2>2 DEF CallOK, TwoChannels, AllUnused, Unused
    <2>3. CASE call[c].way = "callback"
      BY <1>2, <1>3, <1>5, <1>7, <2>3 DEF CallOK, WithCallback, AllUnused
    <2> QED BY <1>1, <2>1, <2>2, <2>3 DEF Ways
  <1>9. call'[c].pc # "queued" /\ (InPool(c)' => InPool(c))
    BY <1>1, <1>3, <1>5 DEF InPool
  <1> QED BY <1>1, <1>5, <1>6, <1>8, <1>9 DEF OthersSame, Types, StepOK
-----------------------------------------------------------------------------
Chans == [buf : Seq(Values), open : BOOLEAN]

(* A step that changes one channel. *)
LEMMA ChanChanges ==
  ASSUME Types, NEW c \in Calls, NEW ch \in Channels, NEW r \in Chans,
         chan' = [chan EXCEPT ![c] = [chan[c] EXCEPT ![ch] = r]]
  PROVE  /\ chan'[c][ch] = r
         /\ \A other \in Channels \ {ch} : chan'[c][other] = chan[c][other]
         /\ \A d \in Calls \ {c} : chan'[d] = chan[d]
         /\ chan' \in [Calls -> [Channels -> Chans]]
  <1> DEFINE f == [chan[c] EXCEPT ![ch] = r]
  <1>1. chan \in [Calls -> [Channels -> Chans]]
    BY DEF Types, Chans
  <1>2. /\ f \in [Channels -> Chans] /\ f[ch] = r
        /\ \A other \in Channels \ {ch} : f[other] = chan[c][other]
    BY <1>1
  <1>3. chan' = [chan EXCEPT ![c] = f]
    OBVIOUS
  <1> HIDE DEF f
  <1> QED BY <1>1, <1>2, <1>3

LEMMA SendsChan ==
  ASSUME Types, NEW c \in Calls, NEW ch \in Channels, NEW value \in Values,
         Sends(c, ch, value)
  PROVE  /\ chan[c][ch].buf = <<>> /\ chan'[c][ch].buf = <<value>>
         /\ chan'[c][ch].open = chan[c][ch].open
         /\ \A other \in Channels \ {ch} : chan'[c][other] = chan[c][other]
         /\ \A d \in Calls \ {c} : chan'[d] = chan[d]
         /\ chan' \in [Calls -> [Channels -> Chans]]
         /\ UNCHANGED <<client, read, queue>>
  <1>1. chan[c][ch].buf \in Seq(Values) /\ Len(chan[c][ch].buf) < 1
    BY DEF Sends, Types, Buffer
  <1>2. chan[c][ch].buf = <<>>
    BY <1>1, EmptySeq, LenProperties
  <1>3. Append(chan[c][ch].buf, value) = <<value>> /\ <<value>> \in Seq(Values)
    BY <1>2
  <1> DEFINE r == [chan[c][ch] EXCEPT !.buf = <<value>>]
  <1>4. r \in Chans /\ r.buf = <<value>> /\ r.open = chan[c][ch].open
    <2>1. chan[c][ch] \in Chans
      BY DEF Types, Chans
    <2> QED BY <1>3, <2>1 DEF Chans
  <1>5. chan' = [chan EXCEPT ![c] = [chan[c] EXCEPT ![ch] = r]]
    <2>1. chan \in [Calls -> [Channels -> Chans]]
      BY DEF Types, Chans
    <2>2. chan' = [chan EXCEPT ![c][ch].buf = <<value>>]
      BY <1>3 DEF Sends
    <2> QED BY <2>1, <2>2
  <1>6. UNCHANGED <<client, read, queue>>
    BY DEF Sends
  <1> HIDE DEF r
  <1> QED BY <1>2, <1>4, <1>5, <1>6, ChanChanges

LEMMA ClosesChan ==
  ASSUME Types, NEW c \in Calls, NEW ch \in Channels, Closes(c, ch)
  PROVE  /\ chan'[c][ch].buf = chan[c][ch].buf /\ ~chan'[c][ch].open
         /\ \A other \in Channels \ {ch} : chan'[c][other] = chan[c][other]
         /\ \A d \in Calls \ {c} : chan'[d] = chan[d]
         /\ chan' \in [Calls -> [Channels -> Chans]]
         /\ UNCHANGED <<client, read, queue>>
  <1> DEFINE r == [chan[c][ch] EXCEPT !.open = FALSE]
  <1>0. chan \in [Calls -> [Channels -> Chans]]
    BY DEF Types, Chans
  <1>1. r \in Chans /\ r.buf = chan[c][ch].buf /\ ~r.open
    <2>1. chan[c][ch] \in Chans
      BY <1>0
    <2> QED BY <2>1 DEF Chans
  <1>2. chan' = [chan EXCEPT ![c] = [chan[c] EXCEPT ![ch] = r]]
    BY <1>0 DEF Closes
  <1>3. UNCHANGED <<client, read, queue>>
    BY DEF Closes
  <1> HIDE DEF r
  <1> QED BY <1>1, <1>2, <1>3, ChanChanges

(* The task of ...WithChan (create_stack.go:35-44). *)
LEMMA PutCalls ==
  ASSUME Types, NEW c \in Calls, CallOK(c), Put(c)
  PROVE  StepOK(c)
  <1>1. TwoChannels(c) /\ call[c].pc = "put"
    BY DEF Put, CallOK, Asked, Waited, TwoChannels, WithCallback, RefusedCall
  <1>2. /\ call' \in [Calls -> CallRecords]
        /\ call'[c].pc = "closeErr" /\ call'[c].way = "chan" /\ call'[c].reply = call[c].reply
        /\ \A d \in Calls \ {c} : call'[d] = call[d]
    BY <1>1, GoesChanges DEF Put, PCs, Types, TwoChannels
  <1> DEFINE ch == IF call[c].reply = "error" THEN "err" ELSE "response"
  <1>3. ch \in Channels /\ call[c].reply \in Values /\ Sends(c, ch, call[c].reply)
    BY <1>1 DEF Put, Channels, TwoChannels, Values, Replies
  <1>4. /\ chan[c][ch].buf = <<>> /\ chan'[c][ch].buf = <<call[c].reply>>
        /\ chan'[c][ch].open = chan[c][ch].open
        /\ \A other \in Channels \ {ch} : chan'[c][other] = chan[c][other]
        /\ \A d \in Calls \ {c} : chan'[d] = chan[d]
        /\ chan' \in [Calls -> [Channels -> Chans]]
        /\ UNCHANGED <<client, read, queue>>
    BY <1>3, SendsChan
  <1>5. TwoChannels(c)'
    <2>1. Unused(c, "result")'
      BY <1>1, <1>4 DEF TwoChannels, Unused, Silent, Channels
    <2>2. CASE call[c].reply = "response"
      <3>1. ch = "response" /\ chan'[c]["err"] = chan[c]["err"]
        BY <2>2, <1>4 DEF Channels
      <3> QED BY <1>1, <1>2, <1>4, <2>1, <2>2, <3>1
           DEF TwoChannels, Unused, Silent, Delivered
    <2>3. CASE call[c].reply = "error"
      <3>1. ch = "err" /\ chan'[c]["response"] = chan[c]["response"]
        BY <2>3, <1>4 DEF Channels
      <3> QED BY <1>1, <1>2, <1>4, <2>1, <2>3, <3>1
           DEF TwoChannels, Unused, Silent, Delivered
    <2> QED BY <1>1, <2>2, <2>3 DEF TwoChannels, Replies
  <1> QED BY <1>1, <1>2, <1>4, <1>5
       DEF StepOK, Types, Chans, OthersSame, CallOK, InPool, TwoChannels

LEMMA CloseCalls ==
  ASSUME Types, NEW c \in Calls, CallOK(c), CloseErr(c) \/ CloseResponse(c)
  PROVE  StepOK(c)
  <1>1. TwoChannels(c)
    BY DEF CloseErr, CloseResponse, CallOK, Asked, Waited, WithCallback, RefusedCall
  <1>2. PICK ch \in {"err", "response"}, next \in {"closeResponse", "done"} :
          /\ Closes(c, ch) /\ Goes(c, next)
          /\ \/ ch = "err" /\ call[c].pc = "closeErr" /\ next = "closeResponse"
             \/ ch = "response" /\ call[c].pc = "closeResponse" /\ next = "done"
    BY DEF CloseErr, CloseResponse
  <1>3. /\ call' \in [Calls -> CallRecords]
        /\ call'[c].pc = next /\ call'[c].way = "chan" /\ call'[c].reply = call[c].reply
        /\ \A d \in Calls \ {c} : call'[d] = call[d]
    BY <1>1, <1>2, GoesChanges DEF PCs, Types, TwoChannels
  <1>4. /\ chan'[c][ch].buf = chan[c][ch].buf /\ ~chan'[c][ch].open
        /\ \A other \in Channels \ {ch} : chan'[c][other] = chan[c][other]
        /\ \A d \in Calls \ {c} : chan'[d] = chan[d]
        /\ chan' \in [Calls -> [Channels -> Chans]]
        /\ UNCHANGED <<client, read, queue>>
    BY <1>2, ClosesChan DEF Channels
  <1>5. TwoChannels(c)'
    BY <1>1, <1>2, <1>3, <1>4 DEF TwoChannels, Unused, Silent, Delivered, Channels
  <1> QED BY <1>1, <1>2, <1>3, <1>4, <1>5
       DEF StepOK, Types, Chans, OthersSame, CallOK, InPool, TwoChannels

(* The task of ...WithCallback (create_stack.go:60-74). *)
LEMMA CallbackCalls ==
  ASSUME Types, NEW c \in Calls, CallOK(c), Callback(c)
  PROVE  StepOK(c)
  <1>1. WithCallback(c) /\ call[c].pc = "callback" /\ call[c].reply \in Values
    BY DEF Callback, CallOK, Asked, Waited, TwoChannels, WithCallback, RefusedCall,
       Values, Replies
  <1> DEFINE r == [call[c] EXCEPT !.heard = Append(@, call[c].reply), !.pc = "result"]
  <1>2. call[c] \in CallRecords
    BY DEF Types
  <1>3. Append(call[c].heard, call[c].reply) = <<call[c].reply>>
        /\ <<call[c].reply>> \in Seq(Values)
    BY <1>1 DEF WithCallback
  <1>4. /\ r \in CallRecords /\ r.way = call[c].way /\ r.pc = "result"
        /\ r.reply = call[c].reply /\ r.heard = <<call[c].reply>>
    BY <1>2, <1>3 DEF CallRecords, PCs
  <1>5. call' = [call EXCEPT ![c] = r]
    BY DEF Callback, Types
  <1> HIDE DEF r
  <1>6. call' \in [Calls -> CallRecords] /\ call'[c] = r /\ \A d \in Calls \ {c} : call'[d] = call[d]
    BY <1>4, <1>5, CallChanges DEF Types
  <1>7. UNCHANGED <<client, chan, read, queue>>
    BY DEF Callback
  <1>8. WithCallback(c)'
    BY <1>1, <1>4, <1>6, <1>7 DEF WithCallback, Unused, Silent
  <1> QED BY <1>1, <1>4, <1>6, <1>7, <1>8 DEF StepOK, Types, OthersSame, CallOK, InPool, WithCallback

LEMMA ResultCalls ==
  ASSUME Types, NEW c \in Calls, CallOK(c), Result(c)
  PROVE  StepOK(c)
  <1>1. WithCallback(c) /\ call[c].pc = "result"
    BY DEF Result, CallOK, Asked, Waited, TwoChannels, RefusedCall
  <1>2. /\ call' \in [Calls -> CallRecords]
        /\ call'[c].pc = "closeResult" /\ call'[c].way = "callback"
        /\ call'[c].reply = call[c].reply /\ call'[c].heard = call[c].heard
        /\ \A d \in Calls \ {c} : call'[d] = call[d]
    BY <1>1, GoesChanges DEF Result, PCs, Types, WithCallback
  <1>3. /\ chan'[c]["result"].buf = <<"1">> /\ chan'[c]["result"].open = chan[c]["result"].open
        /\ \A other \in Channels \ {"result"} : chan'[c][other] = chan[c][other]
        /\ \A d \in Calls \ {c} : chan'[d] = chan[d]
        /\ chan' \in [Calls -> [Channels -> Chans]]
        /\ UNCHANGED <<client, read, queue>>
    BY SendsChan DEF Result, Channels, Values
  <1>4. WithCallback(c)'
    BY <1>1, <1>2, <1>3 DEF WithCallback, Unused, Silent, Delivered, Channels
  <1> QED BY <1>1, <1>2, <1>3, <1>4
       DEF StepOK, Types, Chans, OthersSame, CallOK, InPool, WithCallback

LEMMA CloseResultCalls ==
  ASSUME Types, NEW c \in Calls, CallOK(c), CloseResult(c)
  PROVE  StepOK(c)
  <1>1. WithCallback(c) /\ call[c].pc = "closeResult"
    BY DEF CloseResult, CallOK, Asked, Waited, TwoChannels, RefusedCall
  <1>2. /\ call' \in [Calls -> CallRecords]
        /\ call'[c].pc = "done" /\ call'[c].way = "callback"
        /\ call'[c].reply = call[c].reply /\ call'[c].heard = call[c].heard
        /\ \A d \in Calls \ {c} : call'[d] = call[d]
    BY <1>1, GoesChanges DEF CloseResult, PCs, Types, WithCallback
  <1>3. /\ chan'[c]["result"].buf = chan[c]["result"].buf
        /\ \A other \in Channels \ {"result"} : chan'[c][other] = chan[c][other]
        /\ \A d \in Calls \ {c} : chan'[d] = chan[d]
        /\ chan' \in [Calls -> [Channels -> Chans]]
        /\ UNCHANGED <<client, read, queue>>
    BY ClosesChan DEF CloseResult, Channels
  <1>4. WithCallback(c)'
    BY <1>1, <1>2, <1>3 DEF WithCallback, Unused, Silent, Delivered, Channels
  <1> QED BY <1>1, <1>2, <1>3, <1>4
       DEF StepOK, Types, Chans, OthersSame, CallOK, InPool, WithCallback

(* A task the pool refused (create_stack.go:45-49, 68-72). *)
LEMMA RefuseCalls ==
  ASSUME Types, NEW c \in Calls, CallOK(c), Refuse(c)
  PROVE  StepOK(c)
  <1>1. Asked(c) /\ call[c].pc = "refused" /\ call[c].way \in {"chan", "callback"}
    BY DEF Refuse, CallOK, Asked, Waited, TwoChannels, WithCallback, RefusedCall
  <1>2. UNCHANGED <<client, read, queue>> /\ chan \in [Calls -> [Channels -> Chans]]
    BY DEF Refuse, Types, Chans
  <1>3. CASE call[c].way = "chan"
    <2>1. /\ call' \in [Calls -> CallRecords]
          /\ call'[c].pc = "done" /\ call'[c].way = "chan" /\ call'[c].reply = call[c].reply
          /\ \A d \in Calls \ {c} : call'[d] = call[d]
      BY <1>3, GoesChanges DEF Refuse, PCs, Types
    <2> DEFINE e == [buf |-> <<"refused">>, open |-> FALSE]
               o == [chan[c]["response"] EXCEPT !.open = FALSE]
               f == [[chan[c] EXCEPT !["err"] = e] EXCEPT !["response"] = o]
    <2>2. chan' = [chan EXCEPT ![c]["err"] = e, ![c]["response"].open = FALSE]
      BY <1>3 DEF Refuse
    <2>3. chan[c] \in [Channels -> Chans] /\ chan[c]["response"] \in Chans
      BY <1>2 DEF Channels
    <2>4. e \in Chans /\ e.buf = <<"refused">> /\ ~e.open
      BY DEF Chans, Values
    <2>5. o \in Chans /\ o.buf = chan[c]["response"].buf /\ ~o.open
      BY <2>3 DEF Chans
    <2>9. chan' = [chan EXCEPT ![c] = f]
      BY <2>2, <1>2 DEF Channels
    <2> HIDE DEF e, o
    <2>6. f \in [Channels -> Chans] /\ f["err"] = e /\ f["response"] = o
          /\ f["result"] = chan[c]["result"]
      BY <2>3, <2>4, <2>5 DEF Channels
    <2> HIDE DEF f
    <2>7. /\ chan' \in [Calls -> [Channels -> Chans]] /\ chan'[c] = f
          /\ \A d \in Calls \ {c} : chan'[d] = chan[d]
      BY <1>2, <2>6, <2>9
    <2>8. RefusedCall(c)'
      BY <1>1, <1>2, <2>1, <2>4, <2>5, <2>6, <2>7
         DEF Asked, AllUnused, RefusedCall, Unused, Silent, Delivered
    <2> QED BY <1>1, <1>2, <2>1, <2>7, <2>8 DEF StepOK, Types, Chans, OthersSame, CallOK, InPool
  <1>4. CASE call[c].way = "callback"
    <2> DEFINE r == [call[c] EXCEPT !.heard = Append(@, "refused"), !.pc = "done"]
               e == [buf |-> <<"0">>, open |-> FALSE]
    <2>1. call[c] \in CallRecords /\ call[c].heard = <<>>
      BY <1>1 DEF Types, Asked
    <2>2. Append(call[c].heard, "refused") = <<"refused">> /\ <<"refused">> \in Seq(Values)
      BY <2>1 DEF Values
    <2>3. /\ r \in CallRecords /\ r.way = call[c].way /\ r.pc = "done"
          /\ r.reply = call[c].reply /\ r.heard = <<"refused">>
      BY <2>1, <2>2 DEF CallRecords, PCs
    <2>4. call' = [call EXCEPT ![c] = r]
      BY <1>4 DEF Refuse, Types
    <2>5. e \in Chans /\ e.buf = <<"0">>
      BY DEF Chans, Values
    <2>6. chan' = [chan EXCEPT ![c] = [chan[c] EXCEPT !["result"] = e]]
      BY <1>2, <1>4 DEF Refuse
    <2> HIDE DEF r, e
    <2>7. /\ call' \in [Calls -> CallRecords] /\ call'[c] = r
          /\ \A d \in Calls \ {c} : call'[d] = call[d]
      BY <2>3, <2>4, CallChanges DEF Types
    <2>8. /\ chan' \in [Calls -> [Channels -> Chans]] /\ chan'[c]["result"] = e
          /\ chan'[c]["err"] = chan[c]["err"] /\ chan'[c]["response"] = chan[c]["response"]
          /\ \A d \in Calls \ {c} : chan'[d] = chan[d]
      BY <2>5, <2>6, ChanChanges DEF Channels
    <2>9. RefusedCall(c)'
      BY <1>1, <1>2, <1>4, <2>3, <2>5, <2>7, <2>8
         DEF Asked, AllUnused, RefusedCall, Unused, Silent, Delivered
    <2> QED BY <1>1, <1>2, <2>3, <2>7, <2>8, <2>9
         DEF StepOK, Types, Chans, OthersSame, CallOK, InPool
  <1> QED BY <1>1, <1>3, <1>4
-----------------------------------------------------------------------------
(* What a caller receives was sent, and is sent once. *)
LEMMA ReceiveChan ==
  ASSUME Types, NEW c \in Calls, NEW ch \in Channels, Receive(c, ch),
         \/ Silent(c, ch)
         \/ \E v \in Values \ {Nothing} : Delivered(c, ch, v)
  PROVE  /\ ~Unused(c, ch)
         /\ Silent(c, ch) => Silent(c, ch)'
         /\ \A v \in Values \ {Nothing} : Delivered(c, ch, v) => Delivered(c, ch, v)'
         /\ chan'[c][ch].open = chan[c][ch].open
         /\ \A other \in Channels \ {ch} :
              chan'[c][other] = chan[c][other] /\ read'[c][other] = read[c][other]
         /\ Types' /\ OthersSame(c) /\ UNCHANGED <<client, call, queue>>
  <1>0. /\ read[c][ch] = Nothing /\ UNCHANGED <<client, call, queue>>
        /\ chan \in [Calls -> [Channels -> Chans]] /\ read \in [Calls -> [Channels -> Values]]
    BY DEF Receive, Types, Chans
  <1>1. CASE Silent(c, ch)
    <2>1. /\ chan[c][ch].buf = <<>> /\ ~chan[c][ch].open /\ UNCHANGED chan
          /\ read' = [read EXCEPT ![c][ch] = Closed]
      BY <1>1 DEF Silent, Receive
    <2>2. /\ read' \in [Calls -> [Channels -> Values]] /\ read'[c][ch] = Closed
          /\ \A other \in Channels \ {ch} : read'[c][other] = read[c][other]
          /\ \A d \in Calls \ {c} : read'[d] = read[d]
      BY <1>0, <2>1 DEF Values
    <2>3. Types' /\ OthersSame(c)
      BY <1>0, <2>1, <2>2 DEF Types, OthersSame
    <2>4. Silent(c, ch)' /\ ~Unused(c, ch) /\ \A v \in Values \ {Nothing} : ~Delivered(c, ch, v)
      BY <1>0, <2>1, <2>2 DEF Silent, Unused, Delivered, Nothing
    <2> QED BY <1>0, <2>1, <2>2, <2>3, <2>4
  <1>2. ASSUME NEW v \in Values \ {Nothing}, Delivered(c, ch, v)
        PROVE  /\ chan[c][ch].buf = <<v>> /\ chan'[c][ch].buf = <<>> /\ read'[c][ch] = v
               /\ chan'[c][ch].open = chan[c][ch].open
               /\ \A other \in Channels \ {ch} :
                    chan'[c][other] = chan[c][other] /\ read'[c][other] = read[c][other]
               /\ Types' /\ OthersSame(c)
    <2>1. chan[c][ch].buf = <<v>>
      BY <1>0, <1>2 DEF Delivered
    <2>2. Head(<<v>>) = v /\ Tail(<<v>>) = <<>> /\ <<>> \in Seq(Values)
      OBVIOUS
    <2>3. /\ read' = [read EXCEPT ![c][ch] = Head(chan[c][ch].buf)]
          /\ chan' = [chan EXCEPT ![c][ch].buf = Tail(chan[c][ch].buf)]
      BY <2>1 DEF Receive
    <2>4. read' = [read EXCEPT ![c][ch] = v] /\ chan' = [chan EXCEPT ![c][ch].buf = <<>>]
      BY <2>1, <2>2, <2>3
    <2> DEFINE r == [chan[c][ch] EXCEPT !.buf = <<>>]
    <2>5. r \in Chans /\ r.buf = <<>> /\ r.open = chan[c][ch].open
      <3>1. chan[c][ch] \in Chans
        BY <1>0
      <3> QED BY <2>2, <3>1 DEF Chans
    <2>6. chan' = [chan EXCEPT ![c] = [chan[c] EXCEPT ![ch] = r]]
      BY <1>0, <2>4
    <2> HIDE DEF r
    <2>7. /\ chan'[c][ch] = r
          /\ \A other \in Channels \ {ch} : chan'[c][other] = chan[c][other]
          /\ \A d \in Calls \ {c} : chan'[d] = chan[d]
          /\ chan' \in [Calls -> [Channels -> Chans]]
      BY <2>5, <2>6, ChanChanges
    <2>8. /\ read' \in [Calls -> [Channels -> Values]] /\ read'[c][ch] = v
          /\ \A other \in Channels \ {ch} : read'[c][other] = read[c][other]
          /\ \A d \in Calls \ {c} : read'[d] = read[d]
      BY <1>0, <2>4
    <2>9. Types' /\ OthersSame(c)
      BY <1>0, <2>7, <2>8 DEF Types, Chans, OthersSame
    <2> QED BY <2>1, <2>5, <2>7, <2>8, <2>9
  <1>3. CASE \E v \in Values \ {Nothing} : Delivered(c, ch, v)
    <2>1. PICK v \in Values \ {Nothing} : Delivered(c, ch, v)
      BY <1>3
    <2>2. /\ chan[c][ch].buf = <<v>> /\ chan'[c][ch].buf = <<>> /\ read'[c][ch] = v
          /\ chan'[c][ch].open = chan[c][ch].open
          /\ \A other \in Channels \ {ch} :
               chan'[c][other] = chan[c][other] /\ read'[c][other] = read[c][other]
          /\ Types' /\ OthersSame(c)
      BY <1>2, <2>1
    <2>3. ~Silent(c, ch) /\ ~Unused(c, ch)
      BY <2>2 DEF Silent, Unused
    <2>4. ASSUME NEW w \in Values \ {Nothing}, Delivered(c, ch, w)
          PROVE  Delivered(c, ch, w)'
      BY <1>2, <2>4 DEF Delivered
    <2> QED BY <1>0, <2>2, <2>3, <2>4
  <1> QED BY <1>1, <1>3

LEMMA ReceiveCalls ==
  ASSUME Types, NEW c \in Calls, CallOK(c), NEW ch \in Channels, Receive(c, ch)
  PROVE  Types' /\ OthersSame(c) /\ CallOK(c)' /\ UNCHANGED <<client, call, queue>>
  <1> USE DEF Channels
  <1>0. /\ call[c].pc \notin {"new", "refused"}
        /\ call[c].way = (IF ch = "result" THEN "callback" ELSE "chan")
    BY DEF Receive
  <1>1. {"response", "error", "refused", "0", "1"} \subseteq Values \ {Nothing}
    BY DEF Values, Nothing
  <1>2. \/ Silent(c, ch)
        \/ \E v \in Values \ {Nothing} : Delivered(c, ch, v)
    BY <1>0, <1>1 DEF CallOK, Asked, Waited, TwoChannels, WithCallback, RefusedCall,
       AllUnused, Unused
  <1>3. /\ ~Unused(c, ch)
        /\ Silent(c, ch) => Silent(c, ch)'
        /\ \A v \in Values \ {Nothing} : Delivered(c, ch, v) => Delivered(c, ch, v)'
        /\ chan'[c][ch].open = chan[c][ch].open
        /\ \A other \in Channels \ {ch} :
             chan'[c][other] = chan[c][other] /\ read'[c][other] = read[c][other]
        /\ Types' /\ OthersSame(c) /\ UNCHANGED <<client, call, queue>>
    BY <1>2, ReceiveChan
  <1>4. ~Asked(c) /\ ~Waited(c)
    BY <1>0, <1>3 DEF Asked, Waited, AllUnused
  <1>5. /\ \A other \in Channels \ {ch} :
             /\ Silent(c, other) => Silent(c, other)'
             /\ Unused(c, other) => Unused(c, other)'
             /\ \A v \in Values : Delivered(c, other, v) => Delivered(c, other, v)'
    BY <1>3 DEF Silent, Unused, Delivered
  <1>6. /\ \A any \in Channels : Silent(c, any) => Silent(c, any)'
        /\ \A any \in Channels : Unused(c, any) => Unused(c, any)'
        /\ \A any \in Channels, v \in {"response", "error", "refused", "0", "1"} :
             Delivered(c, any, v) => Delivered(c, any, v)'
        /\ \A any \in Channels : chan'[c][any].open = chan[c][any].open
    BY <1>1, <1>3, <1>5
  <1>7. TwoChannels(c) => TwoChannels(c)'
    BY <1>3, <1>6 DEF TwoChannels
  <1>8. WithCallback(c) => WithCallback(c)'
    BY <1>3, <1>6 DEF WithCallback
  <1>9. RefusedCall(c) => RefusedCall(c)'
    BY <1>3, <1>6 DEF RefusedCall
  <1> QED BY <1>3, <1>4, <1>7, <1>8, <1>9 DEF CallOK
-----------------------------------------------------------------------------
(* Queue and pool, under a step that takes nothing from the queue.         *)
LEMMA QueueStays ==
  ASSUME QueueOK, NEW c \in Calls, OthersSame(c), UNCHANGED queue,
         call[c].pc = "queued" <=> call'[c].pc = "queued"
  PROVE  QueueOK'
  BY DEF QueueOK, OthersSame

LEMMA PoolStays ==
  ASSUME PoolOK, NEW c \in Calls, OthersSame(c), InPool(c)' => InPool(c)
  PROVE  PoolOK'
  <1>1. Busy = {d \in Calls : InPool(d)} /\ Busy' = {d \in Calls : InPool(d)'}
    BY DEF Busy, InPool
  <1>2. Busy' \subseteq Busy
    BY <1>1 DEF OthersSame, InPool
  <1>3. IsFiniteSet(Busy') /\ Cardinality(Busy') <= Cardinality(Busy)
    BY <1>2, FS_Subset DEF PoolOK
  <1>4. Cardinality(Busy) \in Nat /\ Cardinality(Busy') \in Nat
    BY <1>3, FS_CardinalityType DEF PoolOK
  <1> QED BY <1>3, <1>4 DEF PoolOK

LEMMA StepInv == ASSUME IInv, NEW c \in Calls, StepOK(c) PROVE IInv'
  <1>1. \A d \in Calls : CallOK(d)'
    BY CallsOK DEF IInv, StepOK
  <1>2. QueueOK'
    BY QueueStays DEF IInv, StepOK
  <1>3. PoolOK'
    BY PoolStays DEF IInv, StepOK
  <1> QED BY <1>1, <1>2, <1>3 DEF IInv, StepOK

LEMMA OperationInv == ASSUME IInv, NEW c \in Calls, Operation(c) PROVE IInv'
  <1>1. PICK op \in Operations : Call(c, op)
    BY OperationIsCall
  <1>2. /\ Types' /\ OthersSame(c) /\ CallOK(c)' /\ ~InPool(c)'
        /\ call[c].pc = "new"
        /\ \/ queue' = queue /\ call'[c].pc # "queued"
           \/ /\ queue' = Append(queue, c) /\ Len(queue) < TaskQueue
              /\ call'[c].pc = "queued"
    BY <1>1, CallCalls DEF IInv
  <1>3. \A d \in Calls : CallOK(d)'
    BY <1>2, CallsOK DEF IInv
  <1>4. PoolOK'
    BY <1>2, PoolStays DEF IInv
  <1>5. CASE queue' = queue /\ call'[c].pc # "queued"
    BY <1>2, <1>3, <1>4, <1>5, QueueStays DEF IInv
  <1>6. CASE /\ queue' = Append(queue, c) /\ Len(queue) < TaskQueue
             /\ call'[c].pc = "queued"
    <2>1. /\ queue \in Seq(Calls) /\ Len(queue) \in Nat /\ Len(queue') = Len(queue) + 1
          /\ \A i \in 1..Len(queue) : queue'[i] = queue[i]
          /\ queue'[Len(queue) + 1] = c
      BY <1>6, AppendProperties, LenProperties DEF IInv, Types
    <2>2. \A i \in 1..Len(queue) : queue[i] # c
      BY <1>2 DEF IInv, QueueOK
    <2>3. \A i \in 1..Len(queue') : i \in 1..Len(queue) \/ i = Len(queue) + 1
      BY <2>1
    <2>4. \A i, j \in 1..Len(queue') : queue'[i] = queue'[j] => i = j
      BY <2>1, <2>2, <2>3 DEF IInv, QueueOK
    <2>5. ASSUME NEW d \in Calls
          PROVE  call'[d].pc = "queued" <=> \E i \in 1..Len(queue') : queue'[i] = d
      <3>1. CASE d = c
        BY <1>6, <2>1, <3>1
      <3>2. CASE d # c
        BY <1>2, <2>1, <2>3, <3>2 DEF IInv, QueueOK, OthersSame
      <3> QED BY <3>1, <3>2
    <2>6. Len(queue') <= TaskQueue
      BY <1>6, <2>1
    <2> QED BY <1>2, <1>3, <1>4, <2>4, <2>5, <2>6 DEF IInv, QueueOK
  <1> QED BY <1>2, <1>5, <1>6

(* A task leaves the queue for a free place in the pool. *)
LEMMA TakeInv ==
  ASSUME IInv, Take, NEW c \in Calls, c = Head(queue)
  PROVE  IInv'
  <1>1. queue \in Seq(Calls) /\ queue # <<>> /\ Len(queue) \in Nat
    BY LenProperties DEF IInv, Types, Take
  <1>2. /\ c = queue[1] /\ 1 \in 1..Len(queue)
        /\ Tail(queue) \in Seq(Calls) /\ Len(Tail(queue)) = Len(queue) - 1
        /\ \A i \in 1..Len(Tail(queue)) : Tail(queue)[i] = queue[i + 1]
    <2>1. Len(queue) # 0
      BY <1>1, EmptySeq
    <2>2. /\ Head(queue) \in Calls /\ Head(queue) = queue[1]
          /\ Tail(queue) \in Seq(Calls) /\ Len(Tail(queue)) = Len(queue) - 1
          /\ \A i \in 1..Len(Tail(queue)) : Tail(queue)[i] = queue[i + 1]
      BY <1>1, HeadTailProperties
    <2> QED BY <1>1, <2>1, <2>2
  <1>3. queue' = Tail(queue) /\ Goes(c, "asking") /\ UNCHANGED <<client, chan, read>>
    BY DEF Take
  <1>4. call[c].pc = "queued"
    BY <1>2 DEF IInv, QueueOK
  <1>5. Asked(c) /\ call[c].way \in {"chan", "callback"}
    BY <1>2, <1>4 DEF IInv, CallOK, Asked, Waited, TwoChannels, WithCallback, RefusedCall
  <1>6. /\ call' \in [Calls -> CallRecords]
        /\ call'[c].pc = "asking" /\ call'[c].way = call[c].way
        /\ call'[c].reply = call[c].reply /\ call'[c].heard = call[c].heard
        /\ \A d \in Calls \ {c} : call'[d] = call[d]
    BY <1>2, <1>3, GoesChanges DEF PCs, IInv, Types
  <1>7. Asked(c)'
    <2>1. AllUnused(c)'
      BY <1>3, <1>5 DEF Asked, AllUnused, Unused, Silent
    <2> QED BY <1>5, <1>6, <2>1 DEF Asked, Ways
  <1>8. OthersSame(c) /\ Types'
    BY <1>2, <1>3, <1>6 DEF OthersSame, IInv, Types
  <1>9. \A d \in Calls : CallOK(d)'
    <2>1. CallOK(c)' /\ \A d \in Calls : CallOK(d)
      BY <1>7 DEF CallOK, IInv
    <2> QED BY <1>2, <1>8, <2>1, CallsOK
  <1>10. QueueOK'
    <2>1. Len(queue') <= TaskQueue /\ Len(queue') \in Nat
      BY <1>1, <1>2, <1>3 DEF IInv, QueueOK
    <2>2. \A i \in 1..Len(queue') : i + 1 \in 1..Len(queue) /\ queue'[i] = queue[i + 1]
      BY <1>1, <1>2, <1>3
    <2>3. \A i, j \in 1..Len(queue') : queue'[i] = queue'[j] => i = j
      BY <2>2 DEF IInv, QueueOK
    <2>4. \A i \in 1..Len(queue') : queue'[i] # c
      <3>1. ASSUME NEW i \in 1..Len(queue'), queue'[i] = c PROVE FALSE
        <4>1. i + 1 \in 1..Len(queue) /\ queue[i + 1] = queue[1] /\ 1 \in 1..Len(queue)
          BY <1>2, <2>2, <3>1
        <4>2. i + 1 = 1
          BY <4>1 DEF IInv, QueueOK
        <4> QED BY <4>2
      <3> QED BY <3>1
    <2>5. ASSUME NEW d \in Calls \ {c}
          PROVE  call'[d].pc = "queued" <=> \E i \in 1..Len(queue') : queue'[i] = d
      <3>1. call'[d].pc = "queued" <=> \E i \in 1..Len(queue) : queue[i] = d
        BY <1>6 DEF IInv, QueueOK
      <3>2. ASSUME NEW i \in 1..Len(queue), queue[i] = d
            PROVE  i - 1 \in 1..Len(queue') /\ queue'[i - 1] = d
        <4>1. i # 1 /\ i \in Nat
          BY <1>2, <3>2
        <4>2. i - 1 \in 1..Len(queue') /\ (i - 1) + 1 = i
          BY <1>1, <1>2, <1>3, <4>1
        <4> QED BY <2>2, <3>2, <4>2
      <3> QED BY <2>2, <3>1, <3>2
    <2> QED BY <1>6, <2>1, <2>3, <2>4, <2>5 DEF QueueOK
  <1>11. PoolOK'
    <2>1. Busy = {d \in Calls : InPool(d)} /\ Busy' = {d \in Calls : InPool(d)'}
      BY DEF Busy, InPool
    <2>2. Busy' \subseteq Busy \cup {c}
      BY <2>1, <1>6 DEF InPool
    <2>3. IsFiniteSet(Busy) /\ Cardinality(Busy) \in Nat /\ Cardinality(Busy) < Workers
      BY FS_CardinalityType DEF IInv, PoolOK, Take
    <2>4. /\ IsFiniteSet(Busy \cup {c}) /\ Cardinality(Busy \cup {c}) \in Nat
          /\ Cardinality(Busy \cup {c}) <= Cardinality(Busy) + 1
      <3>1. /\ IsFiniteSet(Busy \cup {c})
            /\ Cardinality(Busy \cup {c}) =
                 IF c \in Busy THEN Cardinality(Busy) ELSE Cardinality(Busy) + 1
        BY <2>3, FS_AddElement
      <3> QED BY <2>3, <3>1
    <2>5. IsFiniteSet(Busy') /\ Cardinality(Busy') <= Cardinality(Busy \cup {c})
      BY <2>2, <2>4, FS_Subset
    <2>6. Cardinality(Busy') \in Nat /\ Workers \in Nat
      BY <2>5, FS_CardinalityType DEF PoolAssumption
    <2> QED BY <2>3, <2>4, <2>5, <2>6 DEF PoolOK
  <1> QED BY <1>8, <1>9, <1>10, <1>11 DEF IInv

LEMMA TakeStep == IInv /\ Take => IInv'
  <1> SUFFICES ASSUME IInv, Take PROVE IInv'
    OBVIOUS
  <1>1. queue \in Seq(Calls) /\ queue # <<>>
    BY DEF IInv, Types, Take
  <1>2. Head(queue) \in Calls
    BY <1>1
  <1>3. PICK c \in Calls : c = Head(queue)
    BY <1>2
  <1> QED BY <1>3, TakeInv

LEMMA GoroutineInv == ASSUME IInv, NEW c \in Calls, Goroutine(c) PROVE IInv'
  <1>1. Types /\ CallOK(c)
    BY DEF IInv
  <1>2. StepOK(c)
    <2>1. CASE Answer(c)
      BY <1>1, <2>1, AnswerCalls
    <2>2. CASE Put(c)
      BY <1>1, <2>2, PutCalls
    <2>3. CASE CloseErr(c)
      BY <1>1, <2>3, CloseCalls
    <2>4. CASE CloseResponse(c)
      BY <1>1, <2>4, CloseCalls
    <2>5. CASE Callback(c)
      BY <1>1, <2>5, CallbackCalls
    <2>6. CASE Result(c)
      BY <1>1, <2>6, ResultCalls
    <2>7. CASE CloseResult(c)
      BY <1>1, <2>7, CloseResultCalls
    <2>8. CASE Refuse(c)
      BY <1>1, <2>8, RefuseCalls
    <2> QED BY <2>1, <2>2, <2>3, <2>4, <2>5, <2>6, <2>7, <2>8 DEF Goroutine
  <1> QED BY <1>2, StepInv

LEMMA ReceiveInv == ASSUME IInv, NEW c \in Calls, NEW ch \in Channels, Receive(c, ch) PROVE IInv'
  <1>1. Types' /\ OthersSame(c) /\ CallOK(c)' /\ UNCHANGED <<client, call, queue>>
    BY ReceiveCalls DEF IInv
  <1>2. \A d \in Calls : CallOK(d)'
    BY <1>1, CallsOK DEF IInv
  <1>3. QueueOK'
    BY <1>1, QueueStays DEF IInv
  <1>4. PoolOK'
    BY <1>1, PoolStays DEF IInv, InPool
  <1> QED BY <1>1, <1>2, <1>3, <1>4 DEF IInv

(* A step that changes nothing but the client. *)
LEMMA ClientInv ==
  ASSUME IInv, client' \in {"none", "ready", "async"}, UNCHANGED <<call, chan, read, queue>>
  PROVE  IInv'
  <1>1. Types'
    BY DEF IInv, Types
  <1>2. \A d \in Calls : CallOK(d)'
    BY CallsStay DEF IInv
  <1>3. QueueOK' /\ PoolOK'
    BY DEF IInv, QueueOK, PoolOK, Busy
  <1> QED BY <1>1, <1>2, <1>3 DEF IInv

LEMMA InitInv == Init => IInv
  <1> SUFFICES ASSUME Init PROVE IInv
    OBVIOUS
  <1>1. Types
    <2>1. NoCall \in CallRecords
      BY DEF NoCall, CallRecords, PCs
    <2>2. Made \in [buf : Seq(Values), open : BOOLEAN]
      BY DEF Made
    <2> QED BY <2>1, <2>2 DEF Init, Types, Values
  <1>2. ASSUME NEW c \in Calls PROVE Asked(c)
    BY DEF Init, Asked, AllUnused, Unused, Silent, NoCall, Made, Channels
  <1>3. QueueOK
    BY DEF Init, QueueOK, NoCall
  <1>4. PoolOK
    <2>1. Busy = {}
      BY DEF Busy, Init, NoCall
    <2> QED BY <2>1, FS_EmptySet DEF PoolOK
  <1> QED BY <1>1, <1>2, <1>3, <1>4 DEF IInv, CallOK

LEMMA StepKeepsInv == IInv /\ [Next]_vars => IInv'
  <1> SUFFICES ASSUME IInv, [Next]_vars PROVE IInv'
    OBVIOUS
  <1>1. CASE NewClient
    BY <1>1, ClientInv DEF NewClient
  <1>2. CASE EnableAsync
    BY <1>2, ClientInv DEF EnableAsync
  <1>3. CASE Take
    BY <1>3, TakeStep
  <1>4. CASE \E c \in Calls : Operation(c)
    BY <1>4, OperationInv
  <1>5. CASE \E c \in Calls : Goroutine(c)
    BY <1>5, GoroutineInv
  <1>6. CASE \E c \in Calls, ch \in Channels : Receive(c, ch)
    BY <1>6, ReceiveInv
  <1>7. CASE UNCHANGED vars
    <2>1. client' \in {"none", "ready", "async"} /\ UNCHANGED <<call, chan, read, queue>>
      BY <1>7 DEF vars, IInv, Types
    <2> QED BY <2>1, ClientInv
  <1> QED BY <1>1, <1>2, <1>3, <1>4, <1>5, <1>6, <1>7 DEF Next

LEMMA Invariance == Spec => []IInv
  BY InitInv, StepKeepsInv, PTL DEF Spec
-----------------------------------------------------------------------------
LEMMA InvTypeOK == IInv => TypeOK
  <1> SUFFICES ASSUME IInv PROVE TypeOK
    OBVIOUS
  <1>1. ASSUME NEW c \in Calls
        PROVE  /\ call[c].pc \in {"put", "closeErr"} => chan[c]["err"].open
               /\ call[c].pc \in {"put", "closeResponse"} => chan[c]["response"].open
               /\ call[c].pc \in {"result", "closeResult"} => chan[c]["result"].open
    BY DEF IInv, CallOK, Asked, Waited, TwoChannels, WithCallback, RefusedCall, Unused
  <1>2. ASSUME NEW c \in Calls
        PROVE  Cardinality({i \in DOMAIN queue : queue[i] = c})
                 = (IF call[c].pc = "queued" THEN 1 ELSE 0)
    <2>1. DOMAIN queue = 1..Len(queue)
      BY DEF IInv, Types
    <2>2. CASE call[c].pc = "queued"
      <3>1. PICK k \in 1..Len(queue) : queue[k] = c
        BY <2>2 DEF IInv, QueueOK
      <3>2. {i \in DOMAIN queue : queue[i] = c} = {k}
        BY <2>1, <3>1 DEF IInv, QueueOK
      <3>3. Cardinality({k}) = 1
        BY FS_Singleton
      <3> QED BY <2>2, <3>2, <3>3
    <2>3. CASE call[c].pc # "queued"
      <3>1. {i \in DOMAIN queue : queue[i] = c} = {}
        BY <2>1, <2>3 DEF IInv, QueueOK
      <3> QED BY <2>3, <3>1, FS_EmptySet
    <2> QED BY <2>2, <2>3
  <1>3. \A c \in Calls : call[c].way \in Ways \cup {Nothing}
    BY DEF IInv, Types, CallRecords
  <1> QED BY <1>1, <1>2, <1>3 DEF IInv, Types, QueueOK, PoolOK, TypeOK

LEMMA InvNilError == IInv => NilErrorMeansResponse
  <1> SUFFICES ASSUME IInv, NEW c \in Calls
               PROVE  LET has(ch, value) == read[c][ch] = value \/ chan[c][ch].buf = <<value>>
                          failed == has("err", "error") \/ has("err", "refused")
                      IN /\ read[c]["err"] = Closed => has("response", "response")
                         /\ read[c]["response"] = Closed => failed
                         /\ ~(failed /\ has("response", "response"))
    BY DEF NilErrorMeansResponse
  <1>1. CallOK(c)
    BY DEF IInv
  <1>2. CASE Asked(c) \/ Waited(c) \/ WithCallback(c)
    BY <1>2 DEF Asked, Waited, WithCallback, AllUnused, Unused, Silent, Nothing, Closed
  <1>3. CASE TwoChannels(c)
    <2>1. CASE Unused(c, "err") /\ Unused(c, "response")
      BY <2>1 DEF Unused, Silent, Nothing, Closed
    <2>2. CASE Delivered(c, "response", "response") /\ Silent(c, "err")
      BY <2>2 DEF Silent, Delivered, Nothing, Closed
    <2>3. CASE Delivered(c, "err", "error") /\ Silent(c, "response")
      BY <2>3 DEF Silent, Delivered, Nothing, Closed
    <2> QED BY <1>3, <2>1, <2>2, <2>3 DEF TwoChannels
  <1>4. CASE RefusedCall(c)
    BY <1>4 DEF RefusedCall, Unused, Silent, Delivered, Nothing, Closed
  <1> QED BY <1>1, <1>2, <1>3, <1>4 DEF CallOK

LEMMA InvCallbackOnce == IInv => CallbackOnce
  <1> SUFFICES ASSUME IInv, NEW c \in Calls
               PROVE  /\ read[c]["result"] = "1" =>
                           call[c].reply # Nothing /\ call[c].heard = <<call[c].reply>>
                      /\ read[c]["result"] = "0" =>
                           call[c].reply = Nothing /\ call[c].heard = <<"refused">>
                      /\ read[c]["result"] # Closed
    BY DEF CallbackOnce
  <1>1. CallOK(c)
    BY DEF IInv
  <1> QED BY <1>1 DEF CallOK, Asked, Waited, TwoChannels, WithCallback, RefusedCall,
       AllUnused, Unused, Silent, Delivered, Nothing, Closed, Replies
-----------------------------------------------------------------------------
(* Types; a task is in the queue once and no more of them wait or run than *)
(* the pool has places for; and nothing is sent on a closed channel, which *)
(* would panic in a goroutine of the pool: for any calls and pool.         *)
THEOREM TypeCorrect == Spec => []TypeOK
  BY Invariance, InvTypeOK, PTL

(* A caller of ...WithChan may take a nil error for a response that it can *)
(* receive, and a nil response for an error, whichever channel it receives *)
(* from first (create_stack.go:32-48).                                     *)
THEOREM NilErrorIsResponse == Spec => []NilErrorMeansResponse
  BY Invariance, InvNilError, PTL

(* The channel of ...WithCallback says what the callback was called with,  *)
(* and it was called once (create_stack.go:52-74).                         *)
THEOREM CallbackCalledOnce == Spec => []CallbackOnce
  BY Invariance, InvCallbackOnce, PTL
=============================================================================
