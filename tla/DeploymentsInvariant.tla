------------------------ MODULE DeploymentsInvariant -------------------------
(***************************************************************************)
(* The inductive invariant behind what Deployments says of stacks and      *)
(* their records, however applications move and processes come and go.     *)
(***************************************************************************)
EXTENDS Deployments

RealContext(a, s) == NewContext(a, s, "real")
RealName(a, s) == SecretName(RealContext(a, s))

(* A name is that of one application in one account and region: no         *)
(* application is named for the record of another.                         *)
NamesApart ==
  \A a, b \in Apps : \A s \in Scopes[a], t \in Scopes[b] :
    RealName(a, s) = RealName(b, t) =>
      a = b /\ RealContext(a, s).client = RealContext(b, t).client

States == {"absent", "busy", "ok", "failed", "deleting", "deleted"}

Objects == [state : {"none", "live", "deleting", "gone"},
            scope : {NoScope} \cup UNION {Scopes[a] : a \in Apps},
            tmpl : {None} \cup UNION {Templates[a] : a \in Apps},
            fin : BOOLEAN, moved : BOOLEAN]

AppsInv ==
  /\ obj \in [Apps -> Objects]
  /\ \A a \in Apps : obj[a].state # "none" =>
       obj[a].scope \in Scopes[a] /\ obj[a].tmpl \in Templates[a]
  /\ due \subseteq {a \in Apps : obj[a].state # "none"}

Uids == {c.uid : c \in Contexts}
Regions == {c.region : c \in Contexts}
Clients == {c.client : c \in Contexts}

AppContexts == [app : Apps, uid : Uids, region : Regions, client : Clients]

Processes ==
  [up : BOOLEAN, mode : Modes, leader : BOOLEAN, worker : Apps \cup {None},
   watchers : SUBSET [ctx : AppContexts, id : Ids \cup {Fake, None}, handler : BOOLEAN],
   charge : SUBSET Names]

ProcsInv ==
  /\ proc \in [Procs -> Processes]
  /\ \A p \in Procs : proc[p].mode = "dry" => "dry" \in past

Stacks == [place : {NoClient} \cup Clients, name : {<<>>} \cup Names,
           tmpl : {None} \cup UNION {Templates[a] : a \in Apps}, state : States]

(* A stack is that of an application, in a scope it has or had. *)
OwnedBy(i, a, s) ==
  /\ stack[i].name = RealName(a, s) /\ stack[i].place = RealContext(a, s).client
  /\ stack[i].tmpl \in Templates[a] /\ obj[a].state # "none"

StacksInv ==
  /\ stack \in [Ids -> Stacks]
  /\ \A i \in Ids :
       stack[i].state # "absent" => \E a \in Apps : \E s \in Scopes[a] : OwnedBy(i, a, s)

(* An id is that of a stack which was created with this name. *)
IsOf(id, n) == id \in Ids => stack[id].state # "absent" /\ stack[id].name = n

(* No application could have chosen another name, or a dry run did. *)
Chosen(n, a) == "dry" \in past \/ \E s \in Scopes[a] : n = RealName(a, s)

SecretsInv ==
  /\ DOMAIN secrets = Names
  /\ \A n \in Names :
       /\ "StackId" \in DOMAIN secrets[n] =>
            secrets[n]["StackId"] \in Ids \cup {Fake} /\ IsOf(secrets[n]["StackId"], n)
       /\ "Outputs" \in DOMAIN secrets[n] => \A m \in secrets[n]["Outputs"] : Clash(m)

InfosInv ==
  \A n \in DOMAIN infos :
    /\ n \in Names /\ infos[n] \in [app : Apps, region : Regions, uid : Uids]
    /\ SecretName(infos[n]) = n /\ Chosen(n, infos[n].app)

WatchersInv ==
  \A p \in Procs : \A w \in proc[p].watchers :
    /\ SecretName(w.ctx) \in Names
    /\ IsOf(w.id, SecretName(w.ctx)) /\ Chosen(SecretName(w.ctx), w.ctx.app)

(* One stack of a name in a place. *)
OneOfName ==
  \A i, j \in Ids :
    Live(i) /\ Live(j) /\ stack[i].name = stack[j].name /\ stack[i].place = stack[j].place
      => i = j

(* The stacks of an application that did not move have the name it has. *)
StayedInv ==
  \A a \in Apps, i \in Ids :
    stack[i].state # "absent" /\ Of(a, i) /\ ~obj[a].moved => stack[i].name = SecretName(Here(a))

(* The record of a live stack has its id, with the exceptions of RecordsKept. *)
Excused(n) == Clash(n) \/ \E j \in Deleted : stack[j].name = n
RecordedInv ==
  \A n \in Names, i \in Ids :
    Live(i) /\ stack[i].name = n /\ ~Excused(n) => Get(n, "StackId") = i

(* The object of a live stack has its finalizer, until it is gone. *)
FinalizerInv ==
  \A a \in Apps, i \in Ids :
    Live(i) /\ Of(a, i) /\ ~(\E j \in Deleted : Of(a, j)) /\ "dry" \notin past =>
      obj[a].fin \/ obj[a].state = "gone"

PlaceInv ==
  /\ AppsInv /\ ProcsInv /\ StacksInv /\ SecretsInv /\ InfosInv /\ WatchersInv

-----------------------------------------------------------------------------
(* Outputs, and who watches.                                               *)

RecordName(n) == \E c \in Contexts : n = SecretName(c)
OutputOf(n, m) == \E a \in Apps : \E i \in Outs(a) : m = Append(n, i)

(* What is listed or watched has the name of a record, never one that only *)
(* an output has; what a record names as its outputs are its own.          *)
RecordNamesInv ==
  /\ faults \in Nat /\ \A a \in Apps : obj[a].state = "none" => obj[a].scope = NoScope
  /\ \A n \in DOMAIN infos : RecordName(n)
  /\ \A p \in Procs : \A w \in proc[p].watchers : RecordName(SecretName(w.ctx))
  /\ \A n \in Names : "Outputs" \in DOMAIN secrets[n] =>
       \A m \in secrets[n]["Outputs"] : OutputOf(n, m)

(* The template in a record is that of the stack in it, and a live stack   *)
(* of this name is that stack.                                             *)
TemplateInv ==
  \A n \in Names : Get(n, "StackId") \in Ids =>
    /\ Get(n, "TemplateBody") = stack[Get(n, "StackId")].tmpl
    /\ \A i \in Ids : Live(i) /\ stack[i].name = n => Get(n, "StackId") = i

(* The outputs of a record that is Ready are there. *)
Saved(n) ==
  \A i \in Get(n, "TemplateBody").outs : ~RecordName(Append(n, i)) =>
    secrets[Append(n, i)] = [Attr |-> Get(n, "TemplateBody").version, List |-> ""]

SavedInv ==
  \A n \in Names :
    Status(n) = "Ready" /\ faults = 0 /\ Get(n, "StackId") \in Ids => Saved(n)

(* A record with a stack is listed for the application the stack is of.    *)
ListedInv ==
  \A n \in DOMAIN infos : Get(n, "StackId") \in Ids =>
    \E s \in Scopes[infos[n].app] : n = RealName(infos[n].app, s)

(* A process watches what is in its charge. *)
Charged(p, n) ==
  /\ proc[p].mode = "real" /\ n \in proc[p].charge \cap DOMAIN infos
  /\ Status(n) = "Progressing" /\ Get(n, "StackId") \in Ids
  /\ stack[Get(n, "StackId")].state # "deleted" \/ faults = 0
  /\ ~obj[infos[n].app].moved

Watched(p, n) ==
  \E w \in proc[p].watchers :
    /\ w.id = Get(n, "StackId") /\ SecretName(w.ctx) = n
    /\ w.ctx.client = stack[w.id].place

ChargeInv == \A p \in Procs, n \in Names : Charged(p, n) => Watched(p, n)

OutputsInv == RecordNamesInv /\ TemplateInv /\ SavedInv
WatchInv == ListedInv /\ ChargeInv

DeploymentsInv == PlaceInv /\ OneOfName /\ StayedInv /\ RecordedInv /\ FinalizerInv
=============================================================================
