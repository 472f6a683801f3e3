------------------------------ MODULE Contexts -------------------------------
(***************************************************************************)
(* pkg/appconf/context.go, pkg/aliyun/credential.go and the names of       *)
(* pkg/appstack/appstack.go: which account and region a handler works in,  *)
(* and under which names it keeps what it knows.                           *)
(*                                                                         *)
(* A name is the sequence of its parts between dashes, in lower case, so   *)
(* <<"web", "db">> is both the application web-db and the output db of the *)
(* application web.  A scope is NoScope or an identity [app, region, uid], *)
(* which is also the name of the Secret with its credential.               *)
(***************************************************************************)
EXTENDS Sequences

CONSTANTS
  Credentials,    \* the identities whose Secret has an access key
  NoScope,
  NoUid,          \* AliUid of a context that is not from a scope
  NoRegion,       \* an identity without regionId
  ConfigRegion,   \* -region-id
  ConfigAccount   \* the account of -access-key-id or -credential-secret-name

Modes == {"real", "dry"}
NoClient == <<>>

(* NewContext fails when the identity's Secret cannot be read or is not a  *)
(* credential; a dry run looks at no scope.                                *)
ContextFails(scope, mode) ==
  mode = "real" /\ scope # NoScope /\ scope \notin Credentials

(* Variant: the credential of the scope is read, but not used. *)
NewContext_ConfigClient(app, scope, mode) ==
  IF mode = "dry" \/ scope = NoScope THEN
    [app |-> app, uid |-> NoUid, region |-> ConfigRegion,
     client |-> IF mode = "dry" THEN NoClient ELSE <<ConfigAccount, ConfigRegion>>]
  ELSE [app |-> app, uid |-> scope.uid, region |-> scope.region,
        client |-> <<ConfigAccount, ConfigRegion>>]

(* NewContext: a client is the account and the region it talks to.  A dry  *)
(* run's is never initialised.                                             *)
NewContext(app, scope, mode) ==
  IF mode = "dry" THEN
    [app |-> app, uid |-> NoUid, region |-> ConfigRegion, client |-> NoClient]
  ELSE IF scope = NoScope THEN
    [app |-> app, uid |-> NoUid, region |-> ConfigRegion,
     client |-> <<ConfigAccount, ConfigRegion>>]
  ELSE
    LET region == IF scope.region = NoRegion THEN ConfigRegion ELSE scope.region IN
    [app |-> app, uid |-> scope.uid, region |-> region, client |-> <<scope.uid, region>>]

(* GetSecretName, the name of the record and of the stack. *)
SecretName(ctx) ==
  IF ctx.uid = NoUid THEN ctx.app ELSE <<ctx.region, ctx.uid>> \o ctx.app

(* GetOutputSecretName *)
OutputSecretName(ctx, instance) == Append(SecretName(ctx), instance)
=============================================================================
