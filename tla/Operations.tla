------------------------------- MODULE Operations -------------------------------
(***************************************************************************)
(* The operations of BoxApi: the method and the route that each endpoint   *)
(* method of client.rs and administration.rs builds its request from.  A   *)
(* route is a sequence of literal pieces and of slots that identifiers     *)
(* fill.  An operation is named as the code names it for its logs; the     *)
(* methods that call another one (command, exec, the helpers) have none.   *)
(***************************************************************************)
EXTENDS Sequences, TLC

Box == "{box}"   \* filled by an identifier that passed validate_box_id
Id == "{id}"     \* filled by an identifier that went through segment

Get(route) == [method |-> "GET", route |-> route]
Post(route) == [method |-> "POST", route |-> route]
Put(route) == [method |-> "PUT", route |-> route]
Patch(route) == [method |-> "PATCH", route |-> route]
Delete(route) == [method |-> "DELETE", route |-> route]

AccountOps ==
  [me |-> Get(<<"me">>),
   limits |-> Get(<<"limits">>)]

LifecycleOps ==
  [boxes |-> Get(<<"boxes">>),
   create |-> Post(<<"boxes">>),
   get |-> Get(<<"boxes", Box>>),
   update |-> Patch(<<"boxes", Box>>),
   stop |-> Post(<<"boxes", Box, "stop">>),
   resume |-> Post(<<"boxes", Box, "resume">>),
   delete_box |-> Delete(<<"boxes", Box>>),
   interrupt |-> Post(<<"boxes", Box, "interrupt">>)]

InBoxOps ==
  [command |-> Post(<<"boxes", Box, "commands">>),
   command_status |-> Get(<<"boxes", Box, "commands", Id>>),
   prompt |-> Post(<<"boxes", Box, "prompt">>),
   prompt_run_status |-> Get(<<"boxes", Box, "prompts", Id>>),
   events |-> Get(<<"boxes", Box, "events">>),
   desktop |-> Post(<<"boxes", Box, "desktop">>)]

SnapshotOps ==
  [list_box_snapshots |-> Get(<<"boxes", Box, "snapshots">>),
   latest_box_snapshot |-> Get(<<"boxes", Box, "snapshots", "latest">>),
   list_snapshots |-> Get(<<"snapshots">>),
   snapshot_tree |-> Get(<<"snapshots", Id, "tree">>),
   snapshot_file |-> Get(<<"snapshots", Id, "files">>),
   snapshot_download |-> Get(<<"snapshots", Id, "download">>),
   delete_snapshot |-> Delete(<<"snapshots", Id>>),
   get_deletion_operation |-> Get(<<"deletion-operations", Id>>)]

EnvironmentOps ==
  [environments |-> Get(<<"environments">>),
   create_environment |-> Post(<<"environments">>),
   update_environment |-> Put(<<"environments", Id>>),
   delete_environment |-> Delete(<<"environments", Id>>)]

FileAndHostOps ==
  [read_file |-> Get(<<"boxes", Box, "files">>),
   write_file |-> Put(<<"boxes", Box, "files">>),
   host_port |-> Post(<<"boxes", Box, "host">>),
   ssh_key |-> Post(<<"boxes", Box, "sshkey">>)]

(* administration.rs lists its methods alphabetically.                     *)
AdministrationOpsAToD ==
  [add_environment_repo |-> Post(<<"environments", Id, "repos">>),
   api_key_usage |-> Get(<<"api-keys", Id, "usage">>),
   api_keys |-> Get(<<"api-keys">>),
   artifact |-> Get(<<"boxes", Box, "artifacts">>),
   create_webhook |-> Post(<<"webhooks">>),
   delete_environment_repo |-> Delete(<<"environments", Id, "repos", Id>>),
   delete_environment_secret_file |-> Delete(<<"environments", Id, "secret-files">>),
   delete_environment_var |-> Delete(<<"environments", Id, "vars", Id>>),
   delete_named_snapshot |-> Delete(<<"named-snapshots", Id>>),
   delete_webhook |-> Delete(<<"webhooks", Id>>)]

AdministrationOpsFToR ==
  [fork |-> Post(<<"boxes", Box, "fork">>),
   get_data_retention |-> Get(<<"account", "data-retention">>),
   get_named_snapshot |-> Get(<<"named-snapshots", Id>>),
   get_webhook |-> Get(<<"webhooks", Id>>),
   list_named_snapshots |-> Get(<<"named-snapshots">>),
   list_webhooks |-> Get(<<"webhooks">>),
   repos |-> Get(<<"repos">>),
   rotate_webhook_signing_secret |-> Post(<<"webhooks", Id, "rotate">>)]

AdministrationOpsSToU ==
  [save_named_snapshot |-> Post(<<"named-snapshots">>),
   secrets |-> Get(<<"secrets">>),
   select_repo |-> Post(<<"repos">>),
   set_environment_secret_file |-> Put(<<"environments", Id, "secret-files">>),
   set_environment_var |-> Put(<<"environments", Id, "vars", Id>>),
   update_data_retention |-> Patch(<<"account", "data-retention">>),
   update_secrets |-> Post(<<"secrets">>),
   update_webhook |-> Patch(<<"webhooks", Id>>),
   upgrade_environment |-> Post(<<"environments", Id, "upgrade">>)]

Operations ==
  AccountOps @@ LifecycleOps @@ InBoxOps @@ SnapshotOps @@ EnvironmentOps
  @@ FileAndHostOps @@ AdministrationOpsAToD @@ AdministrationOpsFToR
  @@ AdministrationOpsSToU

Slots(op) == {i \in DOMAIN Operations[op].route : Operations[op].route[i] \in {Box, Id}}

(* The operations whose request carries an Idempotency-Key or the          *)
(* X-Ascii-Confirm-Delete header, and those that validate_file_path guards.*)
KeyedOps == {"create", "fork"}
ConfirmedOps == {"delete_box", "delete_snapshot"}
FilePathOps == {"read_file", "write_file"}

(* No request fits the routes of two operations: they differ in the method,*)
(* in the length, or in a literal.                                         *)
Apart(one, other) ==
  \/ Operations[one].method # Operations[other].method
  \/ Len(Operations[one].route) # Len(Operations[other].route)
  \/ \E i \in DOMAIN Operations[one].route \ (Slots(one) \cup Slots(other)) :
       Operations[one].route[i] # Operations[other].route[i]

(* What TLC decides for the whole table: no literal is a dot segment,      *)
(* routes are apart, and a box is what the deletion of a box names.        *)
ASSUME RoutesAssumption ==
  /\ \A op \in DOMAIN Operations :
       LET route == Operations[op].route
       IN  route \in Seq(STRING) \ {<<>>} /\ \A i \in DOMAIN route : route[i] \notin {".", ".."}
  /\ \A one, other \in DOMAIN Operations : one # other => Apart(one, other)
  /\ Operations["delete_box"].route[2] = Box /\ 2 \in Slots("delete_box")

=============================================================================
