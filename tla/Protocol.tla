------------------------------ MODULE Protocol ------------------------------
(***************************************************************************)
(* The requests of the text protocol as server/client_protocol.c reads     *)
(* them.  A request is one of the classes of text that the parser and the  *)
(* handler tell apart: the verb, and for AUTH and SEND_CMD whether the     *)
(* parameter is one that the server knows.  "unknown" is any text that     *)
(* starts with none of the six verbs.                                      *)
(***************************************************************************)

AllRequests ==
  {"AUTH:good", "AUTH:bad", "GET_DATA", "SEND_CMD:valid", "SEND_CMD:invalid",
   "LIST_USERS", "RECHARGE", "DISCONNECT", "unknown"}

Replies == {"AUTH_SUCCESS", "AUTH_FAILED", "DATA", "OK", "USERS", "ERROR"}

(* protocol_parse_command: the type left in the parsed_command_t, which is  *)
(* what protocol_handle_command looks at.  The structure was cleared with   *)
(* memset, and CMD_AUTH is 0: text that matches no verb keeps the type      *)
(* CMD_AUTH, with empty parameters.  (CMD_UNKNOWN is only returned, and the *)
(* caller drops the result.)                                                *)
CommandType(r) ==
  CASE r \in {"AUTH:good", "AUTH:bad", "unknown"}     -> "CMD_AUTH"
    [] r \in {"SEND_CMD:valid", "SEND_CMD:invalid"}   -> "CMD_SEND_CMD"
    [] r = "GET_DATA"                                 -> "CMD_GET_DATA"
    [] r = "LIST_USERS"                               -> "CMD_LIST_USERS"
    [] r = "RECHARGE"                                 -> "CMD_RECHARGE"
    [] r = "DISCONNECT"                               -> "CMD_DISCONNECT"

(* The strcmp of client_manager_authenticate_client. *)
CredentialsMatch(r) == r = "AUTH:good"

(* The commands that ask for the administrator flag first. *)
NeedsAdmin(r) ==
  CommandType(r) \in {"CMD_SEND_CMD", "CMD_LIST_USERS", "CMD_RECHARGE"}

(* What an administrator may be answered: a valid vehicle command fails at  *)
(* a speed limit.                                                           *)
AdminReplies(r) ==
  CASE r = "SEND_CMD:valid"   -> {"OK", "ERROR"}
    [] r = "SEND_CMD:invalid" -> {"ERROR"}
    [] r = "LIST_USERS"       -> {"USERS"}
    [] r = "RECHARGE"         -> {"OK"}

(* What anyone is answered. *)
OpenReply(r) == IF CommandType(r) = "CMD_GET_DATA" THEN "DATA" ELSE "OK"
=============================================================================
