----------------------------- MODULE MCClientConfig -----------------------------
EXTENDS ClientConfig

(* The hosts that may use http, in each way the code writes them, and one  *)
(* that may not; with and without a slash at the end.                      *)
MCUrls ==
  {Url("https", "example.com", FALSE), Url("https", "example.com", TRUE),
   Url("http", "localhost", TRUE), Url("http", "127.0.0.2", FALSE),
   Url("http", "::1", FALSE), Url("http", "example.com", FALSE),
   Url("ftp", "localhost", FALSE)}

Policy(attempts, multiplier, initial) ==
  [max_attempts |-> attempts, multiplier |-> multiplier, initial_delay |-> initial,
   max_delay |-> 2, jitter |-> FALSE, request_timeout |-> 2, max_response_bytes |-> 1]
MCPolicies == {Policy(3, 2, 1), Policy(1, 1, 0), Policy(0, 2, 1), Policy(1, 0, 1),
               Policy(1, 2, 3)}
=============================================================================
