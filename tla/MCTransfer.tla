----------------------------- MODULE MCTransfer -----------------------------
(* Requests for TLC: every mode, destination and way of uploading; ranges  *)
(* of one, two and three chunks or shares, and those that are refused.     *)
EXTENDS Transfer

CONSTANTS a, b, c

Single(client, source, to, size, start, length) ==
  [mode |-> "single", client |-> client, source |-> source, dest |-> to,
   size |-> size, claimed |-> 0, start |-> start, length |-> length, vms |-> <<>>]
Claiming(request, size) == [request EXCEPT !.claimed = size]
From(source, request) == [request EXCEPT !.source = source]
Large(client, to, size, start, length, ips, weights) ==
  [mode |-> "large", client |-> client, source |-> "local", dest |-> to,
   size |-> size, claimed |-> 0, start |-> start, length |-> length,
   vms |-> [i \in DOMAIN ips |-> [ip |-> ips[i], weight |-> weights[i]]]]

MCRequests ==
  {Single(TRUE, "local", "s3", 9, 0, 0), Single(TRUE, "s3", "gcs", 4, 1, 0),
   Single(FALSE, "s3", "gcs", 5, 0, 0), Single(TRUE, "gcs", "disk", 3, 0, 0),
   Single(FALSE, "local", "disk", 3, 0, 0),
   Single(FALSE, "gcs", "s3", 4, 1, 1), Single(FALSE, "s3", "gcs", 3, 1, 1),
   Single(TRUE, "local", "disk", 2, 1, 1), Single(FALSE, "remote", "gcs", 5, 0, 0),
   Single(TRUE, "gcs", "s3", 2, 2, 1)}
  \cup
  {Claiming(Single(TRUE, "local", "gcs", 4, 0, 0), 4), Claiming(Single(TRUE, "gcs", "disk", 3, 0, 0), 5),
   Claiming(Single(FALSE, "remote", "gcs", 4, 0, 0), 2), Claiming(Single(TRUE, "s3", "gcs", 3, 3, 0), 9)}
  \cup
  {Large(TRUE, "s3", 4, 1, 3, <<a, b>>, <<1, 1>>), Large(FALSE, "gcs", 5, 0, 0, <<a, b, c>>, <<1, 2, 1>>),
   Large(TRUE, "disk", 3, 0, 0, <<a, b>>, <<2, 1>>), Large(TRUE, "gcs", 2, 0, 0, <<a>>, <<1>>),
   Large(FALSE, "s3", 4, 0, 0, <<a, b, a>>, <<1, 1, 1>>), Large(FALSE, "s3", 4, 0, 2, <<a, b>>, <<0, 1>>),
   From("remote", Large(TRUE, "gcs", 4, 0, 0, <<a, b>>, <<1, 1>>)),
   Large(TRUE, "s3", 2, 0, 0, <<a, b>>, <<0, 0>>), Large(TRUE, "s3", 2, 0, 0, <<>>, <<>>)}
=============================================================================
