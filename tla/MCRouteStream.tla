---------------------------- MODULE MCRouteStream ----------------------------
(* RouteStream for TLC: both destinations take multipart uploads. *)
EXTENDS RouteStream

MCMultipart == <<TRUE, TRUE>>

=============================================================================
