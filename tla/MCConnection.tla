---------------------------- MODULE MCConnection ----------------------------
(* Connection with requests that the server executes, requests that its    *)
(* parser rejects, and requests whose answers are over the client's limit. *)
EXTENDS Connection

CONSTANTS a, b

Short == {<<<<a>>>>, <<<<b>>>>}

\* More strings than k_max_args.
Long == <<<<>>, <<b>>>>

\* A longer one, whose answer is too long for the client.
Listings == {<<<<a, b>>>>}

Mixed == {<<<<a>>>>, Long} \cup Listings
ShortAndLong == Short \cup {Long}
=============================================================================
