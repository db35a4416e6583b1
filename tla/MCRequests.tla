----------------------------- MODULE MCRequests -----------------------------
EXTENDS Requests, TLC

\* One handler of each sort.
MCHandler ==
  {<<"page", "ok">>, <<"page", "missing">>, <<"page", "panics">>,
   <<"admin", "failed">>, <<"admin", "denied">>, <<"login", "panics">>,
   <<"excluded", "rejected">>}

\* Handlers that return, whatever they answer, and one whose panic is recovered.
MCReturning ==
  {<<"page", "ok">>, <<"admin", "failed">>, <<"dashboard", "panics">>}

\* Handlers that are served, refused, or return an error.
MCRefusing ==
  {<<"page", "ok">>, <<"page", "rejected">>, <<"login", "ok">>, <<"admin", "forbidden">>}

MCSymmetry == Permutations(Request)
=============================================================================
