----------------------------- MODULE MCFileSys ------------------------------
EXTENDS FileSys

C(op, path) == [op |-> op, abs |-> TRUE, path |-> path, new |-> <<>>]
Rel(op, path) == [op |-> op, abs |-> FALSE, path |-> path, new |-> <<>>]
MCCalls ==
  {C("mkdir", <<"a">>), C("unlink", <<"a">>), C("create", <<"a", "b">>), C("chdir", <<"a">>),
   C("unlink", <<"a", "b">>), Rel("open", <<"b">>), C("open", <<"a">>), C("chdir", <<>>), C("mknod", <<"b">>),
   [op |-> "link", abs |-> TRUE, path |-> <<"a">>, new |-> <<"b">>],
   [op |-> "link", abs |-> TRUE, path |-> <<"a", "b">>, new |-> <<"b">>]}
============================================================================
