----------------------------- MODULE MCChatClient -----------------------------
EXTENDS ChatClient

\* The state without reply, which nothing reads before a step has set it, and with
\* names for the handles of rooms: two rooms never have the same name here, as no
\* name is a full one, and nothing tells one handle from another.
Seen ==
  <<phase, name, heard, {title[h] : h \in rooms}, {title[h] : h \in idle},
    [i \in Ids |-> IF room[i] = NULL THEN NULL ELSE title[room[i]]],
    pc, callVars, selfVars, air, history>>
=============================================================================
