--------------------------- MODULE MCLDAPCorrelation ---------------------------
(* Conversations of an LDAP flow for TLC, byte by byte.                      *)
EXTENDS LDAPCorrelation

\* A message in short form whose only part is an empty operation.
Plain(id, op) == <<48, 5, 2, 1, id, op, 0>>
\* One whose length has an octet of its own and that has controls.
WithControls(id, op) == <<48, 129, 7, 2, 1, id, op, 0, 160, 0>>
\* One with a part that is not understood after the operation.
WithTrailer(id, op) == <<48, 7, 2, 1, id, op, 0, 5, 0>>
\* An operation that reaches over the end of its message.
Overlong(id, op) == <<48, 8, 2, 1, id, op, 9, 0, 0, 0>>
\* Lengths that are not decoded, and one that no buffer takes.
Indefinite == <<48, 128, 2>>
Huge(id, op) == <<48, 24, 2, 1, id, op, 19>>

BindRequest == 96
BindResponse == 97
SearchRequest == 99
SearchEntry == 100
SearchDone == 101
Unbind == 66
Unknown == 70

Conversation(forward, reverse) == [forward |-> forward, reverse |-> reverse]

MCConversations == {
  Conversation(Plain(1, SearchRequest) \o Plain(1, SearchRequest),
               Plain(1, SearchEntry) \o Plain(1, SearchDone)),
  Conversation(Plain(1, SearchRequest) \o Plain(2, BindRequest),
               Plain(1, SearchEntry) \o Plain(2, BindResponse) \o Plain(1, SearchDone)),
  Conversation(Plain(1, SearchRequest) \o Plain(2, SearchRequest) \o Plain(3, BindRequest),
               Plain(1, SearchDone) \o Plain(2, SearchDone)),
  Conversation(Plain(1, SearchRequest) \o WithTrailer(1, SearchRequest), Plain(1, SearchDone)),
  Conversation(WithControls(1, SearchRequest) \o Overlong(2, BindRequest),
               Plain(1, SearchDone)),
  Conversation(Plain(1, BindRequest) \o Indefinite, WithControls(1, BindResponse)),
  Conversation(Plain(1, SearchRequest) \o Huge(2, SearchRequest), Plain(1, SearchDone)),
  Conversation(Plain(1, SearchRequest) \o Plain(2, Unbind), Plain(1, SearchRequest) \o Plain(1, SearchDone)),
  Conversation(Plain(1, SearchRequest) \o Plain(1, Unknown),
               Plain(1, BindResponse) \o Plain(1, SearchDone) \o Plain(1, SearchDone)),
  Conversation(Plain(0, SearchRequest) \o Plain(2, SearchRequest),
               <<22>> \o Plain(2, SearchDone)) }
=============================================================================
