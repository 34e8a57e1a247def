----------------------------- MODULE MCFinalize -----------------------------
(***************************************************************************)
(* Instances of Finalize.  A plan resolver is a template: its steps, with  *)
(* dependency 0 for the layer's parent step and k for the template's k-th  *)
(* step, and the shapes its field may have.                                *)
(***************************************************************************)
EXTENDS Finalize

CONSTANT Inner    \* the constant that plan resolvers of leaf fields build

S(cls, arg, deps) == [cls |-> cls, arg |-> arg, deps |-> deps, guards |-> {}]
Limited(cls, arg, deps) == [cls |-> cls, arg |-> arg, deps |-> deps, guards |-> {"limited"}]
T(steps, kinds) == [steps |-> steps, kinds |-> kinds]

Leaf == {"leaf"}

Access     == T(<<S("pure", "f", <<0>>)>>, {"leaf", "object"})
Items      == T(<<S("pure", "items", <<0>>)>>, {"list"})
Listed     == T(<<S("const", "c", <<>>)>>, {"list"})
Shared     == T(<<S("const", Inner, <<>>)>>, {"object"})
OfConstant == T(<<S("const", Inner, <<>>), S("pure", "f", <<1>>)>>, Leaf)
OfAccess   == T(<<S("pure", "f", <<0>>), S("pure", "h", <<1>>)>>, Leaf)
Pair       == T(<<S("const", Inner, <<>>), S("list", "", <<1, 0>>)>>, Leaf)
Resolver   == T(<<S("resolve", "r", <<0>>)>>, {"leaf", "object"})
Async      == T(<<S("const", Inner, <<>>), S("async", "a", <<1>>), S("pure", "h", <<2>>)>>, Leaf)
Write      == T(<<S("pure", "f", <<0>>), S("write", "w", <<1>>)>>, Leaf)
Absorbed   == T(<<S("pure", "f", <<0>>), S("write", "w", <<1>>), S("absorb", "", <<2>>)>>, Leaf)
Unkeyed    == T(<<S("write", "u", <<>>), S("absorb", "", <<1>>)>>, Leaf)
Restless   == T(<<S("const", Inner, <<>>), S("restless", "", <<1>>)>>, {"leaf", "object"})

Users      == T(<<S("all", "users", <<0>>)>>, {"list"})
Posts      == T(<<S("pure", "id", <<0>>), S("select", "posts", <<1>>)>>, {"leaf", "list"})
Author     == T(<<S("pure", "author", <<0>>), S("single", "users", <<1>>)>>, {"leaf", "object"})
TopPosts   == T(<<S("pure", "id", <<0>>), Limited("select", "posts", <<1>>)>>, {"list"})

ValueFamily  == {Items, Shared, OfConstant, OfAccess, Pair, Async}
EffectFamily == {Access, Items, Write, Absorbed, Unkeyed, Resolver, Restless}
PgFamily     == {Access, Users, Posts, Author, TopPosts}

Mode(i, h, m) == [inline |-> i, hoist |-> h, mutation |-> m]
MCModes == {Mode(FALSE, FALSE, FALSE), Mode(TRUE, TRUE, FALSE), Mode(TRUE, TRUE, TRUE)}

MCFamilies == {ValueFamily, EffectFamily, PgFamily}
MCCollidingFamilies == {{Listed, OfConstant, OfAccess, Pair}}

=============================================================================
