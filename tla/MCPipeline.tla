----------------------------- MODULE MCPipeline -----------------------------
\* Small programs for Pipeline.
EXTENDS Pipeline

MCNames == {"a", "b"}

MCExpressions == { <<<<"NUMBER">>>>,
                   <<<<"VARIABLE", "a">>, <<"NUMBER">>, <<"BINARY_EXP">>>> }

MCConditions == { <<<<"VARIABLE", "a">>>> }

Body == {"BINARY_EXP", "IF", "WHILE"}

\* Two variables, a block, most often a nested one, and assignments or a return at the end.
MCTwoVariables == <<{"DECLARATION"}, {"DECLARATION"}, Body, {"IF", "WHILE"},
                    {"BINARY_EXP", "RETURN"}, {"BINARY_EXP"}>>

\* One variable, and up to four statements.
MCOneVariable == <<{"DECLARATION"}, Body, Body, Body, Body>>
=============================================================================
