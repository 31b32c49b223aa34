---------------------------- MODULE MCIrCreation ----------------------------
\* Small programs for IrCreation: two names, expressions of up to two atoms.
EXTENDS IrCreation

MCNames == {"a", "b"}

MCExpressions == { <<<<"NUMBER">>>>,
                   <<<<"VARIABLE", "a">>>>,
                   <<<<"VARIABLE", "b">>, <<"NUMBER">>, <<"BINARY_EXP">>>> }

Kinds == {"BINARY_EXP", "DECLARATION", "IF", "WHILE", "RETURN"}

\* Four statements of any kind; two blocks.
MCAny == [k \in 1..4 |-> Kinds]
MCTwoBlocks == [k \in 1..2 |-> {"IF", "WHILE"}]

MCConditions == { <<<<"NUMBER">>>>, <<<<"VARIABLE", "b">>>> }
=============================================================================
