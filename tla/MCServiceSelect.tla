---------------------------- MODULE MCServiceSelect ----------------------------
EXTENDS ServiceSelect

CONSTANTS s1, s2, s3

MCPats == {<<s1, s2>>, <<s3, s2, s1>>, <<s2>>}

MCLeftovers == {<<{0, s2}, {}>>, <<{s3}, {0}>>}

MCRequests == {AllServices, Single, <<s2, s3>>, <<s2, s2>>, <<s1>>}
================================================================================
